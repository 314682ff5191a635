-------------------------- MODULE GdbServerProofs --------------------------
(***************************************************************************)
(* Proofs about the GDB server, for any number of targets and any nesting  *)
(* of semihosting calls, when gdb_main_loop is called with the controller  *)
(* that target_attach is given (the gdb_main entry point).                 *)
(***************************************************************************)
EXTENDS GdbServer, TLAPS

(***************************************************************************)
(* A pointer the server keeps is to a target that was attached with the    *)
(* server's controller: this is what makes target_list_free clear it.      *)
(***************************************************************************)
KeptTargetsAreOwned ==
    /\ cur # NULL => owner[cur] = LoopCtl
    /\ last # NULL => owner[last] = LoopCtl

\* Unless a target was dropped during a call, every waiting poll has its target.
OuterPollsHaveTargets ==
    cut \/ \A d \in Depths : d < depth => polled[d] \in Live

\* Unless a target was dropped during a call, a polling loop has a target.
PollingHasTarget ==
    (depth > 0 \/ pc = "poll") => (cut \/ cur # NULL)

IInv ==
    /\ TypeOK
    /\ NoDanglingTarget
    /\ KeptTargetsAreOwned
    /\ OuterPollsHaveTargets
    /\ PollingHasTarget
    /\ SyscallFaultOnlyWhenCut

USE DEF controller, loops, history

LEMMA LiveType == TypeOK => Live \subseteq Targets
BY DEF TypeOK, Live, Pointers

\* After target_list_free the server keeps no pointer at all.
LEMMA FreeToForgets ==
    ASSUME IInv, NEW found, FreeTo(found)
    PROVE  cur' = NULL /\ last' = NULL
BY DEF IInv, FreeTo, Forget, NoDanglingTarget, KeptTargetsAreOwned, Live

LEMMA FreeToType ==
    ASSUME TypeOK, NEW found \in [Positions -> Pointers], FreeTo(found),
           cur' = NULL, last' = NULL
    PROVE  /\ list' \in [Positions -> Pointers]
           /\ owner' \in [Targets -> {"none", LoopCtl, AttachCtl}]
           /\ cur' \in Pointers /\ last' \in Pointers
BY DEF TypeOK, FreeTo, Pointers

\* target_attach keeps the pointers of the server owned and to live targets.
LEMMA AttachKeeps ==
    ASSUME AttachCtl = LoopCtl, IInv, NEW t \in Live, NEW ok \in BOOLEAN, Attach(t, ok)
    PROVE  /\ list' = list /\ Live' = Live
           /\ owner' \in [Targets -> {"none", LoopCtl, AttachCtl}]
           /\ cur' \in Pointers /\ last' \in Pointers
           /\ NoDanglingTarget' /\ KeptTargetsAreOwned'
<1> USE DEF IInv
<1>1. t \in Targets /\ t # NULL
  BY LiveType, NullAssumption
<1>2. list' = list /\ Live' = Live
  BY DEF Attach, Live
<1>3. /\ owner' \in [Targets -> {"none", LoopCtl, AttachCtl}]
      /\ owner'[t] = LoopCtl
      /\ \A u \in Targets : u # t => owner'[u] = owner[u]
  BY <1>1 DEF Attach, TypeOK
<1>4. cur' \in {t, NULL} /\ last' \in {last, NULL}
  BY DEF Attach, Forget
<1>5. cur' \in Pointers /\ last' \in Pointers
  BY <1>1, <1>4 DEF TypeOK, Pointers
<1>6. NoDanglingTarget'
  BY <1>2, <1>4 DEF NoDanglingTarget
<1>7. KeptTargetsAreOwned'
  BY <1>1, <1>3, <1>4 DEF KeptTargetsAreOwned, TypeOK, Pointers
<1> QED BY <1>2, <1>3, <1>5, <1>6, <1>7

LEMMA InitIInv == Init => IInv
<1> SUFFICES ASSUME Init PROVE IInv
  OBVIOUS
<1>1. TypeOK
  <2>1. single_step \in [Depths -> BOOLEAN]
    BY Zenon DEF Init
  <2>3. /\ list \in [Positions -> Pointers]
        /\ owner \in [Targets -> {"none", LoopCtl, AttachCtl}]
        /\ polled \in [Depths -> Pointers]
    BY Zenon DEF Init, Pointers
  <2>4. depth \in Depths
    BY BoundsAssumption DEF Init, Depths
  <2> QED BY <2>1, <2>3, <2>4 DEF Init, TypeOK, Pointers, Faults
<1>2. NoDanglingTarget /\ KeptTargetsAreOwned /\ SyscallFaultOnlyWhenCut
  BY DEF Init, NoDanglingTarget, KeptTargetsAreOwned, SyscallFaultOnlyWhenCut
<1>3. OuterPollsHaveTargets /\ PollingHasTarget
  BY BoundsAssumption DEF Init, OuterPollsHaveTargets, PollingHasTarget, Depths
<1> QED BY <1>1, <1>2, <1>3 DEF IInv

(***************************************************************************)
(* Steps that change neither the list nor the nesting of the loops keep    *)
(* what the outer polls rely on.                                           *)
(***************************************************************************)
LEMMA SameLoops ==
    ASSUME OuterPollsHaveTargets, Live' = Live, depth' = depth, polled' = polled,
           cut => cut'
    PROVE  OuterPollsHaveTargets'
BY DEF OuterPollsHaveTargets

LEMMA vAttachIInv ==
    ASSUME AttachCtl = LoopCtl, IInv, NEW n \in 1..MaxTargets + 1, NEW ok \in BOOLEAN,
           vAttach(n, ok)
    PROVE  IInv'
<1> USE DEF IInv
<1>1. /\ list' = list /\ Live' = Live
      /\ owner' \in [Targets -> {"none", LoopCtl, AttachCtl}]
      /\ cur' \in Pointers /\ last' \in Pointers
      /\ NoDanglingTarget' /\ KeptTargetsAreOwned'
  <2>1. CASE n \in Positions /\ AttachList[n] # NULL
    <3>1. AttachList[n] \in Live /\ Attach(AttachList[n], ok)
      BY <2>1 DEF AttachList, Live, vAttach
    <3> QED BY <3>1, AttachKeeps
  <2>2. CASE ~(n \in Positions /\ AttachList[n] # NULL)
    BY <2>2 DEF vAttach, Live, TypeOK, Pointers, NoDanglingTarget, KeptTargetsAreOwned
  <2> QED BY <2>1, <2>2
<1>2. TypeOK'
  BY <1>1 DEF vAttach, TypeOK, CutIf
<1>3. OuterPollsHaveTargets'
  BY <1>1, SameLoops DEF vAttach, CutIf, TypeOK
<1>4. PollingHasTarget'
  BY DEF vAttach, Serving, CutIf, PollingHasTarget, TypeOK
<1>5. SyscallFaultOnlyWhenCut'
  BY DEF vAttach, Serving, SyscallFaultOnlyWhenCut
<1> QED BY <1>1, <1>2, <1>3, <1>4, <1>5

\* 'r', qXfer and vRun with only a last target.
LEMMA AttachLastIInv ==
    ASSUME AttachCtl = LoopCtl, IInv, NEW ok \in BOOLEAN,
           Serving, cur = NULL, last # NULL, Attach(last, ok),
           fault' \in {"none", "reset_null"},
           UNCHANGED <<flash_mode, loops, history>>
    PROVE  IInv'
<1> USE DEF IInv
<1>1. last \in Live
  BY DEF NoDanglingTarget
<1>2. /\ list' = list /\ Live' = Live
      /\ owner' \in [Targets -> {"none", LoopCtl, AttachCtl}]
      /\ cur' \in Pointers /\ last' \in Pointers
      /\ NoDanglingTarget' /\ KeptTargetsAreOwned'
  BY <1>1, AttachKeeps
<1>3. TypeOK'
  BY <1>2 DEF TypeOK, Faults
<1>4. OuterPollsHaveTargets'
  BY <1>2, SameLoops
<1>5. PollingHasTarget' /\ SyscallFaultOnlyWhenCut'
  BY DEF Serving, PollingHasTarget, SyscallFaultOnlyWhenCut
<1> QED BY <1>2, <1>3, <1>4, <1>5

\* Steps that free the list and stay in the same loop.
LEMMA FreeIInv ==
    ASSUME IInv, NEW found \in [Positions -> Pointers], FreeTo(found),
           fault = "none", pc' = "packet", CutIf(TRUE),
           UNCHANGED <<flash_mode, depth, single_step, polled, fault, missed, bare>>
    PROVE  IInv'
<1> USE DEF IInv
<1>1. cur' = NULL /\ last' = NULL
  BY FreeToForgets
<1>2. TypeOK'
  BY <1>1, FreeToType DEF TypeOK, CutIf
<1>3. NoDanglingTarget' /\ KeptTargetsAreOwned'
  BY <1>1 DEF NoDanglingTarget, KeptTargetsAreOwned
<1>4. depth > 0 => cut'
  BY DEF CutIf
<1>5. OuterPollsHaveTargets'
  BY <1>4, BoundsAssumption DEF OuterPollsHaveTargets, TypeOK, Depths
<1>6. PollingHasTarget' /\ SyscallFaultOnlyWhenCut'
  BY <1>4 DEF PollingHasTarget, SyscallFaultOnlyWhenCut
<1> QED BY <1>2, <1>3, <1>5, <1>6

LEMMA NextIInv ==
    ASSUME AttachCtl = LoopCtl, IInv, [Next]_vars
    PROVE  IInv'
<1> USE DEF IInv
<1> DEFINE Rest == NoDanglingTarget /\ KeptTargetsAreOwned
<1>0. ASSUME UNCHANGED controller PROVE Live' = Live /\ Rest'
  BY <1>0 DEF Live, NoDanglingTarget, KeptTargetsAreOwned
<1>1. ASSUME NEW n \in 1..MaxTargets + 1, NEW ok \in BOOLEAN, vAttach(n, ok) PROVE IInv'
  BY <1>1, vAttachIInv
<1>2. ASSUME NEW packet \in {"s", "c"}, Resume(packet) PROVE IInv'
  <2> DEFINE step == single_step[depth] \/ packet = "s"
  <2>a. step \in BOOLEAN
    OBVIOUS
  <2>b. single_step' \in [Depths -> BOOLEAN]
    <3>1. CASE cur = NULL
      <4>1. single_step' = [single_step EXCEPT ![depth] = step]
        BY <1>2, <3>1 DEF Resume
      <4> HIDE DEF step
      <4> QED BY <2>a, <4>1, Zenon DEF TypeOK
    <3>2. CASE cur # NULL
      <4>1. single_step' = [single_step EXCEPT ![depth] = FALSE]
        BY <1>2, <3>2 DEF Resume
      <4> QED BY <4>1, Zenon DEF TypeOK
    <3> QED BY <3>1, <3>2
  <2>1. TypeOK'
    BY <1>2, <2>b DEF Resume, TypeOK
  <2>2. OuterPollsHaveTargets' /\ Rest'
    BY <1>0, <1>2, SameLoops DEF Resume
  <2>3. PollingHasTarget' /\ SyscallFaultOnlyWhenCut'
    BY <1>2 DEF Resume, Serving, PollingHasTarget, SyscallFaultOnlyWhenCut
  <2> QED BY <2>1, <2>2, <2>3
<1>3. CASE QueryHalt
  <2>1. TypeOK'
    BY <1>3 DEF QueryHalt, TypeOK
  <2>2. OuterPollsHaveTargets' /\ Rest'
    BY <1>0, <1>3, SameLoops DEF QueryHalt
  <2>3. PollingHasTarget' /\ SyscallFaultOnlyWhenCut'
    BY <1>3 DEF QueryHalt, Serving, PollingHasTarget, SyscallFaultOnlyWhenCut
  <2> QED BY <2>1, <2>2, <2>3
<1>4. CASE Detach \/ Kill
  <2>1. TypeOK'
    BY <1>4 DEF Detach, Kill, TypeOK, Pointers, CutIf
  <2>2. Live' = Live
    BY <1>4 DEF Detach, Kill, Live
  <2>3. Rest'
    BY <1>4, <2>2 DEF Detach, Kill, NoDanglingTarget, KeptTargetsAreOwned
  <2>4. OuterPollsHaveTargets'
    BY <1>4, <2>2, SameLoops DEF Detach, Kill, CutIf
  <2>5. PollingHasTarget' /\ SyscallFaultOnlyWhenCut'
    BY <1>4 DEF Detach, Kill, Serving, CutIf, PollingHasTarget, SyscallFaultOnlyWhenCut
  <2> QED BY <2>1, <2>3, <2>4, <2>5
<1>5. CASE vFlashWriteFails
  <2>1. TypeOK'
    BY <1>5 DEF vFlashWriteFails, TypeOK
  <2>2. OuterPollsHaveTargets' /\ Rest'
    BY <1>0, <1>5, SameLoops DEF vFlashWriteFails
  <2>3. PollingHasTarget' /\ SyscallFaultOnlyWhenCut'
    BY <1>5 DEF vFlashWriteFails, PollingHasTarget, SyscallFaultOnlyWhenCut
  <2> QED BY <2>1, <2>2, <2>3
<1>6. ASSUME NEW ok \in BOOLEAN, ResetLast(ok) \/ qXfer(ok) PROVE IInv'
  <2>1. CASE ResetLast(ok)
    BY <2>1, AttachLastIInv DEF ResetLast
  <2>2. CASE qXfer(ok)
    BY <2>2, AttachLastIInv DEF qXfer, Serving
  <2> QED BY <1>6, <2>1, <2>2
<1>7. ASSUME NEW ok \in BOOLEAN, vRun(ok) PROVE IInv'
  <2>1. CASE cur = NULL
    BY <1>7, <2>1, AttachLastIInv DEF vRun, Serving
  <2>2. CASE cur # NULL
    <3>1. TypeOK'
      BY <1>7, <2>2 DEF vRun, TypeOK
    <3>2. OuterPollsHaveTargets' /\ Rest'
      BY <1>0, <1>7, <2>2, SameLoops DEF vRun
    <3>3. PollingHasTarget' /\ SyscallFaultOnlyWhenCut'
      BY <1>7, <2>2 DEF vRun, PollingHasTarget, SyscallFaultOnlyWhenCut
    <3> QED BY <3>1, <3>2, <3>3
  <2> QED BY <2>1, <2>2
<1>8. ASSUME NEW ok \in BOOLEAN, vFlashErase(ok) PROVE IInv'
  <2>1. TypeOK'
    BY <1>8 DEF vFlashErase, TypeOK
  <2>2. OuterPollsHaveTargets' /\ Rest'
    BY <1>0, <1>8, SameLoops DEF vFlashErase
  <2>3. PollingHasTarget' /\ SyscallFaultOnlyWhenCut'
    BY <1>8 DEF vFlashErase, PollingHasTarget, SyscallFaultOnlyWhenCut
  <2> QED BY <2>1, <2>2, <2>3
<1>9. CASE vFlashDone
  <2>1. TypeOK'
    BY <1>9 DEF vFlashDone, TypeOK, Faults
  <2>2. OuterPollsHaveTargets' /\ Rest'
    BY <1>0, <1>9, SameLoops DEF vFlashDone
  <2>3. PollingHasTarget' /\ SyscallFaultOnlyWhenCut'
    BY <1>9 DEF vFlashDone, PollingHasTarget, SyscallFaultOnlyWhenCut
  <2> QED BY <2>1, <2>2, <2>3
<1>10. CASE Scan
  <2>1. PICK found \in ScanResults : FreeTo(found)
    BY <1>10 DEF Scan
  <2>2. found \in [Positions -> Pointers]
    BY DEF ScanResults
  <2> QED BY <1>10, <2>1, <2>2, FreeIInv DEF Scan, Serving, TypeOK
<1>11. CASE PollNull
  <2>1. TypeOK'
    BY <1>11 DEF PollNull, TypeOK, Faults
  <2>2. OuterPollsHaveTargets' /\ Rest'
    BY <1>0, <1>11, SameLoops DEF PollNull
  <2>3. PollingHasTarget' /\ SyscallFaultOnlyWhenCut'
    BY <1>11 DEF PollNull, Polling, PollingHasTarget, SyscallFaultOnlyWhenCut
  <2> QED BY <2>1, <2>2, <2>3
<1>12. CASE Halted
  <2>1. TypeOK'
    BY <1>12 DEF Halted, TypeOK
  <2>2. OuterPollsHaveTargets' /\ Rest'
    BY <1>0, <1>12, SameLoops DEF Halted
  <2>3. PollingHasTarget' /\ SyscallFaultOnlyWhenCut'
    BY <1>12 DEF Halted, PollingHasTarget, SyscallFaultOnlyWhenCut
  <2> QED BY <2>1, <2>2, <2>3
<1>13. CASE TargetLost
  <2>1. owner[cur] = LoopCtl
    BY <1>13 DEF TargetLost, KeptTargetsAreOwned
  <2>2. EmptyList \in [Positions -> Pointers]
    BY DEF EmptyList, Pointers
  <2> QED BY <1>13, <2>1, <2>2, FreeIInv DEF TargetLost, Polling
<1>14. CASE Semihost
  <2>0. depth + 1 \in Depths
    BY <1>14, BoundsAssumption DEF Semihost, TypeOK, Depths
  <2>a. single_step' \in [Depths -> BOOLEAN]
    BY <1>14, Zenon DEF Semihost, TypeOK
  <2>b. polled' \in [Depths -> Pointers]
    BY <1>14 DEF Semihost, TypeOK
  <2>1. TypeOK'
    BY <1>14, <2>0, <2>a, <2>b DEF Semihost, TypeOK
  <2>2. Live' = Live /\ Rest'
    BY <1>0, <1>14 DEF Semihost
  <2>3. cur \in Live
    BY <1>14 DEF Semihost, NoDanglingTarget
  <2>4. OuterPollsHaveTargets'
    BY <1>14, <2>2, <2>3, BoundsAssumption DEF Semihost, OuterPollsHaveTargets, TypeOK, Depths
  <2>5. PollingHasTarget' /\ SyscallFaultOnlyWhenCut'
    BY <1>14 DEF Semihost, PollingHasTarget, SyscallFaultOnlyWhenCut
  <2> QED BY <2>1, <2>2, <2>4, <2>5
<1>15. ASSUME NEW interrupted \in BOOLEAN, hostio_reply(interrupted) PROVE IInv'
  <2>1. TypeOK'
    BY <1>15, BoundsAssumption DEF hostio_reply, TypeOK, Depths, Pointers, Faults
  <2>2. Live' = Live /\ Rest'
    BY <1>0, <1>15 DEF hostio_reply
  <2>3. OuterPollsHaveTargets'
    BY <1>15, <2>2, BoundsAssumption DEF hostio_reply, OuterPollsHaveTargets, TypeOK, Depths
  <2>4. cut \/ polled[depth - 1] \in Live
    BY <1>15, BoundsAssumption DEF hostio_reply, OuterPollsHaveTargets, TypeOK, Depths
  <2>5. SyscallFaultOnlyWhenCut'
    BY <1>15, <2>4 DEF hostio_reply, SyscallFaultOnlyWhenCut
  <2>6. PollingHasTarget'
    BY <1>15 DEF hostio_reply, PollingHasTarget
  <2> QED BY <2>1, <2>2, <2>3, <2>5, <2>6
<1>16. CASE Raise
  <2>1. EmptyList \in [Positions -> Pointers]
    BY DEF EmptyList, Pointers
  <2>2. cur' = NULL /\ last' = NULL
    BY <1>16, FreeToForgets DEF Raise
  <2>a. single_step' \in [Depths -> BOOLEAN]
    BY <1>16, Zenon DEF Raise
  <2>b. polled' \in [Depths -> Pointers] /\ depth' \in Depths
    BY <1>16, BoundsAssumption DEF Raise, Pointers, Depths
  <2>c. flash_mode' \in BOOLEAN
    BY <1>16 DEF Raise, TypeOK
  <2>d. /\ list' \in [Positions -> Pointers]
        /\ owner' \in [Targets -> {"none", LoopCtl, AttachCtl}]
        /\ cur' \in Pointers /\ last' \in Pointers
    BY <1>16, <2>1, <2>2, FreeToType DEF Raise
  <2>3. TypeOK'
    BY <1>16, <2>a, <2>b, <2>c, <2>d DEF Raise, TypeOK
  <2>4. Rest'
    BY <2>2 DEF NoDanglingTarget, KeptTargetsAreOwned
  <2>5. OuterPollsHaveTargets' /\ PollingHasTarget' /\ SyscallFaultOnlyWhenCut'
    BY <1>16, BoundsAssumption
       DEF Raise, OuterPollsHaveTargets, PollingHasTarget, SyscallFaultOnlyWhenCut, Depths
  <2> QED BY <2>3, <2>4, <2>5
<1>17. CASE UNCHANGED vars
  <2>1. TypeOK'
    BY <1>17 DEF vars, TypeOK
  <2>2. OuterPollsHaveTargets' /\ Rest'
    BY <1>0, <1>17, SameLoops DEF vars
  <2>3. PollingHasTarget' /\ SyscallFaultOnlyWhenCut'
    BY <1>17 DEF vars, PollingHasTarget, SyscallFaultOnlyWhenCut
  <2> QED BY <2>1, <2>2, <2>3
<1> QED
  BY <1>1, <1>2, <1>3, <1>4, <1>5, <1>6, <1>7, <1>8, <1>9, <1>10, <1>11, <1>12,
     <1>13, <1>14, <1>15, <1>16, <1>17 DEF Next

\* Every reachable state of the server satisfies the inductive invariant.
THEOREM ServerInvariant == AttachCtl = LoopCtl => (Spec => []IInv)
<1> SUFFICES ASSUME AttachCtl = LoopCtl PROVE Spec => []IInv
  OBVIOUS
<1>1. IInv /\ [Next]_vars => IInv'
  BY NextIInv
<1> QED BY InitIInv, <1>1, PTL DEF Spec

\* The state of gdb_main.c and of the target list keeps its types.
THEOREM ServerTypeOK == AttachCtl = LoopCtl => (Spec => []TypeOK)
<1> SUFFICES ASSUME AttachCtl = LoopCtl PROVE Spec => []TypeOK
  OBVIOUS
<1>1. IInv => TypeOK
  BY DEF IInv
<1> QED BY <1>1, ServerInvariant, PTL

(***************************************************************************)
(* With one controller, the server never keeps a pointer to a freed        *)
(* target, whatever the host sends and however deep semihosting nests.     *)
(***************************************************************************)
THEOREM ServerNeverDangles == AttachCtl = LoopCtl => (Spec => []NoDanglingTarget)
<1> SUFFICES ASSUME AttachCtl = LoopCtl PROVE Spec => []NoDanglingTarget
  OBVIOUS
<1>1. IInv => NoDanglingTarget
  BY DEF IInv
<1> QED BY <1>1, ServerInvariant, PTL

(***************************************************************************)
(* The only way to a poll of a freed or null target is a packet that drops *)
(* a target while a semihosting call is outstanding.                       *)
(***************************************************************************)
THEOREM FaultNeedsCutCall == AttachCtl = LoopCtl => (Spec => []SyscallFaultOnlyWhenCut)
<1> SUFFICES ASSUME AttachCtl = LoopCtl PROVE Spec => []SyscallFaultOnlyWhenCut
  OBVIOUS
<1>1. IInv => SyscallFaultOnlyWhenCut
  BY DEF IInv
<1> QED BY <1>1, ServerInvariant, PTL

-----------------------------------------------------------------------------
(***************************************************************************)
(* Pending single steps.  The argument needs nothing of the targets, so it *)
(* holds for either wiring of the controllers.                             *)
(***************************************************************************)
StepInv ==
    /\ depth \in Depths
    /\ single_step \in [Depths -> BOOLEAN]
    /\ bare \in BOOLEAN
    /\ ContinueRuns

\* Steps that change neither the loops' locals nor the history keep it.
LEMMA StepInvFrame ==
    ASSUME StepInv, UNCHANGED <<depth, single_step, bare>>
    PROVE  StepInv'
BY DEF StepInv, ContinueRuns

LEMMA StepInvNext ==
    ASSUME StepInv, [Next]_vars
    PROVE  StepInv'
<1> USE DEF StepInv
<1>1. ASSUME NEW packet \in {"s", "c"}, Resume(packet) PROVE StepInv'
  <2> DEFINE step == single_step[depth] \/ packet = "s"
  <2>1. step \in BOOLEAN
    OBVIOUS
  <2>2. CASE cur = NULL
    <3>1. /\ single_step' = [single_step EXCEPT ![depth] = step]
          /\ bare' = (bare \/ packet = "s")
          /\ depth' = depth
      BY <1>1, <2>2 DEF Resume
    <3>2. single_step' \in [Depths -> BOOLEAN]
      <4> HIDE DEF step
      <4> QED BY <2>1, <3>1, Zenon
    <3>3. ASSUME NEW d \in 0..depth, single_step'[d] PROVE bare'
      <4>1. CASE d = depth
        BY <3>1, <3>3, <4>1 DEF ContinueRuns
      <4>2. CASE d # depth
        BY <3>1, <3>3, <4>2 DEF ContinueRuns, Depths
      <4> QED BY <4>1, <4>2
    <3> QED BY <3>1, <3>2, <3>3 DEF ContinueRuns
  <2>3. CASE cur # NULL
    <3>1. /\ single_step' = [single_step EXCEPT ![depth] = FALSE]
          /\ bare' = (bare /\ depth > 0)
          /\ depth' = depth
      BY <1>1, <2>3 DEF Resume
    <3>2. single_step' \in [Depths -> BOOLEAN]
      BY <3>1, Zenon
    <3>3. ASSUME NEW d \in 0..depth, single_step'[d] PROVE bare'
      <4>1. d # depth
        BY <3>1, <3>3
      <4>2. depth > 0 /\ single_step[d]
        BY <3>1, <3>3, <4>1, BoundsAssumption DEF Depths
      <4> QED BY <3>1, <4>2 DEF ContinueRuns
    <3> QED BY <3>1, <3>2, <3>3 DEF ContinueRuns
  <2> QED BY <2>2, <2>3
<1>2. CASE Semihost
  <2>1. /\ single_step' = [single_step EXCEPT ![depth + 1] = FALSE]
        /\ depth' = depth + 1
        /\ bare' = bare
    BY <1>2 DEF Semihost
  <2>2. depth' \in Depths
    BY <1>2, BoundsAssumption DEF Semihost, Depths
  <2>3. single_step' \in [Depths -> BOOLEAN]
    BY <2>1, Zenon
  <2>4. ASSUME NEW d \in 0..depth', single_step'[d] PROVE d \in 0..depth /\ single_step[d]
    BY <2>1, <2>2, <2>4, BoundsAssumption DEF Depths
  <2> QED BY <2>1, <2>2, <2>3, <2>4 DEF ContinueRuns
<1>3. ASSUME NEW interrupted \in BOOLEAN, hostio_reply(interrupted) PROVE StepInv'
  BY <1>3, BoundsAssumption DEF hostio_reply, ContinueRuns, Depths
<1>4. CASE Raise
  <2>1. depth' = 0 /\ bare' = FALSE /\ depth' \in Depths
    BY <1>4, BoundsAssumption DEF Raise, Depths
  <2>2. single_step' = [d \in Depths |-> FALSE]
    BY <1>4 DEF Raise
  <2>3. single_step' \in [Depths -> BOOLEAN]
    BY <2>2, Zenon
  <2>4. \A d \in Depths : ~single_step'[d]
    BY <2>2
  <2>5. ContinueRuns'
    BY <2>1, <2>4 DEF ContinueRuns
  <2> QED BY <2>1, <2>3, <2>5
<1>5. ASSUME NEW n \in 1..MaxTargets + 1, NEW ok \in BOOLEAN, vAttach(n, ok) PROVE StepInv'
  BY <1>5, StepInvFrame DEF vAttach
<1>6. ASSUME NEW ok \in BOOLEAN,
             ResetLast(ok) \/ qXfer(ok) \/ vRun(ok) \/ vFlashErase(ok)
      PROVE  StepInv'
  BY <1>6, StepInvFrame DEF ResetLast, qXfer, vRun, vFlashErase
<1>7. CASE \/ QueryHalt \/ Detach \/ Kill \/ vFlashWriteFails \/ vFlashDone \/ Scan
           \/ PollNull \/ Halted \/ TargetLost \/ UNCHANGED vars
  BY <1>7, StepInvFrame DEF QueryHalt, Detach, Kill, vFlashWriteFails, vFlashDone,
     Scan, PollNull, Halted, TargetLost, vars
<1> QED BY <1>1, <1>2, <1>3, <1>4, <1>5, <1>6, <1>7 DEF Next

(***************************************************************************)
(* A 'c' packet steps the target only when an 's' was answered "X1D" since *)
(* the outermost loop last resumed one, for any nesting of the loops and   *)
(* for both wirings of the controllers.                                    *)
(***************************************************************************)
THEOREM ContinueLetsRun == Spec => []ContinueRuns
<1>1. Init => StepInv
  <2> SUFFICES ASSUME Init PROVE StepInv
    OBVIOUS
  <2>1. single_step \in [Depths -> BOOLEAN] /\ \A d \in Depths : ~single_step[d]
    BY Zenon DEF Init
  <2>2. depth = 0 /\ depth \in Depths
    BY BoundsAssumption DEF Init, Depths
  <2>3. bare \in BOOLEAN
    BY DEF Init
  <2>4. ContinueRuns
    BY <2>1, <2>2 DEF ContinueRuns
  <2> QED BY <2>1, <2>2, <2>3, <2>4 DEF StepInv
<1>2. StepInv /\ [Next]_vars => StepInv'
  BY StepInvNext
<1>3. StepInv => ContinueRuns
  BY DEF StepInv
<1> QED BY <1>1, <1>2, <1>3, PTL DEF Spec

=============================================================================
