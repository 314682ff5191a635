------------------------------ MODULE GdbServer ------------------------------
(***************************************************************************)
(* The GDB remote protocol loop (gdb_main.c), the list of targets it works *)
(* on (target.c) and the exception handler around it (main.c): which       *)
(* target the server is attached to, when target structures are freed, and *)
(* who still holds a pointer to one.                                       *)
(*                                                                         *)
(* A packet is handled in one step: the GDB task is the only one that      *)
(* touches this state, and gdb_if only supplies it with bytes.  What makes *)
(* it hard is that gdb_main_loop is reentrant.  A target that halts on a   *)
(* semihosting breakpoint makes cortexm_halt_poll call gdb_main_loop again *)
(* to wait for the host's F packet, and every packet is accepted in that   *)
(* inner loop too: the target the outer call is polling may be detached,   *)
(* replaced or freed before the outer call resumes.                        *)
(*                                                                         *)
(* The contents of packets and replies are left out, and so are the        *)
(* packets that only read or write registers and memory of the current     *)
(* target: all they can do to this state is raise an exception.            *)
(***************************************************************************)
EXTENDS Naturals, FiniteSets

CONSTANTS
    Targets,     \* addresses of target structures
    NULL,        \* the null pointer
    MaxTargets,  \* most targets one scan finds
    MaxDepth,    \* deepest nesting of gdb_main_loop that is explored
    LoopCtl,     \* the controller gdb_main_loop is called with
    AttachCtl    \* &gdb_controller in gdb_main.c, passed to target_attach

ASSUME NullAssumption == NULL \notin Targets

ASSUME BoundsAssumption == MaxTargets \in Nat /\ MaxDepth \in Nat

\* "none" stands for t->tc == NULL.
ASSUME ControllerAssumption == LoopCtl # "none" /\ AttachCtl # "none"

Pointers == Targets \union {NULL}

Depths == 0..MaxDepth

\* What the task ran into: nothing yet, or undefined behaviour.
Faults == {"none", "reset_null", "flash_done_null", "poll_null", "freed"}

VARIABLES
    list,        \* LoopCtl->target_list: position -> target, NULL after the last
    owner,       \* t->tc
    cur,         \* tc->cur_target
    last,        \* tc->last_target
    flash_mode,  \* tc->flash_mode
    depth,       \* how many gdb_main_loop calls are below the running one
    single_step, \* the local of each gdb_main_loop call
    polled,      \* polled[d]: the t of the halt poll that call d waits in
    pc,          \* "packet": in gdb_getpacket, "poll": in the '?' wait loop
    fault,       \* undefined behaviour met
    missed,      \* history: a vAttach that could succeed made another pointer current
    bare,        \* history: an 's' found no target, and nothing was resumed since
    cut          \* history: a target was dropped during a semihosting call

controller == <<list, owner, cur, last>>
loops == <<depth, single_step, polled, pc>>
history == <<missed, bare, cut>>
vars == <<controller, flash_mode, loops, fault, history>>

Positions == 1..MaxTargets

\* The targets that exist: the list is the only place they are kept in.
Live == {list[n] : n \in Positions} \ {NULL}

Init ==
    /\ list = [n \in Positions |-> NULL]
    /\ owner = [t \in Targets |-> "none"]
    /\ cur = NULL /\ last = NULL
    /\ flash_mode = FALSE
    /\ depth = 0
    /\ single_step = [d \in Depths |-> FALSE]
    /\ polled = [d \in Depths |-> NULL]
    /\ pc = "packet"
    /\ fault = "none"
    /\ missed = FALSE
    /\ bare = FALSE
    /\ cut = FALSE

Serving == fault = "none" /\ pc = "packet"

-----------------------------------------------------------------------------
(***************************************************************************)
(* target.c                                                                *)
(***************************************************************************)

\* gdb_target_destroy_callback on t->tc, as it affects a pointer p of LoopCtl.
Forget(p, t) == IF p = t /\ owner[t] = LoopCtl THEN NULL ELSE p

\* Inside a semihosting call, the target of an outer poll is being dropped.
CutIf(dropping) == cut' = (cut \/ (depth > 0 /\ dropping))

\* Mutant: the destroy callback only knows cur_target.
FreeToKeepsLast(found) ==
    /\ list' = found
    /\ owner' = [t \in Targets |-> "none"]
    /\ cur' = IF cur \in Live THEN Forget(cur, cur) ELSE cur
    /\ UNCHANGED last

(***************************************************************************)
(* target_list_free: every target of the list is announced to the          *)
(* controller it was last attached with and freed.                         *)
(***************************************************************************)
FreeTo(found) ==
    /\ list' = found
    /\ owner' = [t \in Targets |-> "none"]
    /\ cur' = IF cur \in Live THEN Forget(cur, cur) ELSE cur
    /\ last' = IF last \in Live THEN Forget(last, last) ELSE last

EmptyList == [n \in Positions |-> NULL]

\* The lists a scan can leave: distinct targets, a failing scan keeps a prefix.
ScanResults ==
    {l \in [Positions -> Pointers] :
        /\ \A m, n \in Positions : m # n /\ l[m] = l[n] => l[m] = NULL
        /\ \A m, n \in Positions : m < n /\ l[m] = NULL => l[n] = NULL}

(***************************************************************************)
(* target_attach(t, &gdb_controller), whose result every caller assigns to *)
(* tc->cur_target.  t->tc is set before the attempt and stays set if it    *)
(* fails.                                                                  *)
(***************************************************************************)
Attach(t, ok) ==
    /\ last' = Forget(last, t)
    /\ owner' = [owner EXCEPT ![t] = AttachCtl]
    /\ cur' = IF ok THEN t ELSE NULL
    /\ UNCHANGED list

(***************************************************************************)
(* The targets vAttach;n can find.  target_attach_n searches the list of   *)
(* the controller it is given: of LoopCtl only if that is the same one.    *)
(***************************************************************************)
AttachList == IF AttachCtl = LoopCtl THEN list ELSE EmptyList

-----------------------------------------------------------------------------
(***************************************************************************)
(* Packets.                                                                *)
(***************************************************************************)

\* vAttach;n.  The target attached before is neither detached nor kept as last.
vAttach(n, ok) ==
    /\ Serving
    /\ IF n \in Positions /\ AttachList[n] # NULL
       THEN Attach(AttachList[n], ok)
       ELSE cur' = NULL /\ UNCHANGED <<list, owner, last>>
    /\ missed' = (missed \/ (ok /\ n \in Positions /\ cur' # list[n]))
    /\ CutIf(cur # NULL)
    /\ UNCHANGED <<flash_mode, loops, fault, bare>>

\* Mutant: single_step is not reset after the resume.
ResumeKeepsStep(packet) ==
    /\ Serving
    /\ single_step' = [single_step EXCEPT ![depth] = @ \/ packet = "s"]
    /\ IF cur = NULL
       THEN bare' = (bare \/ packet = "s") /\ UNCHANGED pc
       ELSE bare' = (bare /\ depth > 0) /\ pc' = "poll"
    /\ UNCHANGED <<controller, flash_mode, depth, polled, fault, missed, cut>>

(***************************************************************************)
(* 's' and 'c'.  With no target, 's' has already set the local single_step *)
(* of this gdb_main_loop call when the "X1D" reply is sent.                *)
(***************************************************************************)
Resume(packet) ==
    /\ Serving
    /\ IF cur = NULL
       THEN /\ single_step' = [single_step EXCEPT ![depth] = @ \/ packet = "s"]
            /\ bare' = (bare \/ packet = "s")
            /\ UNCHANGED pc
       ELSE /\ single_step' = [single_step EXCEPT ![depth] = FALSE]
            /\ bare' = (bare /\ depth > 0)
            /\ pc' = "poll"
    /\ UNCHANGED <<controller, flash_mode, depth, polled, fault, missed, cut>>

\* '?' with a target.
QueryHalt ==
    /\ Serving
    /\ cur # NULL
    /\ pc' = "poll"
    /\ UNCHANGED <<controller, flash_mode, depth, single_step, polled, fault, history>>

\* 'D', and the EOT byte the USB task sends when the host goes away.
Detach ==
    /\ Serving
    /\ last' = cur
    /\ cur' = NULL
    /\ CutIf(cur # NULL)
    /\ UNCHANGED <<list, owner, flash_mode, loops, fault, missed, bare>>

\* 'k' resets before it detaches and, unlike 'D', keeps last when not attached.
Kill ==
    /\ Serving
    /\ cur # NULL
    /\ last' = cur
    /\ cur' = NULL
    /\ CutIf(TRUE)
    /\ UNCHANGED <<list, owner, flash_mode, loops, fault, missed, bare>>

\* 'r' and 'R' with only a last target: target_reset is called in any case.
\* With a current target they leave this state alone.
ResetLast(ok) ==
    /\ Serving
    /\ cur = NULL /\ last # NULL
    /\ Attach(last, ok)
    /\ fault' = IF ok THEN "none" ELSE "reset_null"
    /\ UNCHANGED <<flash_mode, loops, history>>

\* qXfer:memory-map and qXfer:features attach to the last target.
qXfer(ok) ==
    /\ Serving
    /\ cur = NULL /\ last # NULL
    /\ Attach(last, ok)
    /\ UNCHANGED <<flash_mode, loops, fault, history>>

\* vRun on the current target is a reset; otherwise it attaches to the last.
vRun(ok) ==
    /\ Serving
    /\ cur # NULL \/ last # NULL
    /\ IF cur # NULL THEN UNCHANGED controller ELSE Attach(last, ok)
    /\ UNCHANGED <<flash_mode, loops, fault, history>>

\* vFlashErase: the first flash command resets the target.
vFlashErase(ok) ==
    /\ Serving
    /\ cur # NULL
    /\ flash_mode' = ok
    /\ UNCHANGED <<controller, loops, fault, history>>

\* vFlashWrite only ever ends flash mode; with no target it always does.
vFlashWriteFails ==
    /\ Serving
    /\ flash_mode' = FALSE
    /\ UNCHANGED <<controller, loops, fault, history>>

\* vFlashDone passes cur_target on unchecked.
vFlashDone ==
    /\ Serving
    /\ flash_mode' = FALSE
    /\ fault' = IF cur = NULL THEN "flash_done_null" ELSE "none"
    /\ UNCHANGED <<controller, loops, history>>

(***************************************************************************)
(* qRcmd: the monitor commands that change this state.  jtag_scan and      *)
(* swdp_scan free the targets before anything else and catch exceptions    *)
(* themselves; hard_srst frees them too.                                   *)
(***************************************************************************)
Scan ==
    /\ Serving
    /\ \E found \in ScanResults : FreeTo(found)
    /\ CutIf(TRUE)
    /\ UNCHANGED <<flash_mode, loops, fault, missed, bare>>

-----------------------------------------------------------------------------
(***************************************************************************)
(* The wait for the target to halt, and semihosting.                       *)
(***************************************************************************)

Polling == fault = "none" /\ pc = "poll"

\* target_halt_poll(tc->cur_target): tc->cur_target is read again every time.
PollNull ==
    /\ Polling
    /\ cur = NULL
    /\ fault' = "poll_null"
    /\ UNCHANGED <<controller, flash_mode, loops, history>>

\* The target has halted, by itself or on the request that a ^C or EOT byte
\* between two polls makes: the stop reply is sent.
Halted ==
    /\ Polling
    /\ cur # NULL
    /\ pc' = "packet"
    /\ UNCHANGED <<controller, flash_mode, depth, single_step, polled, fault, history>>

\* EXCEPTION_ERROR in the poll: the list of t->tc is freed, "X1D" is sent.
TargetLost ==
    /\ Polling
    /\ cur # NULL
    /\ IF owner[cur] = LoopCtl THEN FreeTo(EmptyList) ELSE UNCHANGED controller
    /\ pc' = "packet"
    /\ CutIf(TRUE)
    /\ UNCHANGED <<flash_mode, depth, single_step, polled, fault, missed, bare>>

\* A semihosting breakpoint: hostio_xxx sends the request and calls gdb_main_loop.
Semihost ==
    /\ Polling
    /\ cur # NULL
    /\ depth < MaxDepth
    /\ polled' = [polled EXCEPT ![depth] = cur]
    /\ depth' = depth + 1
    /\ single_step' = [single_step EXCEPT ![depth + 1] = FALSE]
    /\ pc' = "packet"
    /\ UNCHANGED <<controller, flash_mode, fault, history>>

\* Mutant: the frame of the answered call is not left.
hostio_reply_stays(interrupted) ==
    /\ Serving
    /\ depth > 0
    /\ polled' = [polled EXCEPT ![depth - 1] = NULL]
    /\ pc' = IF interrupted THEN "packet" ELSE "poll"
    /\ fault' = IF polled[depth - 1] \in Live THEN "none" ELSE "freed"
    /\ UNCHANGED <<controller, flash_mode, depth, single_step, history>>

(***************************************************************************)
(* 'F' in an inner loop: cortexm_hostio_request writes the result to the   *)
(* registers of the target it was called for, and cortexm_halt_poll        *)
(* resumes that target unless the host asked for a break.                  *)
(***************************************************************************)
hostio_reply(interrupted) ==
    /\ Serving
    /\ depth > 0
    /\ depth' = depth - 1
    /\ polled' = [polled EXCEPT ![depth - 1] = NULL]
    /\ pc' = IF interrupted THEN "packet" ELSE "poll"
    /\ fault' = IF polled[depth - 1] \in Live THEN "none" ELSE "freed"
    /\ UNCHANGED <<controller, flash_mode, single_step, history>>

-----------------------------------------------------------------------------
(***************************************************************************)
(* raise_exception in a handler: TRY_CATCH of gdb_main_1 unwinds every     *)
(* loop, frees the targets and calls gdb_main_loop afresh.  It happens in  *)
(* packets that touch a target, and in vFlashErase after flash_mode was    *)
(* set.                                                                    *)
(***************************************************************************)
TouchesTarget == Live # {}

Raise ==
    /\ fault = "none"
    /\ TouchesTarget
    /\ FreeTo(EmptyList)
    /\ flash_mode' \in {flash_mode, flash_mode \/ (cur # NULL /\ pc = "packet")}
    /\ depth' = 0
    /\ single_step' = [d \in Depths |-> FALSE]
    /\ polled' = [d \in Depths |-> NULL]
    /\ pc' = "packet"
    /\ bare' = FALSE
    /\ cut' = FALSE
    /\ UNCHANGED <<fault, missed>>

Next ==
    \/ \E n \in 1..MaxTargets + 1, ok \in BOOLEAN : vAttach(n, ok)
    \/ \E packet \in {"s", "c"} : Resume(packet)
    \/ QueryHalt \/ Detach \/ Kill
    \/ \E ok \in BOOLEAN : ResetLast(ok) \/ qXfer(ok) \/ vRun(ok) \/ vFlashErase(ok)
    \/ vFlashWriteFails \/ vFlashDone \/ Scan
    \/ PollNull \/ Halted \/ TargetLost \/ Semihost
    \/ \E interrupted \in BOOLEAN : hostio_reply(interrupted)
    \/ Raise

Spec == Init /\ [][Next]_vars

-----------------------------------------------------------------------------
(***************************************************************************)
(* Properties.                                                             *)
(***************************************************************************)

\* The type of the server's state.
TypeOK ==
    /\ list \in [Positions -> Pointers]
    /\ owner \in [Targets -> {"none", LoopCtl, AttachCtl}]
    /\ cur \in Pointers
    /\ last \in Pointers
    /\ flash_mode \in BOOLEAN
    /\ depth \in Depths
    /\ single_step \in [Depths -> BOOLEAN]
    /\ polled \in [Depths -> Pointers]
    /\ pc \in {"packet", "poll"}
    /\ fault \in Faults
    /\ missed \in BOOLEAN
    /\ bare \in BOOLEAN
    /\ cut \in BOOLEAN

(***************************************************************************)
(* Whatever frees the list (a scan, hard_srst, a lost target, an exception *)
(* in a handler), tc->cur_target and tc->last_target never point to a      *)
(* target that no longer exists.                                           *)
(***************************************************************************)
NoDanglingTarget ==
    /\ cur \in Live \union {NULL}
    /\ last \in Live \union {NULL}

(***************************************************************************)
(* A call of gdb_main_loop resumes a halt poll on a freed target, or polls *)
(* a null one, only when a packet detached, replaced or freed a target in  *)
(* the middle of a semihosting call.  A host that answers every File-I/O   *)
(* request before it does anything to the targets never gets there.        *)
(***************************************************************************)
SyscallFaultOnlyWhenCut == fault \in {"poll_null", "freed"} => cut

\* vAttach;n attaches to the n-th target of the list the scan reported.
vAttachAttaches == ~missed

(***************************************************************************)
(* 'c' lets the target run: no gdb_main_loop call, however deep, has a     *)
(* single step pending that its next 'c' would take, unless an 's' was     *)
(* answered "X1D" for want of a target since the outermost loop last       *)
(* resumed one.                                                            *)
(***************************************************************************)
ContinueRuns == \A d \in 0..depth : single_step[d] => bare

=============================================================================
