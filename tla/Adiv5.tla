------------------------------- MODULE Adiv5 --------------------------------
(***************************************************************************)
(* Scanning for targets: "monitor swdp_scan" and "monitor jtag_scan", and  *)
(* who owns the debug ports (DP) and access ports (AP) that a scan         *)
(* allocates from the pools of MemManager.                                 *)
(*                                                                         *)
(* A DP counts the APs that exist on it, plus one while adiv5_dp_init      *)
(* works on it.  An AP counts the targets that were probed on it, plus one *)
(* while adiv5_dp_init works on it.  Whoever takes a count to 0 frees the  *)
(* object.  A target gives its AP back when target_list_free destroys it.  *)
(*                                                                         *)
(* An access to the target may raise an exception (invalid ACK, parity     *)
(* error), which leaves the scan by longjmp for the TRY_CATCH of the       *)
(* monitor command, and any allocation may fail.  What an access reads is  *)
(* chosen freely; the scan's decisions on it are all kept.  The list is    *)
(* also freed without a scan: by hard_srst, by the GDB loop after an       *)
(* exception, and when a running target is lost.                           *)
(***************************************************************************)
EXTENDS Integers, FiniteSets

CONSTANTS
    DPs, APs, Targets,  \* the ADIv5_DP_t, ADIv5_AP_t and target blocks
    None,               \* NULL
    Devices,            \* DPs on the bus: 16 on a multidrop bus
    ApSels,             \* AP numbers a DP has: 256
    VoidAps,            \* void APs after which the loop gives up: 8
    MaxLosses           \* bound on the failures that lose a reference

\* How a target holds its AP.  "owner": priv_free gives the reference back.
\* "cortexa": priv_free is free(), the reference stays.  "bare": priv is NULL
\* because it could not be allocated after the AP was referenced.
Kinds == {"owner", "cortexa", "bare"}
Target == [ap : APs, kind : Kinds]

ASSUME ScanAssumption ==
    /\ Devices \in Nat \ {0} /\ ApSels \in Nat \ {0} /\ VoidAps \in Nat \ {0}
    /\ MaxLosses \in Nat
    /\ IsFiniteSet(DPs) /\ IsFiniteSet(APs) /\ IsFiniteSet(Targets)
    /\ None \notin DPs \cup APs \cup Targets \cup Target

VARIABLES
    pc,      \* where the scan is; "crashed" after undefined behaviour
    scan,    \* "swd", "multidrop" or "jtag"; "none" if only the list is freed
    next,    \* index of the next DP or JTAG device
    fault,   \* initial_dp->fault
    dp, ap,  \* adiv5_dp_init's dp and ap
    apsel,   \* adiv5_dp_init's i
    voids,   \* adiv5_dp_init's void_aps
    heap,    \* the DPs and APs that are allocated, with their fields
    list,    \* tc->target_list
    losses   \* history: failures that lost a reference

scanVars == <<scan, next, fault>>
initVars == <<dp, ap, apsel, voids>>
vars == <<pc, scanVars, initVars, heap, list, losses>>

Listed == {t \in Targets : list[t] # None}

(***************************************************************************)
(* The reference counts.  bad records the use of a block that is not       *)
(* allocated.                                                              *)
(***************************************************************************)
Bad(h) == [h EXCEPT !.bad = TRUE]

FreeDp(h, d) == IF d \in h.dps THEN [h EXCEPT !.dps = @ \ {d}] ELSE Bad(h)

DpRef(h, d) == IF d \in h.dps THEN [h EXCEPT !.dpref[d] = @ + 1] ELSE Bad(h)

adiv5_dp_unref(h, d) ==
    IF d \notin h.dps THEN Bad(h)
    ELSE LET less == [h EXCEPT !.dpref[d] = @ - 1]
         IN IF less.dpref[d] = 0 THEN FreeDp(less, d) ELSE less

ApRefKeepsDp(h, a) ==
    IF a \notin h.aps THEN Bad(h) ELSE [h EXCEPT !.apref[a] = @ + 1]

adiv5_ap_ref(h, a) ==
    IF a \notin h.aps THEN Bad(h)
    ELSE [(IF h.apref[a] = 0 THEN DpRef(h, h.apdp[a]) ELSE h)
             EXCEPT !.apref[a] = @ + 1]

adiv5_ap_unref(h, a) ==
    IF a \notin h.aps THEN Bad(h)
    ELSE LET less == [h EXCEPT !.apref[a] = @ - 1]
         IN IF less.apref[a] = 0
            THEN [adiv5_dp_unref(less, h.apdp[a]) EXCEPT !.aps = @ \ {a}]
            ELSE less

\* MemManager_Alloc clears the block.
AllocDp(d) == [heap EXCEPT !.dps = @ \cup {d}, !.dpref[d] = 0]
AllocAp(a) == [heap EXCEPT !.aps = @ \cup {a}, !.apref[a] = 0, !.apdp[a] = dp]

Init ==
    /\ pc = "idle" /\ scan = "none" /\ next = 0 /\ fault = FALSE
    /\ dp = None /\ ap = None /\ apsel = 0 /\ voids = 0
    /\ heap = [dps |-> {}, aps |-> {}, dpref |-> [d \in DPs |-> 0],
               apref |-> [a \in APs |-> 0], apdp |-> [a \in APs |-> None],
               bad |-> FALSE]
    /\ list = [t \in Targets |-> None]
    /\ losses = 0

(***************************************************************************)
(* A monitor command starts, and target_list_free runs first.              *)
(***************************************************************************)
StartScan ==
    /\ pc = "idle"
    /\ pc' = "free"
    /\ scan' \in {"swd", "multidrop", "jtag", "none"}
    /\ next' = 0 /\ fault' = FALSE
    /\ UNCHANGED <<initVars, heap, list, losses>>

\* One target of target_list_free.  free() of a block of MemManager is
\* undefined: the C library may stop the probe or go on.
target_list_free(t) ==
    /\ pc = "free" /\ t \in Listed
    /\ list' = [list EXCEPT ![t] = None]
    /\ heap' = IF list[t].kind = "owner" THEN adiv5_ap_unref(heap, list[t].ap)
                                         ELSE heap
    /\ \/ pc' = pc
       \/ list[t].kind = "cortexa" /\ pc' = "crashed"
    /\ UNCHANGED <<scanVars, initVars, losses>>

\* The list is empty.  The interface is set up and the first ID is read; when
\* no usable DP or no sound JTAG chain is there, the scan is over.
ListFreed ==
    /\ pc = "free" /\ Listed = {}
    /\ \/ pc' = "idle"
       \/ scan # "none" /\ pc' = "select"
    /\ UNCHANGED <<scanVars, initVars, heap, list, losses>>

Count == IF scan = "swd" THEN 1 ELSE Devices

\* The DP that was selected does not answer (the exception is caught), or
\* answers with a fault or a parity error.
DpSilent ==
    /\ pc = "select" /\ scan = "multidrop" /\ next < Count
    /\ fault' \in {fault, TRUE}
    /\ next' = next + 1
    /\ UNCHANGED <<pc, scan, initVars, heap, list, losses>>

\* The DP answers, but initial_dp->fault is still set from an earlier one; or
\* no DP can be allocated; or the JTAG device has no handler.
DpSkipped ==
    /\ pc = "select" /\ next < Count
    /\ next' = next + 1
    /\ UNCHANGED <<pc, scan, fault, initVars, heap, list, losses>>

DpFound(d) ==
    /\ pc = "select" /\ next < Count
    /\ scan = "multidrop" => ~fault
    /\ d \notin heap.dps
    /\ dp' = d
    /\ heap' = AllocDp(d)
    /\ pc' = "init"
    /\ UNCHANGED <<scanVars, ap, apsel, voids, list, losses>>

ScanDone ==
    /\ pc = "select" /\ next = Count
    /\ pc' = "idle"
    /\ UNCHANGED <<scanVars, initVars, heap, list, losses>>

(***************************************************************************)
(* adiv5_dp_init, from the check of the ID code to the loop over the APs.  *)
(***************************************************************************)
\* Leaving adiv5_dp_init for the next device of the scan.
DpLeft ==
    /\ dp' = None /\ ap' = None /\ pc' = "select" /\ next' = next + 1
    /\ UNCHANGED <<scan, fault, apsel, voids>>

Lost == losses < MaxLosses /\ losses' = losses + 1

\* An invalid ID code, or a power-up that is not acknowledged in time.
DpUseless ==
    /\ pc = "init"
    /\ heap' = FreeDp(heap, dp)
    /\ DpLeft
    /\ UNCHANGED <<list, losses>>

\* The rescue DP of the RP2040 has no AP: one is made up for its target.
rp_rescue_probe(a, t) ==
    /\ pc = "init" /\ a \notin heap.aps /\ t \notin Listed
    /\ heap' = adiv5_ap_ref(AllocAp(a), a)
    /\ list' = [list EXCEPT ![t] = [ap |-> a, kind |-> "owner"]]
    /\ DpLeft
    /\ UNCHANGED losses

\* The AP, or the target on it, could not be allocated: nobody frees the rest.
RescueFails ==
    /\ pc = "init"
    /\ \/ heap' = heap
       \/ \E a \in APs \ heap.aps : heap' = AllocAp(a)
    /\ DpLeft /\ Lost
    /\ UNCHANGED list

DpPowered ==
    /\ pc = "init"
    /\ heap' = DpRef(heap, dp)
    /\ apsel' = 0 /\ voids' = 0
    /\ pc' = "aps"
    /\ UNCHANGED <<scanVars, dp, ap, list, losses>>

LoopRuns == apsel < ApSels /\ voids < VoidAps

\* adiv5_new_ap returns NULL: no AP, no base, a transaction in progress, or
\* no memory.  A void first AP ends the search on this DP.
VoidAp ==
    /\ pc = "aps" /\ LoopRuns
    /\ IF apsel = 0
       THEN /\ heap' = adiv5_dp_unref(heap, dp)
            /\ DpLeft
       ELSE /\ voids' = voids + 1 /\ apsel' = apsel + 1
            /\ UNCHANGED <<pc, scanVars, dp, ap, heap>>
    /\ UNCHANGED <<list, losses>>

adiv5_new_ap(a) == adiv5_ap_ref(AllocAp(a), a)

ApFound(a) ==
    /\ pc = "aps" /\ LoopRuns /\ a \notin heap.aps
    /\ ap' = a
    /\ heap' = adiv5_new_ap(a)
    /\ pc' = "probe"
    /\ UNCHANGED <<scanVars, dp, apsel, voids, list, losses>>

ReleaseBothOnlyAp(h, a, d) == adiv5_ap_unref(h, a)
ReleaseBoth(h, a, d) == adiv5_dp_unref(adiv5_ap_unref(h, a), d)

\* An AP with the base of the one before it ends the search on this DP.
DuplicateAp(a) ==
    /\ pc = "aps" /\ LoopRuns /\ a \notin heap.aps
    /\ heap' = ReleaseBoth(adiv5_new_ap(a), a, dp)
    /\ DpLeft
    /\ UNCHANGED <<list, losses>>

(***************************************************************************)
(* The probes on one AP: kinetis_mdm_probe, nrf51_mdm_probe and            *)
(* efm32_aap_probe, and cortexm_probe and cortexa_probe for each component *)
(* of the ROM table that is a core.  A target that cannot be allocated     *)
(* changes nothing, except under efm32_aap_probe, which does not look.     *)
(***************************************************************************)
Probed(t, kind) ==
    /\ pc = "probe" /\ t \notin Listed
    /\ heap' = adiv5_ap_ref(heap, ap)
    /\ list' = [list EXCEPT ![t] = [ap |-> ap, kind |-> kind]]
    /\ UNCHANGED <<pc, scanVars, initVars>>

cortexm_probe(t) == Probed(t, "owner") /\ UNCHANGED losses

PrivFails(t) == Probed(t, "bare") /\ Lost

cortexa_probe(t) == Probed(t, "cortexa") /\ Lost

\* A NULL target or a NULL driver string is written to.
efm32_aap_probe_fails ==
    /\ pc = "probe"
    /\ pc' = "crashed"
    /\ UNCHANGED <<scanVars, initVars, heap, list, losses>>

NextApSelStays == UNCHANGED apsel
NextApSel == apsel' = apsel + 1

ProbesDone ==
    /\ pc = "probe"
    /\ heap' = adiv5_ap_unref(heap, ap)
    /\ ap' = None
    /\ NextApSel
    /\ pc' = "aps"
    /\ UNCHANGED <<scanVars, dp, voids, list, losses>>

\* The loop over the APs is over.  Every target of the list is resumed, the
\* ones of other DPs too, through its AP; then the DP is given back.
Touch(h) ==
    IF \A t \in Listed :
          list[t].kind # "bare" => /\ list[t].ap \in h.aps
                                   /\ h.apdp[list[t].ap] \in h.dps
    THEN h ELSE Bad(h)

DpDone ==
    /\ pc = "aps" /\ ~LoopRuns
    /\ heap' = adiv5_dp_unref(Touch(heap), dp)
    /\ DpLeft
    /\ UNCHANGED <<list, losses>>

\* An exception leaves adiv5_dp_init and the scan for the monitor command.
\* dp, and ap if there is one, keep the reference that adiv5_dp_init held.
Raised ==
    /\ pc \in {"init", "aps", "probe"}
    /\ dp' = None /\ ap' = None
    /\ pc' = "idle"
    /\ Lost
    /\ UNCHANGED <<scanVars, apsel, voids, heap, list>>

Step ==
    \/ \E t \in Targets : target_list_free(t)
    \/ ListFreed \/ DpSilent \/ DpSkipped \/ ScanDone
    \/ \E d \in DPs : DpFound(d)
    \/ DpUseless \/ RescueFails \/ DpPowered
    \/ \E a \in APs, t \in Targets : rp_rescue_probe(a, t)
    \/ VoidAp
    \/ \E a \in APs : ApFound(a) \/ DuplicateAp(a)
    \/ \E t \in Targets : cortexm_probe(t) \/ PrivFails(t) \/ cortexa_probe(t)
    \/ efm32_aap_probe_fails \/ ProbesDone \/ DpDone \/ Raised

Next == StartScan \/ Step

Spec == Init /\ [][Next]_vars

\* The GDB thread keeps running while it scans.
FairSpec == Spec /\ WF_vars(Step)

-----------------------------------------------------------------------------

\* Every variable of the scan keeps its type; the loop over the APs stays
\* within the AP numbers that ADIv5 has.
TypeOK ==
    /\ pc \in {"idle", "free", "select", "init", "aps", "probe", "crashed"}
    /\ scan \in {"swd", "multidrop", "jtag", "none"}
    /\ next \in 0..Devices /\ fault \in BOOLEAN
    /\ dp \in DPs \cup {None} /\ ap \in APs \cup {None}
    /\ apsel \in 0..ApSels /\ voids \in 0..VoidAps
    /\ heap \in [dps : SUBSET DPs, aps : SUBSET APs, dpref : [DPs -> Nat],
                 apref : [APs -> Nat], apdp : [APs -> DPs \cup {None}],
                 bad : BOOLEAN]
    /\ list \in [Targets -> Target \cup {None}]
    /\ losses \in 0..MaxLosses

\* No count is changed and no target resumed through a block that was freed:
\* every target of the list has an allocated AP, every AP an allocated DP.
NoUseAfterFree ==
    /\ ~heap.bad
    /\ \A t \in Listed : list[t].kind # "bare" => list[t].ap \in heap.aps
    /\ \A a \in heap.aps : heap.apdp[a] \in heap.dps
    /\ dp # None => dp \in heap.dps
    /\ ap # None => ap \in heap.aps

\* An AP is reachable when the scan or a target that will give it back holds
\* it, a DP when the scan or a reachable AP does.
ReachableAps ==
    {a \in heap.aps :
        a = ap \/ \E t \in Listed : list[t] = [ap |-> a, kind |-> "owner"]}
ReachableDps ==
    {d \in heap.dps : d = dp \/ \E a \in ReachableAps : heap.apdp[a] = d}

\* Blocks that nothing will free are left only by the failures that lose a
\* reference, and each of those leaves at most one DP and one AP.
LeaksAreBounded ==
    /\ Cardinality(heap.dps \ ReachableDps) <= losses
    /\ Cardinality(heap.aps \ ReachableAps) <= losses

\* A scan that starts comes back to the GDB loop, unless the probe crashed.
ScanEnds == [](pc # "idle" => <>(pc \in {"idle", "crashed"}))
=============================================================================
