----------------------------- MODULE Breakwatch -----------------------------
(***************************************************************************)
(* Hardware breakpoints and watchpoints of one Cortex-M target: the list   *)
(* t->bw_list kept by target.c, the slot tables hw_breakpoint[] and        *)
(* hw_watchpoint[] kept by cortexm.c, and the comparators of the silicon   *)
(* (the FPB and DWT units), which three different functions write.         *)
(*                                                                         *)
(* The two kinds are handled by the same code shape, so the tables are     *)
(* indexed by the unit: "fpb" for breakpoints, "dwt" for watchpoints.      *)
(***************************************************************************)
EXTENDS Integers, Sequences, SequencesExt

CONSTANTS
    Comps,        \* comparators in the silicon, unit -> number
    MaxSlots,     \* CORTEXM_MAX_BREAKPOINTS, CORTEXM_MAX_WATCHPOINTS
    FpbRevision,  \* flash_patch_revision
    CodeSpace,    \* addresses below this fit a revision 0 comparator
    Requests,     \* the (type, address, length) triples GDB asks for
    ListBound,    \* bound on the length of bw_list
    NONE          \* a disabled comparator

Units == {"fpb", "dwt"}

HardTypes == {"BREAK_HARD"}
WatchTypes == {"WATCH_WRITE", "WATCH_READ", "WATCH_ACCESS"}
OtherTypes == {"BREAK_SOFT"}

ASSUME UnitsAssumption ==
    /\ Comps \in [Units -> Nat]
    /\ MaxSlots \in [Units -> Nat]
    \* "no implementation has > 4": the cap on watchpoints is a real one
    /\ Comps["dwt"] <= MaxSlots["dwt"]

ASSUME RequestsAssumption ==
    /\ Requests \subseteq [type : HardTypes \cup WatchTypes \cup OtherTypes,
                           addr : Nat, size : Nat]
    /\ CodeSpace \in Nat \ {0} /\ FpbRevision \in Nat /\ ListBound \in Nat

Slots(u) == 0 .. MaxSlots[u] - 1

VARIABLES
    attached,  \* the target is tc->cur_target
    bw_list,   \* t->bw_list, newest first
    max,       \* hw_breakpoint_max, hw_watchpoint_max
    used,      \* hw_breakpoint[], hw_watchpoint[]
    comp,      \* FPB_COMP(i) and DWT_FUNC(i)/DWT_MASK(i): NONE when disabled
    watched,   \* DWT_COMP(i)
    matched,   \* the slots whose DWT_FUNC has MATCHED latched
    report,    \* watch address of the stop reply just sent, or NONE
    granted,   \* requests answered OK in this session and not cleared
    lost,      \* <<unit, slot>> pairs taken by a set that then failed
    stray      \* <<unit, slot>> pairs a z for something not granted freed

vars == <<attached, bw_list, max, used, comp, watched, matched, report,
          granted, lost, stray>>

UnitOf(type) == IF type \in HardTypes THEN "fpb" ELSE "dwt"

(***************************************************************************)
(* What a comparator is loaded with.  A revision 0 flash patch comparator  *)
(* holds only the address bits of the code region (0x1FFFFFFC plus the     *)
(* halfword selection): a breakpoint above it aliases into it.             *)
(***************************************************************************)
Encoded(k) ==
    IF k.type \in HardTypes
    THEN <<"hard", IF FpbRevision = 0 THEN k.addr % CodeSpace ELSE k.addr, 0>>
    ELSE <<k.type, k.addr, k.size>>

\* Writes to a comparator the silicon does not have are ignored.
Implemented(u, i) == i < Comps[u]

Load(table, u, i, v) ==
    IF Implemented(u, i) THEN [table EXCEPT ![u][i] = v] ELSE table

(***************************************************************************)
(* cortexm_attach sizes the two units and disables every slot below the    *)
(* size.  t->bw_list is left as it is.                                     *)
(***************************************************************************)
SizedUnits ==
    [u \in Units |->
        IF u = "fpb"
        THEN IF Comps[u] < MaxSlots[u] THEN Comps[u] ELSE MaxSlots[u]
        ELSE IF Comps[u] > MaxSlots[u] THEN Comps[u] ELSE MaxSlots[u]]

ClearedBelow(table, bound, v) ==
    [u \in Units |-> [i \in Slots(u) |-> IF i < bound[u] THEN v ELSE table[u][i]]]

Init ==
    /\ attached = FALSE
    /\ bw_list = <<>>
    /\ max = [u \in Units |-> 0]
    /\ used = [u \in Units |-> [i \in Slots(u) |-> FALSE]]
    /\ comp = [u \in Units |-> [i \in Slots(u) |-> NONE]]
    /\ watched = [i \in Slots("dwt") |-> 0]
    /\ matched = {}
    /\ report = NONE
    /\ granted = {}
    /\ lost = {}
    /\ stray = {}

\* Mutant: attach leaves the slot tables of the previous session.
AttachKeepsSlots(ok) ==
    /\ max' = SizedUnits
    /\ comp' = ClearedBelow(comp, SizedUnits, NONE)
    /\ attached' = ok
    /\ granted' = {} /\ lost' = {} /\ stray' = {} /\ report' = NONE
    /\ UNCHANGED <<bw_list, used, watched, matched>>

\* Mutant: attach leaves the comparators of the previous session.
AttachKeepsComparators(ok) ==
    /\ max' = SizedUnits
    /\ used' = ClearedBelow(used, SizedUnits, FALSE)
    /\ attached' = ok
    /\ granted' = {} /\ lost' = {} /\ stray' = {} /\ report' = NONE
    /\ UNCHANGED <<bw_list, comp, watched, matched>>

\* target_attach; it fails when the target stays in reset for a second.
Attach(ok) ==
    /\ max' = SizedUnits
    /\ used' = ClearedBelow(used, SizedUnits, FALSE)
    /\ comp' = ClearedBelow(comp, SizedUnits, NONE)
    /\ attached' = ok
    /\ granted' = {} /\ lost' = {} /\ stray' = {} /\ report' = NONE
    /\ UNCHANGED <<bw_list, watched, matched>>

\* cortexm_detach disables the comparators and touches no table.
Detach ==
    /\ attached
    /\ comp' = ClearedBelow(comp, max, NONE)
    /\ attached' = FALSE
    /\ granted' = {} /\ lost' = {} /\ stray' = {} /\ report' = NONE
    /\ UNCHANGED <<bw_list, max, used, watched, matched>>

(***************************************************************************)
(* A new scan: target_list_free frees the list and the tables, the probe   *)
(* allocates zeroed ones, and nothing is written to the target.            *)
(***************************************************************************)
Rescan ==
    /\ attached' = FALSE
    /\ bw_list' = <<>>
    /\ max' = [u \in Units |-> 0]
    /\ used' = [u \in Units |-> [i \in Slots(u) |-> FALSE]]
    /\ granted' = {} /\ lost' = {} /\ stray' = {} /\ report' = NONE
    /\ UNCHANGED <<comp, watched, matched>>

\* Mutant: the search does not skip the slots in use.
FreeSlotsIgnoresUse(u) == {i \in Slots(u) : i < max[u]}

(***************************************************************************)
(* Z packet: cortexm_breakwatch_set takes the first unused slot and loads  *)
(* its comparator; target_breakwatch_set then copies the request to the    *)
(* heap.  When that allocation fails the call returns 1 and the slot stays *)
(* taken and loaded.  GDB asks only for what it has not been granted.      *)
(***************************************************************************)
FreeSlots(u) == {i \in Slots(u) : i < max[u] /\ ~used[u][i]}

FirstOf(S) == CHOOSE i \in S : \A j \in S : i <= j

target_breakwatch_set(k, allocOk) ==
    LET u == UnitOf(k.type)
        i == FirstOf(FreeSlots(u))
    IN
    /\ attached
    /\ k.type \notin OtherTypes
    /\ FreeSlots(u) # {}
    /\ Len(bw_list) < ListBound
    /\ k \notin granted
    /\ used' = [used EXCEPT ![u][i] = TRUE]
    /\ comp' = Load(comp, u, i, Encoded(k))
    /\ watched' = IF u = "dwt" /\ Implemented(u, i)
                  THEN [watched EXCEPT ![i] = k.addr] ELSE watched
    /\ IF allocOk
       THEN /\ bw_list' = <<[req |-> k, slot |-> i]>> \o bw_list
            /\ granted' = granted \cup {k}
            /\ lost' = lost
       ELSE /\ lost' = lost \cup {<<u, i>>}
            /\ UNCHANGED <<bw_list, granted>>
    /\ report' = NONE
    /\ UNCHANGED <<attached, max, matched, stray>>

\* No slot (E01) or a type the driver does not know (empty reply).
SetRefused(k) ==
    /\ attached
    /\ k.type \in OtherTypes \/ FreeSlots(UnitOf(k.type)) = {}
    /\ report' = NONE
    /\ UNCHANGED <<attached, bw_list, max, used, comp, watched, matched,
                   granted, lost, stray>>

(***************************************************************************)
(* z packet: target_breakwatch_clear finds the newest entry with the same  *)
(* type, address and length and disables the comparator of its slot.  A z  *)
(* may come for an entry that an earlier session left in the list.         *)
(***************************************************************************)
Matches(k) == {n \in DOMAIN bw_list : bw_list[n].req = k}

EntryFor(k) == FirstOf(Matches(k))

target_breakwatch_clear(k) ==
    LET n == EntryFor(k)
        u == UnitOf(k.type)
        i == bw_list[n].slot
    IN
    /\ attached
    /\ Matches(k) # {}
    /\ used' = [used EXCEPT ![u][i] = FALSE]
    /\ comp' = Load(comp, u, i, NONE)
    /\ bw_list' = RemoveAt(bw_list, n)
    /\ granted' = granted \ {k}
    /\ lost' = lost \ {<<u, i>>}
    /\ stray' = IF k \in granted THEN stray ELSE stray \cup {<<u, i>>}
    /\ report' = NONE
    /\ UNCHANGED <<attached, max, watched, matched>>

(***************************************************************************)
(* The target stops on the watchpoints of slots S.  MATCHED is latched by  *)
(* the silicon and cleared by a read of DWT_FUNC; cortexm_check_watch      *)
(* reads the registers of the used slots until one has it set, and returns *)
(* address 0 when none has.                                                *)
(***************************************************************************)
\* Mutant: the table is not consulted, only the latched bit.
CheckWatchIgnoresTable(M) == {i \in M : i < max["dwt"]}

CheckWatchSlots(M) == {i \in M : i < max["dwt"] /\ used["dwt"][i]}

WatchHit(S) ==
    LET M == matched \cup S
        hit == CheckWatchSlots(M)
    IN
    /\ attached
    /\ S # {} /\ \A i \in S : comp["dwt"][i] # NONE
    /\ matched' = M \ {i \in hit : \A j \in hit : i <= j}
    /\ report' = IF hit = {} THEN 0 ELSE watched[FirstOf(hit)]
    /\ UNCHANGED <<attached, bw_list, max, used, comp, watched, granted, lost,
                   stray>>

Next ==
    \/ \E ok \in BOOLEAN : Attach(ok)
    \/ Detach
    \/ Rescan
    \/ \E k \in Requests, allocOk \in BOOLEAN : target_breakwatch_set(k, allocOk)
    \/ \E k \in Requests : SetRefused(k)
    \/ \E k \in Requests : target_breakwatch_clear(k)
    \/ \E S \in SUBSET Slots("dwt") : WatchHit(S)

Spec == Init /\ [][Next]_vars

-----------------------------------------------------------------------------
(***************************************************************************)
(* Every variable has its type.                                            *)
(***************************************************************************)
TypeOK ==
    /\ attached \in BOOLEAN
    /\ \A n \in DOMAIN bw_list :
          /\ bw_list[n].req \in Requests
          /\ bw_list[n].slot \in Slots(UnitOf(bw_list[n].req.type))
    /\ Len(bw_list) <= ListBound
    /\ \A u \in Units : max[u] \in 0..MaxSlots[u]
    /\ \A u \in Units : used[u] \in [Slots(u) -> BOOLEAN]
    /\ \A u \in Units : \A i \in Slots(u) :
          comp[u][i] \in {NONE} \cup {Encoded(k) : k \in Requests}
    /\ matched \subseteq Slots("dwt")
    /\ granted \subseteq Requests
    /\ \A p \in lost \cup stray : p[1] \in Units /\ p[2] \in Slots(p[1])

Slot(k) == <<UnitOf(k.type), bw_list[FirstOf(Matches(k))].slot>>

Armed(k) ==
    \E i \in Slots(UnitOf(k.type)) : comp[UnitOf(k.type)][i] = Encoded(k)

\* cortexm_attach counts slots for which the silicon has no comparator.
OnMissing(k) == ~Implemented(Slot(k)[1], Slot(k)[2])

(***************************************************************************)
(* While GDB is attached, every breakpoint and watchpoint it was told OK   *)
(* about and did not clear is loaded in a comparator, whatever sessions,   *)
(* detaches, scans and failed allocations came before.  Two exceptions:    *)
(* a slot the silicon does not have, which cortexm_attach grants because   *)
(* its comparison for the DWT keeps the larger number, and a slot that a z *)
(* packet for an entry of an earlier session freed.                        *)
(***************************************************************************)
GrantedIsArmed ==
    attached =>
        \A k \in granted : Armed(k) \/ OnMissing(k) \/ Slot(k) \in stray

(***************************************************************************)
(* While GDB is attached, the target stops on nothing GDB did not ask for: *)
(* an enabled comparator belongs to a granted request, unless its slot was *)
(* taken by a set whose heap copy could not be allocated.                  *)
(***************************************************************************)
ArmedIsGranted ==
    attached =>
        \A u \in Units : \A i \in Slots(u) :
            comp[u][i] = NONE \/ <<u, i>> \in lost
                \/ \E k \in granted : UnitOf(k.type) = u /\ comp[u][i] = Encoded(k)

(***************************************************************************)
(* Slots are not leaked across sessions: while GDB is attached, a taken    *)
(* slot is one of a listed entry of this session or one lost to a failed   *)
(* allocation, so that a session starts with every comparator available.   *)
(***************************************************************************)
TakenIsGranted ==
    attached =>
        \A u \in Units : \A i \in Slots(u) :
            used[u][i] => <<u, i>> \in lost
                          \/ \E n \in DOMAIN bw_list :
                                /\ bw_list[n].slot = i
                                /\ UnitOf(bw_list[n].req.type) = u
                                /\ bw_list[n].req \in granted

(***************************************************************************)
(* The address in a watchpoint stop reply is one GDB watches, although     *)
(* MATCHED stays latched in slots that were cleared since they matched.    *)
(***************************************************************************)
WatchReportIsLive ==
    report # NONE =>
        \/ \E k \in granted : k.type \in WatchTypes /\ k.addr = report
        \/ \E p \in lost : p[1] = "dwt" /\ watched[p[2]] = report
=============================================================================
