-------------------------- MODULE BreakwatchProofs --------------------------
(***************************************************************************)
(* Proofs about hardware breakpoints and watchpoints, for any numbers of   *)
(* comparators and slots, any requests and a list of any length.           *)
(***************************************************************************)
EXTENDS Breakwatch, SequenceTheorems, WellFoundedInduction, TLAPS

CompValues == {NONE} \cup {Encoded(k) : k \in Requests}

\* What has a value for every slot of every unit.
Table(V) ==
    {f \in [Units -> UNION {[Slots(u) -> V] : u \in Units}] :
        \A u \in Units : f[u] \in [Slots(u) -> V]}

Entry == [req : Requests, slot : Nat]

(***************************************************************************)
(* target_breakwatch_clear finds the newest entry of a request.  Entries   *)
(* that an earlier session left stay in the list behind it: cortexm_attach *)
(* frees their slots and target.c keeps them.                              *)
(***************************************************************************)
Newest(list, n) == \A m \in 1..(n - 1) : list[m].req # list[n].req
Live(list, asked, n) ==
    n \in 1..Len(list) /\ list[n].req \in asked /\ Newest(list, n)

EntryUnit(e) == UnitOf(e.req.type)

\* The slot of an entry is loaded with its request, if the silicon has it.
Loaded(e) ==
    LET u == EntryUnit(e)
        i == e.slot
    IN /\ Implemented(u, i) => comp[u][i] = Encoded(e.req)
       /\ u = "dwt" /\ Implemented(u, i) => watched[i] = e.req.addr

\* The slot of an entry is taken, is not one that was lost, and is loaded.
Holds(e) ==
    LET u == EntryUnit(e)
        i == e.slot
    IN /\ i \in Slots(u) /\ i < max[u] /\ used[u][i] /\ <<u, i>> \notin lost
       /\ Loaded(e)

Strayed(e) == <<EntryUnit(e), e.slot>> \in stray

Types ==
    /\ attached \in BOOLEAN
    /\ bw_list \in Seq(Entry) /\ Len(bw_list) <= ListBound
    /\ \A n \in 1..Len(bw_list) :
          bw_list[n].slot \in Slots(EntryUnit(bw_list[n]))
    /\ used \in Table(BOOLEAN) /\ comp \in Table(CompValues)
    /\ watched \in [Slots("dwt") -> Nat]
    /\ matched \subseteq Slots("dwt")
    /\ granted \subseteq {k \in Requests : k.type \notin OtherTypes}
    /\ lost \subseteq Units \X Nat
    /\ \A p \in lost : p[1] \in Units /\ p[2] \in Slots(p[1])
    /\ \A p \in stray : p[1] \in Units /\ p[2] \in Slots(p[1])

(***************************************************************************)
(* In every state, attached or not: the units are sized by cortexm_attach  *)
(* or not at all, a slot is taken only below the size, and only a          *)
(* comparator the silicon has is ever loaded or matches.                   *)
(***************************************************************************)
Sized ==
    /\ max \in {SizedUnits, [u \in Units |-> 0]}
    /\ attached => max = SizedUnits
    /\ \A u \in Units : \A i \in Slots(u) :
          /\ used[u][i] => i < SizedUnits[u]
          /\ comp[u][i] # NONE => Implemented(u, i)
    /\ \A i \in matched : Implemented("dwt", i)

(***************************************************************************)
(* While GDB is attached, a live entry holds its slot and shares it with   *)
(* no other, unless a stray clear freed the slot; and whatever was cleared, *)
(* a taken slot is lost or loaded for a live entry.                        *)
(***************************************************************************)
Session ==
    /\ \A k \in granted : \E n \in 1..Len(bw_list) :
          Live(bw_list, granted, n) /\ bw_list[n].req = k
    /\ \A n \in 1..Len(bw_list) :
          Live(bw_list, granted, n) =>
             Strayed(bw_list[n]) \/ Holds(bw_list[n])
    /\ \A m, n \in 1..Len(bw_list) :
          /\ Live(bw_list, granted, m) /\ Live(bw_list, granted, n) /\ m # n
          /\ EntryUnit(bw_list[m]) = EntryUnit(bw_list[n])
          /\ ~Strayed(bw_list[m]) /\ ~Strayed(bw_list[n])
          => bw_list[m].slot # bw_list[n].slot
    /\ \A u \in Units : \A i \in Slots(u) :
          /\ used[u][i] =>
                \/ <<u, i>> \in lost
                \/ \E n \in 1..Len(bw_list) :
                      /\ Live(bw_list, granted, n)
                      /\ EntryUnit(bw_list[n]) = u /\ bw_list[n].slot = i
                      /\ Loaded(bw_list[n])
          /\ comp[u][i] # NONE => used[u][i]
    /\ \A p \in lost : used[p[1]][p[2]]

IInv == Types /\ Sized /\ (attached => Session) /\ WatchReportIsLive

\* A search for the first free slot, or for the newest entry, finds one.
LEMMA FirstOfExists ==
    ASSUME NEW S, S \subseteq Nat, S # {}
    PROVE  FirstOf(S) \in S /\ \A j \in S : FirstOf(S) <= j
<1>1. IsWellFoundedOn(OpToRel(<, Nat), Nat)
  BY NatLessThanWellFounded
<1>2. \E x \in S : \A y \in S : ~(<<y, x>> \in OpToRel(<, Nat))
  BY <1>1, WFMin
<1>3. OpToRel(<, Nat) = {ss \in Nat \X Nat : ss[1] < ss[2]}
  BY DEF OpToRel
<1>4. \E x \in S : \A y \in S : x <= y
  <2>1. PICK x \in S : \A y \in S : ~(<<y, x>> \in OpToRel(<, Nat))
    BY <1>2
  <2>2. ASSUME NEW y \in S PROVE x <= y
    <3>1. <<y, x>> \in Nat \X Nat /\ x \in Nat /\ y \in Nat
      OBVIOUS
    <3>2. ~(<<y, x>> \in {ss \in Nat \X Nat : ss[1] < ss[2]})
      BY <1>3, <2>1
    <3>3. ~(<<y, x>>[1] < <<y, x>>[2])
      BY <3>1, <3>2
    <3> QED
      BY <3>1, <3>3
  <2> QED
    BY <2>2
<1> QED
  BY <1>4 DEF FirstOf

(***************************************************************************)
(* What the writes to a table do.                                          *)
(***************************************************************************)
Updated(t, u, i, v) == [t EXCEPT ![u][i] = v]

LEMMA TableSet ==
    ASSUME NEW V, NEW t \in Table(V), NEW u \in Units, NEW i \in Slots(u),
           NEW v \in V, NEW s, s = Updated(t, u, i, v)
    PROVE  /\ s \in Table(V)
           /\ \A w \in Units : \A j \in Slots(w) :
                 s[w][j] = IF w = u /\ j = i THEN v ELSE t[w][j]
<1>1. /\ t \in [Units -> UNION {[Slots(w) -> V] : w \in Units}]
      /\ \A w \in Units : t[w] \in [Slots(w) -> V]
  BY DEF Table
<1>2. /\ DOMAIN s = Units
      /\ s = [w \in Units |-> IF w = u THEN [t[u] EXCEPT ![i] = v] ELSE t[w]]
  BY <1>1 DEF Updated
<1>3. \A w \in Units : s[w] \in [Slots(w) -> V]
  BY <1>1, <1>2
<1>4. s \in [Units -> UNION {[Slots(w) -> V] : w \in Units}]
  <2>1. \A w \in Units : s[w] \in UNION {[Slots(x) -> V] : x \in Units}
    BY <1>3
  <2> QED
    BY <1>2, <2>1
<1>5. s \in Table(V)
  BY <1>3, <1>4 DEF Table
<1> QED
  BY <1>1, <1>2, <1>5

LEMMA TableCleared ==
    ASSUME NEW V, NEW t \in Table(V), NEW v \in V, NEW bound
    PROVE  /\ ClearedBelow(t, bound, v) \in Table(V)
           /\ \A w \in Units : \A j \in Slots(w) :
                 ClearedBelow(t, bound, v)[w][j] =
                    IF j < bound[w] THEN v ELSE t[w][j]
<1>1. \A w \in Units : t[w] \in [Slots(w) -> V]
  BY DEF Table
<1>2. \A w \in Units : ClearedBelow(t, bound, v)[w] \in [Slots(w) -> V]
  BY <1>1 DEF ClearedBelow
<1>3. ClearedBelow(t, bound, v) \in [Units -> UNION {[Slots(w) -> V] : w \in Units}]
  BY <1>2 DEF ClearedBelow
<1> QED
  BY <1>2, <1>3 DEF Table, ClearedBelow

LEMMA UsedCleared ==
    ASSUME NEW t \in Table(BOOLEAN), NEW bound
    PROVE  /\ ClearedBelow(t, bound, FALSE) \in Table(BOOLEAN)
           /\ \A w \in Units : \A j \in Slots(w) :
                 ClearedBelow(t, bound, FALSE)[w][j] =
                    IF j < bound[w] THEN FALSE ELSE t[w][j]
<1>1. \A w \in Units : t[w] \in [Slots(w) -> BOOLEAN]
  BY DEF Table
<1>2. \A w \in Units : ClearedBelow(t, bound, FALSE)[w] \in [Slots(w) -> BOOLEAN]
  BY <1>1 DEF ClearedBelow
<1>3. ClearedBelow(t, bound, FALSE)
         \in [Units -> UNION {[Slots(w) -> BOOLEAN] : w \in Units}]
  BY <1>2 DEF ClearedBelow
<1> QED
  BY <1>2, <1>3 DEF Table, ClearedBelow

LEMMA TableLoaded ==
    ASSUME NEW t \in Table(CompValues), NEW u \in Units, NEW i \in Slots(u),
           NEW v \in CompValues, NEW s, s = Load(t, u, i, v)
    PROVE  /\ s \in Table(CompValues)
           /\ \A w \in Units : \A j \in Slots(w) :
                 s[w][j] = IF w = u /\ j = i /\ Implemented(u, i) THEN v ELSE t[w][j]
<1>1. CASE Implemented(u, i)
  <2>1. s = Updated(t, u, i, v)
    BY <1>1 DEF Load, Updated
  <2>2. /\ s \in Table(CompValues)
        /\ \A w \in Units : \A j \in Slots(w) :
              s[w][j] = IF w = u /\ j = i THEN v ELSE t[w][j]
    BY <2>1, TableSet
  <2> QED
    BY <1>1, <2>2
<1>2. CASE ~Implemented(u, i)
  BY <1>2 DEF Load
<1> QED
  BY <1>1, <1>2

\* Every implemented slot of the tables is below the size of its unit.
LEMMA SizeFacts ==
    /\ \A u \in Units : SizedUnits[u] \in 0..MaxSlots[u]
    /\ \A u \in Units : \A i \in Slots(u) :
          /\ i \in Nat
          /\ Implemented(u, i) => i < SizedUnits[u]
          /\ i < SizedUnits["fpb"] /\ u = "fpb" => Implemented(u, i)
BY UnitsAssumption DEF SizedUnits, Implemented, Slots, Units

LEMMA RequestFacts ==
    ASSUME NEW k \in Requests
    PROVE  /\ UnitOf(k.type) \in Units /\ k.addr \in Nat
           /\ Encoded(k) \in CompValues /\ NONE \in CompValues
           /\ k.type \notin OtherTypes /\ UnitOf(k.type) = "dwt" =>
                 k.type \in WatchTypes
BY RequestsAssumption DEF UnitOf, Units, CompValues, HardTypes, WatchTypes, OtherTypes

(***************************************************************************)
(* The list of entries: a new one comes first, a removed one leaves the    *)
(* others in their order.                                                  *)
(***************************************************************************)
LEMMA ListPush ==
    ASSUME NEW s \in Seq(Entry), NEW e \in Entry, NEW p, p = <<e>> \o s
    PROVE  /\ p \in Seq(Entry) /\ Len(p) = Len(s) + 1 /\ p[1] = e
           /\ \A n \in 1..Len(s) : p[n + 1] = s[n]
<1>1. <<e>> \in Seq(Entry) /\ Len(<<e>>) = 1 /\ <<e>>[1] = e
  OBVIOUS
<1>2. Len(s) \in Nat
  OBVIOUS
<1>3. /\ p \in Seq(Entry) /\ Len(p) = 1 + Len(s)
      /\ \A i \in 1..1 + Len(s) : p[i] = IF i <= 1 THEN <<e>>[i] ELSE s[i - 1]
  BY <1>1, <1>2, ConcatProperties
<1> QED
  BY <1>1, <1>2, <1>3

LEMMA ListRemove ==
    ASSUME NEW s \in Seq(Entry), NEW n \in 1..Len(s), NEW p, p = RemoveAt(s, n)
    PROVE  /\ p \in Seq(Entry) /\ Len(p) = Len(s) - 1
           /\ \A m \in 1..Len(p) : p[m] = IF m < n THEN s[m] ELSE s[m + 1]
<1> DEFINE front == SubSeq(s, 1, n - 1)
           rear == SubSeq(s, n + 1, Len(s))
<1>1. Len(s) \in Nat /\ n \in Nat /\ n >= 1 /\ n <= Len(s)
      /\ \A i \in 1..Len(s) : s[i] \in Entry
  OBVIOUS
<1>2. /\ front \in Seq(Entry) /\ Len(front) = n - 1
      /\ \A i \in 1..n - 1 : front[i] = s[i]
  BY <1>1, SubSeqProperties
<1>3. /\ rear \in Seq(Entry) /\ Len(rear) = Len(s) - n
      /\ \A i \in 1..Len(s) - n : rear[i] = s[n + i]
  BY <1>1, SubSeqProperties
<1> HIDE DEF front, rear
<1>4. p = front \o rear
  BY DEF RemoveAt, front, rear
<1>5. /\ p \in Seq(Entry) /\ Len(p) = Len(front) + Len(rear)
      /\ \A i \in 1..Len(front) + Len(rear) :
            p[i] = IF i <= Len(front) THEN front[i] ELSE rear[i - Len(front)]
  BY <1>2, <1>3, <1>4, ConcatProperties
<1>6. Len(p) = Len(s) - 1
  BY <1>1, <1>2, <1>3, <1>5
<1>7. ASSUME NEW m \in 1..Len(p) PROVE p[m] = IF m < n THEN s[m] ELSE s[m + 1]
  <2>1. CASE m < n
    BY <1>1, <1>2, <1>3, <1>5, <1>6, <2>1
  <2>2. CASE m >= n
    <3>1. p[m] = rear[m - (n - 1)] /\ m - (n - 1) \in 1..Len(s) - n
      BY <1>1, <1>2, <1>3, <1>5, <1>6, <2>2
    <3>2. rear[m - (n - 1)] = s[n + (m - (n - 1))]
      BY <1>3, <3>1
    <3>3. n + (m - (n - 1)) = m + 1 /\ ~(m < n)
      BY <1>1, <1>6, <2>2
    <3> QED
      BY <3>1, <3>2, <3>3
  <2> QED
    BY <1>1, <1>6, <2>1, <2>2
<1> QED
  BY <1>5, <1>6, <1>7


LEMMA TableConstant ==
    ASSUME NEW V, NEW v \in V, NEW t, t = [u \in Units |-> [i \in Slots(u) |-> v]]
    PROVE  t \in Table(V)
<1>1. \A w \in Units : t[w] \in [Slots(w) -> V]
  OBVIOUS
<1>2. t \in [Units -> UNION {[Slots(w) -> V] : w \in Units}]
  <2>1. \A w \in Units : t[w] \in UNION {[Slots(x) -> V] : x \in Units}
    BY <1>1
  <2> QED
    BY <2>1
<1> QED
  BY <1>1, <1>2 DEF Table

(***************************************************************************)
(* One lemma per action.                                                   *)
(***************************************************************************)
LEMMA InitIInv == Init => IInv
<1> SUFFICES ASSUME Init PROVE IInv
  OBVIOUS
<1>1. used \in Table(BOOLEAN)
  BY TableConstant DEF Init
<1>2. NONE \in CompValues
  BY DEF CompValues
<1>3. comp \in Table(CompValues)
  BY <1>2, TableConstant DEF Init
<1>4. Types
  <2>1. bw_list \in Seq(Entry) /\ Len(bw_list) = 0 /\ Len(bw_list) <= ListBound
    BY RequestsAssumption DEF Init
  <2>2. watched \in [Slots("dwt") -> Nat]
    BY DEF Init
  <2>3. \A n \in 1..Len(bw_list) : bw_list[n].slot \in Slots(EntryUnit(bw_list[n]))
    BY <2>1
  <2>4. attached \in BOOLEAN /\ matched = {} /\ granted = {} /\ lost = {}
        /\ stray = {}
    BY DEF Init
  <2> QED
    BY <1>1, <1>3, <2>1, <2>2, <2>3, <2>4 DEF Types
<1>5. \A u \in Units : \A i \in Slots(u) : ~used[u][i] /\ comp[u][i] = NONE
  BY DEF Init
<1>6. Sized
  BY <1>5 DEF Sized, Init
<1> QED
  BY <1>4, <1>6 DEF IInv, WatchReportIsLive, Init

LEMMA AttachIInv ==
    ASSUME IInv, NEW ok \in BOOLEAN, Attach(ok)
    PROVE  IInv'
<1>1. NONE \in CompValues /\ FALSE \in BOOLEAN
  BY DEF CompValues
<1>2. used \in Table(BOOLEAN) /\ comp \in Table(CompValues)
  BY DEF IInv, Types
<1>3. used' = ClearedBelow(used, SizedUnits, FALSE)
      /\ comp' = ClearedBelow(comp, SizedUnits, NONE)
  BY DEF Attach
<1>4. /\ used' \in Table(BOOLEAN)
      /\ \A w \in Units : \A j \in Slots(w) :
            used'[w][j] = IF j < SizedUnits[w] THEN FALSE ELSE used[w][j]
  BY <1>2, <1>3, UsedCleared
<1>5. /\ comp' \in Table(CompValues)
      /\ \A w \in Units : \A j \in Slots(w) :
            comp'[w][j] = IF j < SizedUnits[w] THEN NONE ELSE comp[w][j]
  BY <1>1, <1>2, <1>3, TableCleared
<1>6. \A u \in Units : \A i \in Slots(u) : ~used'[u][i] /\ comp'[u][i] = NONE
  <2> SUFFICES ASSUME NEW u \in Units, NEW i \in Slots(u)
               PROVE  ~used'[u][i] /\ comp'[u][i] = NONE
    OBVIOUS
  <2>1. /\ used[u][i] => i < SizedUnits[u]
        /\ comp[u][i] # NONE => i < SizedUnits[u]
    BY SizeFacts DEF IInv, Sized
  <2>2. CASE i < SizedUnits[u]
    BY <1>4, <1>5, <2>2
  <2>3. CASE ~(i < SizedUnits[u])
    BY <1>4, <1>5, <2>1, <2>3
  <2> QED
    BY <2>2, <2>3
<1>7. Types'
  BY <1>4, <1>5 DEF IInv, Types, Attach
<1>8. Sized'
  BY <1>6 DEF IInv, Sized, Attach
<1>9. Session'
  <2>1. \A n : ~Live(bw_list', granted', n)
    BY DEF Live, Attach
  <2>2. granted' = {} /\ lost' = {}
    BY DEF Attach
  <2> QED
    BY <1>6, <2>1, <2>2 DEF Session
<1> QED
  BY <1>7, <1>8, <1>9 DEF IInv, WatchReportIsLive, Attach

LEMMA DetachIInv ==
    ASSUME IInv, Detach
    PROVE  IInv'
<1>1. NONE \in CompValues /\ comp \in Table(CompValues)
  BY DEF CompValues, IInv, Types
<1>2. comp' = ClearedBelow(comp, max, NONE)
  BY DEF Detach
<1>3. /\ comp' \in Table(CompValues)
      /\ \A w \in Units : \A j \in Slots(w) :
            comp'[w][j] = IF j < max[w] THEN NONE ELSE comp[w][j]
  BY <1>1, <1>2, TableCleared
<1>4. Types'
  BY <1>3 DEF IInv, Types, Detach
<1>5. Sized'
  BY <1>3 DEF IInv, Sized, Detach
<1> QED
  BY <1>4, <1>5 DEF IInv, WatchReportIsLive, Detach

LEMMA RescanIInv ==
    ASSUME IInv, Rescan
    PROVE  IInv'
<1>1. used' \in Table(BOOLEAN)
  BY TableConstant DEF Rescan
<1>2. \A u \in Units : \A i \in Slots(u) : ~used'[u][i]
  BY DEF Rescan
<1>3. bw_list' \in Seq(Entry) /\ Len(bw_list') = 0 /\ Len(bw_list') <= ListBound
  BY RequestsAssumption DEF Rescan
<1>4. Types'
  <2>1. \A n \in 1..Len(bw_list') : bw_list'[n].slot \in Slots(EntryUnit(bw_list'[n]))
    BY <1>3
  <2>2. /\ attached' \in BOOLEAN /\ granted' = {} /\ lost' = {} /\ stray' = {}
        /\ UNCHANGED <<comp, watched, matched>>
    BY DEF Rescan
  <2> QED
    BY <1>1, <1>3, <2>1, <2>2 DEF IInv, Types
<1>5. Sized'
  BY <1>2 DEF IInv, Sized, Rescan
<1> QED
  BY <1>4, <1>5 DEF IInv, WatchReportIsLive, Rescan

LEMMA SetRefusedIInv ==
    ASSUME IInv, NEW k \in Requests, SetRefused(k)
    PROVE  IInv'
<1>1. Types' /\ Sized'
  BY DEF IInv, Types, Sized, SetRefused
<1>2. (attached => Session)'
  BY DEF IInv, Session, Holds, Loaded, Strayed, SetRefused
<1> QED
  BY <1>1, <1>2 DEF IInv, WatchReportIsLive, SetRefused


LEMMA UsedSet ==
    ASSUME NEW t \in Table(BOOLEAN), NEW u \in Units, NEW i \in Slots(u),
           NEW v \in BOOLEAN, NEW s, s = Updated(t, u, i, v)
    PROVE  /\ s \in Table(BOOLEAN)
           /\ \A w \in Units : \A j \in Slots(w) : w # u \/ j # i => s[w][j] = t[w][j]
           /\ s[u][i] = v
<1>1. /\ t \in [Units -> UNION {[Slots(w) -> BOOLEAN] : w \in Units}]
      /\ \A w \in Units : t[w] \in [Slots(w) -> BOOLEAN]
  BY DEF Table
<1>2. /\ DOMAIN s = Units
      /\ s = [w \in Units |-> IF w = u THEN [t[u] EXCEPT ![i] = v] ELSE t[w]]
  BY <1>1 DEF Updated
<1>3. \A w \in Units : s[w] \in [Slots(w) -> BOOLEAN]
  BY <1>1, <1>2
<1>4. s \in [Units -> UNION {[Slots(w) -> BOOLEAN] : w \in Units}]
  <2>1. \A w \in Units : s[w] \in UNION {[Slots(x) -> BOOLEAN] : x \in Units}
    BY <1>3
  <2> QED
    BY <1>2, <2>1
<1>5. s \in Table(BOOLEAN)
  BY <1>3, <1>4 DEF Table
<1> QED
  BY <1>1, <1>2, <1>5

LEMMA FreeSlotFacts ==
    ASSUME IInv, NEW u \in Units, FreeSlots(u) # {}
    PROVE  LET i == FirstOf(FreeSlots(u))
           IN  i \in Slots(u) /\ i < max[u] /\ ~used[u][i]
<1>1. FreeSlots(u) \subseteq Nat
  BY SizeFacts DEF FreeSlots
<1>2. FirstOf(FreeSlots(u)) \in FreeSlots(u)
  BY <1>1, FirstOfExists
<1> QED
  BY <1>2 DEF FreeSlots

(***************************************************************************)
(* The parts that both outcomes of a set share: the slot it takes is held  *)
(* by no live entry and by no lost pair, so what they hold is undisturbed. *)
(***************************************************************************)
SetStep(k) == \E allocOk \in BOOLEAN : target_breakwatch_set(k, allocOk)

LEMMA SetFrame ==
    ASSUME IInv, NEW k \in Requests, SetStep(k),
           NEW u, u = UnitOf(k.type), NEW i, i = FirstOf(FreeSlots(u))
    PROVE  /\ u \in Units /\ i \in Slots(u) /\ i < max[u] /\ ~used[u][i]
           /\ used' \in Table(BOOLEAN) /\ used'[u][i]
           /\ \A w \in Units : \A j \in Slots(w) :
                 w # u \/ j # i => used'[w][j] = used[w][j]
           /\ comp' \in Table(CompValues)
           /\ \A w \in Units : \A j \in Slots(w) :
                 comp'[w][j] = IF w = u /\ j = i /\ Implemented(u, i)
                               THEN Encoded(k) ELSE comp[w][j]
           /\ watched' \in [Slots("dwt") -> Nat]
           /\ u = "dwt" /\ Implemented(u, i) => watched'[i] = k.addr
           /\ \A j \in Slots("dwt") :
                 u # "dwt" \/ j # i => watched'[j] = watched[j]
           /\ Sized' /\ Session
<1>1. PICK allocOk \in BOOLEAN : target_breakwatch_set(k, allocOk)
  BY DEF SetStep
<1>2. u \in Units /\ k.addr \in Nat /\ Encoded(k) \in CompValues
  BY RequestFacts
<1>3. FreeSlots(u) # {}
  BY <1>1 DEF target_breakwatch_set
<1>4. i \in Slots(u) /\ i < max[u] /\ ~used[u][i]
  BY <1>2, <1>3, FreeSlotFacts
<1>5. used' = Updated(used, u, i, TRUE)
  BY <1>1 DEF target_breakwatch_set, Updated
<1>6. comp' = Load(comp, u, i, Encoded(k))
  BY <1>1 DEF target_breakwatch_set
<1>7. used \in Table(BOOLEAN) /\ comp \in Table(CompValues)
      /\ watched \in [Slots("dwt") -> Nat]
  BY DEF IInv, Types
<1>8. PICK b \in BOOLEAN : b = TRUE
  OBVIOUS
<1>9. /\ used' \in Table(BOOLEAN) /\ used'[u][i]
      /\ \A w \in Units : \A j \in Slots(w) :
            w # u \/ j # i => used'[w][j] = used[w][j]
  <2>1. used' = Updated(used, u, i, b)
    BY <1>5, <1>8
  <2>2. /\ used' \in Table(BOOLEAN) /\ used'[u][i] = b
        /\ \A w \in Units : \A j \in Slots(w) :
              w # u \/ j # i => used'[w][j] = used[w][j]
    BY <1>2, <1>4, <1>7, <2>1, UsedSet
  <2> QED
    BY <1>8, <2>2
<1>10. /\ comp' \in Table(CompValues)
      /\ \A w \in Units : \A j \in Slots(w) :
            comp'[w][j] = IF w = u /\ j = i /\ Implemented(u, i)
                          THEN Encoded(k) ELSE comp[w][j]
  BY <1>2, <1>4, <1>6, <1>7, TableLoaded
<1>11. watched' = IF u = "dwt" /\ Implemented(u, i)
                  THEN [watched EXCEPT ![i] = k.addr] ELSE watched
  BY <1>1 DEF target_breakwatch_set
<1>12. /\ watched' \in [Slots("dwt") -> Nat]
       /\ u = "dwt" /\ Implemented(u, i) => watched'[i] = k.addr
       /\ \A j \in Slots("dwt") :
             u # "dwt" \/ j # i => watched'[j] = watched[j]
  BY <1>2, <1>4, <1>7, <1>11
<1>13. attached /\ attached' /\ max' = max /\ matched' = matched
  BY <1>1 DEF target_breakwatch_set
<1>14. Session /\ max = SizedUnits
  BY <1>13 DEF IInv, Sized
<1>15. ASSUME NEW w \in Units, NEW j \in Slots(w)
       PROVE  /\ used'[w][j] => j < SizedUnits[w]
              /\ comp'[w][j] # NONE => Implemented(w, j)
  BY <1>4, <1>9, <1>10, <1>14 DEF IInv, Sized
<1>16. Sized'
  BY <1>13, <1>14, <1>15 DEF IInv, Sized
<1> QED
  BY <1>2, <1>4, <1>9, <1>10, <1>12, <1>14, <1>16


\* What a taken slot is loaded with is not disturbed by the set of another.
LEMMA SetKeepsLoaded ==
    ASSUME IInv, NEW k \in Requests, SetStep(k), NEW e \in Entry, Loaded(e),
           e.slot \in Slots(EntryUnit(e)), used[EntryUnit(e)][e.slot]
    PROVE  /\ Loaded(e)' /\ used'[EntryUnit(e)][e.slot]
           /\ ~(EntryUnit(e) = UnitOf(k.type)
                  /\ e.slot = FirstOf(FreeSlots(UnitOf(k.type))))
<1>1. PICK u : u = UnitOf(k.type)
  OBVIOUS
<1>2. PICK i : i = FirstOf(FreeSlots(u))
  OBVIOUS
<1>3. /\ u \in Units /\ i \in Slots(u) /\ ~used[u][i]
      /\ \A w \in Units : \A j \in Slots(w) :
            w # u \/ j # i => used'[w][j] = used[w][j]
      /\ \A w \in Units : \A j \in Slots(w) :
            comp'[w][j] = IF w = u /\ j = i /\ Implemented(u, i)
                          THEN Encoded(k) ELSE comp[w][j]
      /\ \A j \in Slots("dwt") :
            u # "dwt" \/ j # i => watched'[j] = watched[j]
  BY <1>1, <1>2, SetFrame
<1>4. EntryUnit(e) \in Units
  BY RequestFacts DEF Entry, EntryUnit
<1>5. ~(EntryUnit(e) = u /\ e.slot = i)
  BY <1>3
<1>6. /\ used'[EntryUnit(e)][e.slot] = used[EntryUnit(e)][e.slot]
      /\ comp'[EntryUnit(e)][e.slot] = comp[EntryUnit(e)][e.slot]
      /\ EntryUnit(e) = "dwt" => watched'[e.slot] = watched[e.slot]
  BY <1>3, <1>4, <1>5
<1>7. Loaded(e)'
  BY <1>6 DEF Loaded
<1> QED
  BY <1>1, <1>2, <1>5, <1>6, <1>7

LEMMA SetKeepsHolds ==
    ASSUME IInv, NEW k \in Requests, SetStep(k), NEW e \in Entry, Holds(e)
    PROVE  /\ Holds(e)'
           /\ ~(EntryUnit(e) = UnitOf(k.type)
                  /\ e.slot = FirstOf(FreeSlots(UnitOf(k.type))))
<1>1. PICK u : u = UnitOf(k.type)
  OBVIOUS
<1>2. PICK i : i = FirstOf(FreeSlots(u))
  OBVIOUS
<1>3. lost' \subseteq lost \cup {<<u, i>>} /\ max' = max
  BY <1>1, <1>2 DEF SetStep, target_breakwatch_set
<1>4. e.slot \in Slots(EntryUnit(e)) /\ used[EntryUnit(e)][e.slot]
      /\ <<EntryUnit(e), e.slot>> \notin lost /\ Loaded(e)
      /\ e.slot < max[EntryUnit(e)]
  BY DEF Holds
<1>5. /\ Loaded(e)' /\ used'[EntryUnit(e)][e.slot]
      /\ ~(EntryUnit(e) = u /\ e.slot = i)
  BY <1>1, <1>2, <1>4, SetKeepsLoaded
<1>6. <<EntryUnit(e), e.slot>> # <<u, i>>
  BY <1>5
<1>7. <<EntryUnit(e), e.slot>> \notin lost'
  BY <1>3, <1>4, <1>6
<1>8. Holds(e)'
  BY <1>3, <1>4, <1>5, <1>7 DEF Holds
<1> QED
  BY <1>1, <1>2, <1>5, <1>8

LEMMA SetGrantedIInv ==
    ASSUME IInv, NEW k \in Requests, target_breakwatch_set(k, TRUE)
    PROVE  IInv'
<1>1. SetStep(k)
  BY DEF SetStep
<1>2. PICK u : u = UnitOf(k.type)
  OBVIOUS
<1>3. PICK i : i = FirstOf(FreeSlots(u))
  OBVIOUS
<1>4. /\ u \in Units /\ i \in Slots(u) /\ i < max[u] /\ ~used[u][i]
      /\ used' \in Table(BOOLEAN) /\ used'[u][i]
      /\ \A w \in Units : \A j \in Slots(w) :
            w # u \/ j # i => used'[w][j] = used[w][j]
      /\ comp' \in Table(CompValues)
      /\ \A w \in Units : \A j \in Slots(w) :
            comp'[w][j] = IF w = u /\ j = i /\ Implemented(u, i)
                          THEN Encoded(k) ELSE comp[w][j]
      /\ watched' \in [Slots("dwt") -> Nat]
      /\ u = "dwt" /\ Implemented(u, i) => watched'[i] = k.addr
      /\ Sized' /\ Session
  BY <1>1, <1>2, <1>3, SetFrame
<1>5. PICK e : e = [req |-> k, slot |-> i]
  OBVIOUS
<1>6. e \in Entry /\ e.req = k /\ e.slot = i /\ EntryUnit(e) = u
  BY <1>2, <1>4, <1>5, SizeFacts DEF Entry, EntryUnit
<1>7. /\ bw_list' = <<e>> \o bw_list /\ granted' = granted \cup {k} /\ lost' = lost
      /\ k \notin granted /\ Len(bw_list) < ListBound /\ k.type \notin OtherTypes
      /\ attached' = attached /\ max' = max /\ matched' = matched /\ report' = NONE
      /\ stray' = stray
  BY <1>2, <1>3, <1>5 DEF target_breakwatch_set
<1>8. /\ bw_list \in Seq(Entry) /\ Len(bw_list) \in Nat
      /\ \A n \in 1..Len(bw_list) : bw_list[n] \in Entry
  BY DEF IInv, Types
<1>9. /\ bw_list' \in Seq(Entry) /\ Len(bw_list') = Len(bw_list) + 1
      /\ bw_list'[1] = e
      /\ \A n \in 1..Len(bw_list) : bw_list'[n + 1] = bw_list[n]
  BY <1>6, <1>7, <1>8, ListPush
<1>10. \A n \in 1..Len(bw_list') : n = 1 \/ n - 1 \in 1..Len(bw_list)
  BY <1>8, <1>9
<1>11. \A n \in 1..Len(bw_list') :
          n # 1 => n - 1 \in 1..Len(bw_list) /\ bw_list'[n] = bw_list[n - 1]
  BY <1>8, <1>9, <1>10
<1>12. Types'
  <2>1. \A n \in 1..Len(bw_list') : bw_list'[n].slot \in Slots(EntryUnit(bw_list'[n]))
    BY <1>4, <1>6, <1>9, <1>11 DEF IInv, Types
  <2>2. Len(bw_list') <= ListBound
    BY <1>7, <1>8, <1>9, RequestsAssumption
  <2>3. granted' \subseteq {r \in Requests : r.type \notin OtherTypes}
    BY <1>7 DEF IInv, Types
  <2> QED
    BY <1>4, <1>7, <1>9, <2>1, <2>2, <2>3 DEF IInv, Types
<1>13. Live(bw_list', granted', 1)
  BY <1>6, <1>7, <1>8, <1>9 DEF Live, Newest
<1>14. \A n \in 1..Len(bw_list) :
          Live(bw_list', granted', n + 1) <=> Live(bw_list, granted, n)
  <2> SUFFICES ASSUME NEW n \in 1..Len(bw_list)
               PROVE  Live(bw_list', granted', n + 1) <=> Live(bw_list, granted, n)
    OBVIOUS
  <2>1. bw_list'[n + 1] = bw_list[n] /\ n + 1 \in 1..Len(bw_list')
    BY <1>8, <1>9
  <2>2. ASSUME Live(bw_list', granted', n + 1) PROVE Live(bw_list, granted, n)
    <3>1. bw_list[n].req # k
      BY <1>6, <1>9, <2>1, <2>2, 1 \in 1..(n + 1) - 1 DEF Live, Newest
    <3>2. bw_list[n].req \in granted
      BY <1>7, <2>1, <2>2, <3>1 DEF Live
    <3>3. ASSUME NEW m \in 1..(n - 1) PROVE bw_list[m].req # bw_list[n].req
      <4>1. m \in 1..Len(bw_list) /\ m + 1 \in 1..(n + 1) - 1
        BY <1>8
      <4>2. bw_list'[m + 1] = bw_list[m]
        BY <1>9, <4>1
      <4> QED
        BY <2>1, <2>2, <4>1, <4>2 DEF Live, Newest
    <3> QED
      BY <3>2, <3>3 DEF Live, Newest
  <2>3. ASSUME Live(bw_list, granted, n) PROVE Live(bw_list', granted', n + 1)
    <3>1. bw_list[n].req \in granted /\ bw_list[n].req # k
      BY <1>7, <2>3 DEF Live
    <3>2. ASSUME NEW m \in 1..(n + 1) - 1 PROVE bw_list'[m].req # bw_list'[n + 1].req
      <4>1. CASE m = 1
        BY <1>6, <1>9, <2>1, <3>1, <4>1
      <4>2. CASE m # 1
        <5>1. m - 1 \in 1..(n - 1) /\ m \in 1..Len(bw_list')
          BY <1>8, <1>9, <4>2
        <5> QED
          BY <1>11, <2>1, <2>3, <4>2, <5>1 DEF Live, Newest
      <4> QED
        BY <4>1, <4>2
    <3> QED
      BY <1>7, <2>1, <3>1, <3>2 DEF Live, Newest
  <2> QED
    BY <2>2, <2>3
<1>15. \A n \in 1..Len(bw_list') :
          n # 1 /\ Live(bw_list', granted', n) =>
             /\ Live(bw_list, granted, n - 1) /\ bw_list'[n] = bw_list[n - 1]
             /\ n - 1 \in 1..Len(bw_list)
  <2> SUFFICES ASSUME NEW n \in 1..Len(bw_list'), n # 1,
                      Live(bw_list', granted', n)
               PROVE  Live(bw_list, granted, n - 1)
    BY <1>11
  <2>1. n - 1 \in 1..Len(bw_list) /\ (n - 1) + 1 = n
    BY <1>8, <1>9, <1>11
  <2> QED
    BY <1>14, <2>1
<1>16. ASSUME NEW n \in 1..Len(bw_list), Live(bw_list, granted, n),
              NEW d, d = bw_list[n], ~Strayed(d)
       PROVE  Holds(d)' /\ ~(EntryUnit(d) = u /\ d.slot = i)
  <2>1. d \in Entry /\ Holds(d)
    BY <1>4, <1>8, <1>16 DEF Session
  <2> QED
    BY <1>1, <1>2, <1>3, <2>1, SetKeepsHolds
<1>17. \A n \in 1..Len(bw_list') :
          n # 1 /\ Live(bw_list', granted', n) /\ ~Strayed(bw_list[n])' =>
             /\ Holds(bw_list[n])'
             /\ ~(EntryUnit(bw_list'[n]) = u /\ bw_list'[n].slot = i)
  <2> SUFFICES ASSUME NEW n \in 1..Len(bw_list'), n # 1,
                      Live(bw_list', granted', n), ~Strayed(bw_list[n])'
               PROVE  /\ Holds(bw_list[n])'
                      /\ ~(EntryUnit(bw_list'[n]) = u /\ bw_list'[n].slot = i)
    OBVIOUS
  <2>1. PICK m \in 1..Len(bw_list) : m = n - 1 /\ Live(bw_list, granted, m)
                                    /\ bw_list'[n] = bw_list[m]
    BY <1>15
  <2>2. PICK d : d = bw_list[m] /\ d = bw_list'[n]
    BY <2>1
  <2>3. ~Strayed(d)
    BY <1>7, <2>2 DEF Strayed
  <2>4. Holds(d)' /\ ~(EntryUnit(d) = u /\ d.slot = i)
    BY <1>16, <2>1, <2>2, <2>3
  <2> QED
    BY <2>2, <2>4 DEF Holds, Loaded
<1>18. Holds(bw_list[1])'
  <2>1. <<u, i>> \notin lost
    BY <1>4 DEF Session
  <2>2. /\ EntryUnit(bw_list'[1]) = u /\ bw_list'[1].slot = i /\ bw_list'[1].req = k
        /\ i < max'[u] /\ <<u, i>> \notin lost'
    BY <1>4, <1>6, <1>7, <1>9, <2>1
  <2> QED
    BY <1>4, <2>2 DEF Holds, Loaded
<1>19. Session'
  <2>1. ASSUME NEW r \in granted'
        PROVE  \E n \in 1..Len(bw_list') :
                  Live(bw_list', granted', n) /\ bw_list'[n].req = r
    <3>1. CASE r = k
      BY <1>6, <1>8, <1>9, <1>13, <3>1
    <3>2. CASE r # k
      <4>1. r \in granted
        BY <1>7, <3>2
      <4>2. PICK n \in 1..Len(bw_list) :
               Live(bw_list, granted, n) /\ bw_list[n].req = r
        BY <1>4, <4>1 DEF Session
      <4>3. n + 1 \in 1..Len(bw_list')
        BY <1>8, <1>9
      <4> QED
        BY <1>9, <1>14, <4>2, <4>3
    <3> QED
      BY <3>1, <3>2
  <2>2. \A n \in 1..Len(bw_list') :
           Live(bw_list', granted', n) => (Strayed(bw_list[n]) \/ Holds(bw_list[n]))'
    BY <1>17, <1>18
  <2>3. \A m, n \in 1..Len(bw_list') :
           /\ Live(bw_list', granted', m) /\ Live(bw_list', granted', n) /\ m # n
           /\ EntryUnit(bw_list'[m]) = EntryUnit(bw_list'[n])
           /\ ~Strayed(bw_list[m])' /\ ~Strayed(bw_list[n])'
           => bw_list'[m].slot # bw_list'[n].slot
    <3> SUFFICES ASSUME NEW m \in 1..Len(bw_list'), NEW n \in 1..Len(bw_list'),
                        Live(bw_list', granted', m), Live(bw_list', granted', n),
                        m # n, EntryUnit(bw_list'[m]) = EntryUnit(bw_list'[n]),
                        ~Strayed(bw_list[m])', ~Strayed(bw_list[n])'
                 PROVE  bw_list'[m].slot # bw_list'[n].slot
      OBVIOUS
    <3>1. CASE m = 1
      BY <1>6, <1>9, <1>17, <3>1
    <3>2. CASE n = 1
      BY <1>6, <1>9, <1>17, <3>2
    <3>3. CASE m # 1 /\ n # 1
      <4>1. m - 1 # n - 1
        OBVIOUS
      <4>2. ~Strayed(bw_list[m - 1]) /\ ~Strayed(bw_list[n - 1])
        BY <1>7, <1>15, <3>3 DEF Strayed
      <4> QED
        BY <1>4, <1>15, <3>3, <4>1, <4>2 DEF Session
    <3> QED
      BY <3>1, <3>2, <3>3
  <2>4. ASSUME NEW w \in Units, NEW j \in Slots(w), used'[w][j]
        PROVE  \/ <<w, j>> \in lost'
               \/ \E n \in 1..Len(bw_list') :
                     /\ Live(bw_list', granted', n)
                     /\ EntryUnit(bw_list'[n]) = w /\ bw_list'[n].slot = j
                     /\ Loaded(bw_list[n])'
    <3>1. CASE w = u /\ j = i
      <4>1. Loaded(bw_list[1])'
        BY <1>18 DEF Holds
      <4> QED
        BY <1>6, <1>8, <1>9, <1>13, <3>1, <4>1
    <3>2. CASE ~(w = u /\ j = i)
      <4>1. used[w][j]
        BY <1>4, <2>4, <3>2
      <4>2. CASE <<w, j>> \in lost
        BY <1>7, <4>2
      <4>3. CASE <<w, j>> \notin lost
        <5>1. PICK n \in 1..Len(bw_list) :
                 /\ Live(bw_list, granted, n)
                 /\ EntryUnit(bw_list[n]) = w /\ bw_list[n].slot = j
                 /\ Loaded(bw_list[n])
          BY <1>4, <4>1, <4>3 DEF Session
        <5>2. n + 1 \in 1..Len(bw_list') /\ bw_list'[n + 1] = bw_list[n]
          BY <1>8, <1>9
        <5>3. PICK d : d = bw_list[n] /\ d = bw_list'[n + 1]
          BY <5>2
        <5>4. d \in Entry /\ Loaded(d) /\ EntryUnit(d) = w /\ d.slot = j
          BY <1>8, <5>1, <5>3
        <5>5. Loaded(d)'
          BY <1>1, <4>1, <5>4, SetKeepsLoaded
        <5>6. Loaded(bw_list[n + 1])'
          BY <5>3, <5>5 DEF Loaded
        <5> QED
          BY <1>14, <5>1, <5>2, <5>6
      <4> QED
        BY <4>2, <4>3
    <3> QED
      BY <3>1, <3>2
  <2>5. ASSUME NEW w \in Units, NEW j \in Slots(w), comp'[w][j] # NONE
        PROVE  used'[w][j]
    <3>1. CASE w = u /\ j = i
      BY <1>4, <3>1
    <3>2. CASE ~(w = u /\ j = i)
      <4>1. comp[w][j] # NONE /\ used'[w][j] = used[w][j]
        BY <1>4, <2>5, <3>2
      <4>2. comp[w][j] # NONE => used[w][j]
        BY <1>4 DEF Session
      <4> QED
        BY <4>1, <4>2
    <3> QED
      BY <3>1, <3>2
  <2>6. ASSUME NEW p \in lost' PROVE used'[p[1]][p[2]]
    <3>1. p \in lost /\ p[1] \in Units /\ p[2] \in Slots(p[1]) /\ used[p[1]][p[2]]
      BY <1>4, <1>7 DEF IInv, Types, Session
    <3> QED
      BY <1>4, <3>1
  <2> QED
    BY <2>1, <2>2, <2>3, <2>4, <2>5, <2>6 DEF Session
<1> QED
  BY <1>4, <1>7, <1>12, <1>19 DEF IInv, WatchReportIsLive


LEMMA SetLostIInv ==
    ASSUME IInv, NEW k \in Requests, target_breakwatch_set(k, FALSE)
    PROVE  IInv'
<1>1. SetStep(k)
  BY DEF SetStep
<1>2. PICK u : u = UnitOf(k.type)
  OBVIOUS
<1>3. PICK i : i = FirstOf(FreeSlots(u))
  OBVIOUS
<1>4. /\ u \in Units /\ i \in Slots(u) /\ i < max[u] /\ ~used[u][i]
      /\ used' \in Table(BOOLEAN) /\ used'[u][i]
      /\ \A w \in Units : \A j \in Slots(w) :
            w # u \/ j # i => used'[w][j] = used[w][j]
      /\ comp' \in Table(CompValues)
      /\ \A w \in Units : \A j \in Slots(w) :
            comp'[w][j] = IF w = u /\ j = i /\ Implemented(u, i)
                          THEN Encoded(k) ELSE comp[w][j]
      /\ watched' \in [Slots("dwt") -> Nat]
      /\ Sized' /\ Session
  BY <1>1, <1>2, <1>3, SetFrame
<1>5. /\ bw_list' = bw_list /\ granted' = granted /\ lost' = lost \cup {<<u, i>>}
      /\ attached' = attached /\ max' = max /\ matched' = matched /\ report' = NONE
      /\ stray' = stray
  BY <1>2, <1>3 DEF target_breakwatch_set
<1>6. \A n \in 1..Len(bw_list) : bw_list[n] \in Entry
  BY DEF IInv, Types
<1>7. Types'
  <2>1. \A p \in lost' : p[1] \in Units /\ p[2] \in Slots(p[1])
    BY <1>4, <1>5 DEF IInv, Types
  <2>2. lost' \subseteq Units \X Nat
    BY <1>4, <1>5, SizeFacts DEF IInv, Types
  <2> QED
    BY <1>4, <1>5, <2>1, <2>2 DEF IInv, Types
<1>8. ASSUME NEW n \in 1..Len(bw_list), Live(bw_list, granted, n),
             ~Strayed(bw_list[n])
      PROVE  Holds(bw_list[n])'
  <2>1. PICK d : d = bw_list[n]
    OBVIOUS
  <2>2. d \in Entry /\ Holds(d)
    BY <1>4, <1>6, <1>8, <2>1 DEF Session
  <2>3. Holds(d)' /\ bw_list'[n] = d
    BY <1>1, <1>5, <2>1, <2>2, SetKeepsHolds
  <2> QED
    BY <2>3 DEF Holds, Loaded
<1>9. Session'
  <2>1. ASSUME NEW w \in Units, NEW j \in Slots(w)
        PROVE  /\ used'[w][j] =>
                    \/ <<w, j>> \in lost'
                    \/ \E n \in 1..Len(bw_list') :
                          /\ Live(bw_list', granted', n)
                          /\ EntryUnit(bw_list'[n]) = w /\ bw_list'[n].slot = j
                          /\ Loaded(bw_list[n])'
               /\ comp'[w][j] # NONE => used'[w][j]
    <3>1. CASE w = u /\ j = i
      BY <1>4, <1>5, <3>1
    <3>2. CASE ~(w = u /\ j = i)
      <4>1. ASSUME used'[w][j], <<w, j>> \notin lost'
            PROVE  \E n \in 1..Len(bw_list') :
                      /\ Live(bw_list', granted', n)
                      /\ EntryUnit(bw_list'[n]) = w /\ bw_list'[n].slot = j
                      /\ Loaded(bw_list[n])'
        <5>1. used[w][j] /\ <<w, j>> \notin lost
          BY <1>4, <1>5, <3>2, <4>1
        <5>2. PICK n \in 1..Len(bw_list) :
                 /\ Live(bw_list, granted, n)
                 /\ EntryUnit(bw_list[n]) = w /\ bw_list[n].slot = j
                 /\ Loaded(bw_list[n])
          BY <1>4, <5>1 DEF Session
        <5>3. PICK d : d = bw_list[n] /\ d = bw_list'[n]
          BY <1>5
        <5>4. d \in Entry /\ Loaded(d) /\ EntryUnit(d) = w /\ d.slot = j
          BY <1>6, <5>2, <5>3
        <5>5. Loaded(d)'
          BY <1>1, <5>1, <5>4, SetKeepsLoaded
        <5>6. Loaded(bw_list[n])'
          BY <5>3, <5>5 DEF Loaded
        <5> QED
          BY <1>5, <5>2, <5>6
      <4>2. ASSUME comp'[w][j] # NONE PROVE used'[w][j]
        <5>1. comp[w][j] # NONE /\ used'[w][j] = used[w][j]
          BY <1>4, <3>2, <4>2
        <5>2. comp[w][j] # NONE => used[w][j]
          BY <1>4 DEF Session
        <5> QED
          BY <5>1, <5>2
      <4> QED
        BY <4>1, <4>2
    <3> QED
      BY <3>1, <3>2
  <2>2. ASSUME NEW p \in lost' PROVE used'[p[1]][p[2]]
    <3>1. CASE p = <<u, i>>
      BY <1>4, <3>1
    <3>2. CASE p # <<u, i>>
      <4>1. p \in lost /\ p[1] \in Units /\ p[2] \in Slots(p[1]) /\ used[p[1]][p[2]]
        BY <1>4, <1>5, <3>2 DEF IInv, Types, Session
      <4> QED
        BY <1>4, <4>1
    <3> QED
      BY <3>1, <3>2
  <2>3. ASSUME NEW n \in 1..Len(bw_list'), Live(bw_list', granted', n)
        PROVE  (Strayed(bw_list[n]) \/ Holds(bw_list[n]))'
    BY <1>5, <1>8, <2>3 DEF Strayed
  <2>4. \A m, n \in 1..Len(bw_list') :
           /\ Live(bw_list', granted', m) /\ Live(bw_list', granted', n) /\ m # n
           /\ EntryUnit(bw_list'[m]) = EntryUnit(bw_list'[n])
           /\ ~Strayed(bw_list[m])' /\ ~Strayed(bw_list[n])'
           => bw_list'[m].slot # bw_list'[n].slot
    BY <1>4, <1>5 DEF Session, Strayed
  <2>5. ASSUME NEW r \in granted'
        PROVE  \E n \in 1..Len(bw_list') :
                  Live(bw_list', granted', n) /\ bw_list'[n].req = r
    BY <1>4, <1>5 DEF Session
  <2> QED
    BY <2>1, <2>2, <2>3, <2>4, <2>5 DEF Session
<1> QED
  BY <1>4, <1>5, <1>7, <1>9 DEF IInv, WatchReportIsLive


(***************************************************************************)
(* A clear finds the newest entry of the request.  If the request was      *)
(* granted that entry is live and no other unstrayed live entry shares its *)
(* slot; if not, the slot is a stray one from now on.                      *)
(***************************************************************************)
LEMMA ClearFrame ==
    ASSUME IInv, NEW k \in Requests, target_breakwatch_clear(k),
           NEW n, n = EntryFor(k), NEW u, u = UnitOf(k.type),
           NEW i, i = bw_list[n].slot
    PROVE  /\ n \in 1..Len(bw_list) /\ bw_list[n].req = k
           /\ EntryUnit(bw_list[n]) = u /\ u \in Units /\ i \in Slots(u)
           /\ \A m \in 1..Len(bw_list) :
                 Live(bw_list, granted, m) /\ m # n => bw_list[m].req # k
           /\ \A m \in 1..Len(bw_list) :
                 Live(bw_list, granted, m) /\ m # n =>
                    \/ <<EntryUnit(bw_list[m]), bw_list[m].slot>> \in stray'
                    \/ ~(EntryUnit(bw_list[m]) = u /\ bw_list[m].slot = i)
           /\ used' \in Table(BOOLEAN) /\ ~used'[u][i]
           /\ \A w \in Units : \A j \in Slots(w) :
                 w # u \/ j # i => used'[w][j] = used[w][j]
           /\ comp' \in Table(CompValues)
           /\ \A w \in Units : \A j \in Slots(w) :
                 comp'[w][j] = IF w = u /\ j = i /\ Implemented(u, i)
                               THEN NONE ELSE comp[w][j]
           /\ Session
<1>1. bw_list \in Seq(Entry) /\ Len(bw_list) \in Nat
      /\ DOMAIN bw_list = 1..Len(bw_list)
      /\ used \in Table(BOOLEAN) /\ comp \in Table(CompValues)
  BY DEF IInv, Types
<1>2. Session
  BY DEF target_breakwatch_clear, IInv
<1>3. u \in Units /\ NONE \in CompValues
  BY RequestFacts
<1>4. Matches(k) \subseteq Nat /\ Matches(k) # {}
  BY <1>1 DEF Matches, target_breakwatch_clear
<1>5. n \in Matches(k) /\ \A m \in Matches(k) : n <= m
  BY <1>4, FirstOfExists DEF EntryFor
<1>6. n \in 1..Len(bw_list) /\ bw_list[n].req = k /\ EntryUnit(bw_list[n]) = u
  BY <1>1, <1>5 DEF Matches, EntryUnit
<1>7. Newest(bw_list, n)
  <2>1. ASSUME NEW m \in 1..(n - 1) PROVE bw_list[m].req # bw_list[n].req
    <3>1. m \in 1..Len(bw_list) /\ ~(n <= m)
      BY <1>1, <1>6
    <3> QED
      BY <1>1, <1>5, <1>6, <3>1 DEF Matches
  <2> QED
    BY <2>1 DEF Newest
<1>8. i \in Slots(u)
  BY <1>6 DEF IInv, Types
<1>9. ASSUME NEW m \in 1..Len(bw_list), Live(bw_list, granted, m), m # n
      PROVE  bw_list[m].req # k
  <2>1. CASE m < n
    <3>1. m \in 1..(n - 1)
      BY <1>1, <1>6, <2>1
    <3> QED
      BY <1>6, <1>7, <3>1 DEF Newest
  <2>2. CASE n < m
    <3>1. n \in 1..(m - 1)
      BY <1>1, <1>6, <2>2
    <3> QED
      BY <1>6, <1>9, <3>1 DEF Live, Newest
  <2> QED
    BY <1>1, <1>6, <1>9, <2>1, <2>2
<1>10. stray' = IF k \in granted THEN stray ELSE stray \cup {<<u, i>>}
  BY DEF target_breakwatch_clear
<1>11. ASSUME NEW m \in 1..Len(bw_list), Live(bw_list, granted, m), m # n,
              EntryUnit(bw_list[m]) = u, bw_list[m].slot = i
       PROVE  <<EntryUnit(bw_list[m]), bw_list[m].slot>> \in stray'
  <2>1. CASE k \notin granted
    BY <1>10, <1>11, <2>1
  <2>2. CASE k \in granted
    <3>1. Live(bw_list, granted, n)
      BY <1>6, <1>7, <2>2 DEF Live
    <3>2. Strayed(bw_list[m]) \/ Strayed(bw_list[n])
      BY <1>2, <1>6, <1>11, <3>1 DEF Session
    <3>3. Strayed(bw_list[m])
      BY <1>6, <1>11, <3>2 DEF Strayed
    <3> QED
      BY <1>10, <2>2, <3>3 DEF Strayed
  <2> QED
    BY <2>1, <2>2
<1>12. used' = Updated(used, u, i, FALSE) /\ comp' = Load(comp, u, i, NONE)
  BY DEF target_breakwatch_clear, Updated
<1>13. PICK b \in BOOLEAN : b = FALSE
  OBVIOUS
<1>14. /\ used' \in Table(BOOLEAN) /\ ~used'[u][i]
       /\ \A w \in Units : \A j \in Slots(w) :
             w # u \/ j # i => used'[w][j] = used[w][j]
  <2>1. used' = Updated(used, u, i, b)
    BY <1>12, <1>13
  <2>2. /\ used' \in Table(BOOLEAN) /\ used'[u][i] = b
        /\ \A w \in Units : \A j \in Slots(w) :
              w # u \/ j # i => used'[w][j] = used[w][j]
    BY <1>1, <1>3, <1>8, <2>1, UsedSet
  <2> QED
    BY <1>13, <2>2
<1>15. /\ comp' \in Table(CompValues)
       /\ \A w \in Units : \A j \in Slots(w) :
             comp'[w][j] = IF w = u /\ j = i /\ Implemented(u, i)
                           THEN NONE ELSE comp[w][j]
  BY <1>1, <1>3, <1>8, <1>12, TableLoaded
<1> QED
  BY <1>2, <1>3, <1>6, <1>8, <1>9, <1>11, <1>14, <1>15


\* Removing entry n of s leaves the other live entries, in their order.
OthersLive(s, asked, p, left, n) ==
    /\ \A m \in 1..Len(p) : Live(p, left, m) =>
          \E x \in 1..Len(s) : /\ Live(s, asked, x) /\ x # n /\ p[m] = s[x]
                               /\ x = IF m < n THEN m ELSE m + 1
    /\ \A x \in 1..Len(s) : Live(s, asked, x) /\ x # n =>
          \E m \in 1..Len(p) : Live(p, left, m) /\ p[m] = s[x]

OthersAsk(s, asked, n, k) ==
    \A x \in 1..Len(s) : Live(s, asked, x) /\ x # n => s[x].req # k

LEMMA RemoveKeepsLive ==
    ASSUME NEW s \in Seq(Entry), NEW n \in 1..Len(s), NEW p, p = RemoveAt(s, n),
           NEW asked, NEW k, s[n].req = k, NEW left, left = asked \ {k},
           OthersAsk(s, asked, n, k)
    PROVE  OthersLive(s, asked, p, left, n)
<1>1. /\ Len(s) \in Nat /\ Len(p) = Len(s) - 1
      /\ \A m \in 1..Len(p) : p[m] = IF m < n THEN s[m] ELSE s[m + 1]
  <2>1. Len(s) \in Nat
    OBVIOUS
  <2>2. /\ Len(p) = Len(s) - 1
        /\ \A m \in 1..Len(p) : p[m] = IF m < n THEN s[m] ELSE s[m + 1]
    BY ListRemove, Zenon
  <2> QED
    BY <2>1, <2>2
<1>2. ASSUME NEW m \in 1..Len(p), Live(p, left, m)
      PROVE  \E x \in 1..Len(s) : /\ Live(s, asked, x) /\ x # n /\ p[m] = s[x]
                                  /\ x = IF m < n THEN m ELSE m + 1
  <2>1. PICK x : x = IF m < n THEN m ELSE m + 1
    OBVIOUS
  <2>2. x \in 1..Len(s) /\ x # n /\ p[m] = s[x]
    <3>1. CASE m < n
      BY <1>1, <2>1, <3>1
    <3>2. CASE ~(m < n)
      <4>1. x = m + 1 /\ p[m] = s[m + 1]
        BY <1>1, <2>1, <3>2
      <4>2. m + 1 \in 1..Len(s) /\ m + 1 # n
        BY <1>1, <3>2
      <4> QED
        BY <4>1, <4>2
    <3> QED
      BY <3>1, <3>2
  <2>3. s[x].req \in asked /\ s[x].req # k
    BY <1>2, <2>2 DEF Live
  <2>4. ASSUME NEW y \in 1..(x - 1) PROVE s[y].req # s[x].req
    <3>1. CASE y = n
      BY <2>3, <3>1
    <3>2. CASE y < n
      <4>1. y \in 1..(m - 1) /\ y \in 1..Len(p)
        BY <1>1, <2>1, <3>2
      <4>2. p[y] = s[y]
        BY <1>1, <3>2, <4>1
      <4> QED
        BY <1>2, <2>2, <4>1, <4>2 DEF Live, Newest
    <3>3. CASE n < y
      <4>1. y - 1 \in 1..(m - 1) /\ y - 1 \in 1..Len(p) /\ ~(y - 1 < n)
            /\ (y - 1) + 1 = y
        BY <1>1, <2>1, <3>3
      <4>2. p[y - 1] = s[y]
        BY <1>1, <4>1
      <4> QED
        BY <1>2, <2>2, <4>1, <4>2 DEF Live, Newest
    <3> QED
      BY <2>2, <3>1, <3>2, <3>3
  <2> QED
    BY <2>1, <2>2, <2>3, <2>4 DEF Live, Newest
<1>3. ASSUME NEW x \in 1..Len(s), Live(s, asked, x), x # n
      PROVE  \E m \in 1..Len(p) : Live(p, left, m) /\ p[m] = s[x]
  <2>1. PICK m : m = IF x < n THEN x ELSE x - 1
    OBVIOUS
  <2>2. m \in 1..Len(p) /\ x = IF m < n THEN m ELSE m + 1
    BY <1>1, <1>3, <2>1
  <2>3. p[m] = s[x]
    BY <1>1, <2>2
  <2>4. s[x].req \in asked \ {k}
    BY <1>3 DEF Live, OthersAsk
  <2>5. ASSUME NEW y \in 1..(m - 1) PROVE p[y].req # p[m].req
    <3>1. y \in 1..Len(p)
      BY <1>1, <2>2
    <3>2. CASE y < n
      <4>1. p[y] = s[y] /\ y \in 1..(x - 1)
        BY <1>1, <2>2, <3>1, <3>2
      <4> QED
        BY <1>3, <2>3, <4>1 DEF Live, Newest
    <3>3. CASE ~(y < n)
      <4>1. p[y] = s[y + 1] /\ y + 1 \in 1..(x - 1)
        BY <1>1, <2>2, <3>1, <3>3
      <4> QED
        BY <1>3, <2>3, <4>1 DEF Live, Newest
    <3> QED
      BY <3>2, <3>3
  <2> QED
    BY <2>2, <2>3, <2>4, <2>5 DEF Live, Newest
<1> QED
  BY <1>2, <1>3 DEF OthersLive

LEMMA ClearIInv ==
    ASSUME IInv, NEW k \in Requests, target_breakwatch_clear(k)
    PROVE  IInv'
<1>1. PICK n : n = EntryFor(k)
  OBVIOUS
<1>2. PICK u : u = UnitOf(k.type)
  OBVIOUS
<1>3. PICK i : i = bw_list[n].slot
  OBVIOUS
<1>4. stray \subseteq stray' /\ stray' \subseteq stray \cup {<<u, i>>}
  BY <1>1, <1>2, <1>3 DEF target_breakwatch_clear
<1>5. /\ n \in 1..Len(bw_list) /\ bw_list[n].req = k
      /\ EntryUnit(bw_list[n]) = u /\ u \in Units /\ i \in Slots(u)
      /\ \A m \in 1..Len(bw_list) :
            Live(bw_list, granted, m) /\ m # n => bw_list[m].req # k
      /\ \A m \in 1..Len(bw_list) :
            Live(bw_list, granted, m) /\ m # n =>
               \/ <<EntryUnit(bw_list[m]), bw_list[m].slot>> \in stray'
               \/ ~(EntryUnit(bw_list[m]) = u /\ bw_list[m].slot = i)
      /\ used' \in Table(BOOLEAN) /\ ~used'[u][i]
      /\ \A w \in Units : \A j \in Slots(w) :
            w # u \/ j # i => used'[w][j] = used[w][j]
      /\ comp' \in Table(CompValues)
      /\ \A w \in Units : \A j \in Slots(w) :
            comp'[w][j] = IF w = u /\ j = i /\ Implemented(u, i)
                          THEN NONE ELSE comp[w][j]
      /\ Session
  BY <1>1, <1>2, <1>3, ClearFrame
<1>6. /\ bw_list' = RemoveAt(bw_list, n) /\ granted' = granted \ {k}
      /\ attached' = attached /\ attached /\ max' = max /\ watched' = watched
      /\ matched' = matched /\ lost' = lost \ {<<u, i>>} /\ report' = NONE
  BY <1>1, <1>2, <1>3 DEF target_breakwatch_clear
<1>7. /\ bw_list \in Seq(Entry) /\ Len(bw_list) \in Nat
      /\ \A m \in 1..Len(bw_list) : bw_list[m] \in Entry
  BY DEF IInv, Types
<1>8. /\ bw_list' \in Seq(Entry) /\ Len(bw_list') = Len(bw_list) - 1
      /\ \A m \in 1..Len(bw_list') :
            bw_list'[m] = IF m < n THEN bw_list[m] ELSE bw_list[m + 1]
  BY <1>5, <1>6, <1>7, ListRemove
<1>9. /\ \A m \in 1..Len(bw_list') : Live(bw_list', granted', m) =>
            \E x \in 1..Len(bw_list) :
               /\ Live(bw_list, granted, x) /\ x # n /\ bw_list'[m] = bw_list[x]
               /\ x = IF m < n THEN m ELSE m + 1
      /\ \A x \in 1..Len(bw_list) : Live(bw_list, granted, x) /\ x # n =>
            \E m \in 1..Len(bw_list') :
               Live(bw_list', granted', m) /\ bw_list'[m] = bw_list[x]
  <2>1. OthersAsk(bw_list, granted, n, k)
    BY <1>5 DEF OthersAsk
  <2>2. bw_list[n].req = k /\ n \in 1..Len(bw_list)
    BY <1>5
  <2>3. OthersLive(bw_list, granted, bw_list', granted', n)
    BY <1>6, <1>7, <2>1, <2>2, RemoveKeepsLive
  <2> QED
    BY <2>3 DEF OthersLive
<1>10. Types'
  <2>1. \A m \in 1..Len(bw_list') : bw_list'[m].slot \in Slots(EntryUnit(bw_list'[m]))
    <3>1. \A m \in 1..Len(bw_list') : m \in 1..Len(bw_list) /\ m + 1 \in 1..Len(bw_list)
      BY <1>7, <1>8
    <3> QED
      BY <1>8, <3>1 DEF IInv, Types
  <2>2. Len(bw_list') <= ListBound
    BY <1>7, <1>8, RequestsAssumption DEF IInv, Types
  <2>3. \A p \in stray' : p[1] \in Units /\ p[2] \in Slots(p[1])
    BY <1>4, <1>5 DEF IInv, Types
  <2> QED
    BY <1>5, <1>6, <1>8, <2>1, <2>2, <2>3 DEF IInv, Types
<1>11. Sized'
  <2>1. ASSUME NEW w \in Units, NEW j \in Slots(w)
        PROVE  /\ used'[w][j] => j < SizedUnits[w]
               /\ comp'[w][j] # NONE => Implemented(w, j)
    BY <1>5 DEF IInv, Sized
  <2> QED
    BY <1>6, <2>1 DEF IInv, Sized
<1>12. ASSUME NEW d \in Entry, d.slot \in Slots(EntryUnit(d)), Loaded(d),
              ~(EntryUnit(d) = u /\ d.slot = i)
       PROVE  /\ Loaded(d)'
              /\ used'[EntryUnit(d)][d.slot] = used[EntryUnit(d)][d.slot]
  <2>1. EntryUnit(d) \in Units
    BY RequestFacts DEF Entry, EntryUnit
  <2>2. /\ used'[EntryUnit(d)][d.slot] = used[EntryUnit(d)][d.slot]
        /\ comp'[EntryUnit(d)][d.slot] = comp[EntryUnit(d)][d.slot]
    BY <1>5, <1>12, <2>1
  <2> QED
    BY <1>6, <1>12, <2>2 DEF Loaded
<1>13. Session'
  <2>1. ASSUME NEW r \in granted'
        PROVE  \E m \in 1..Len(bw_list') :
                  Live(bw_list', granted', m) /\ bw_list'[m].req = r
    <3>1. PICK x \in 1..Len(bw_list) : Live(bw_list, granted, x) /\ bw_list[x].req = r
      BY <1>5, <1>6 DEF Session
    <3>2. x # n
      BY <1>5, <1>6, <3>1
    <3> QED
      BY <1>9, <3>1, <3>2
  <2>2. ASSUME NEW m \in 1..Len(bw_list'), Live(bw_list', granted', m)
        PROVE  (Strayed(bw_list[m]) \/ Holds(bw_list[m]))'
    <3>1. PICK x \in 1..Len(bw_list) :
             Live(bw_list, granted, x) /\ x # n /\ bw_list'[m] = bw_list[x]
      BY <1>9, <2>2
    <3>2. PICK d : d = bw_list[x] /\ d = bw_list'[m]
      BY <3>1
    <3>3. ASSUME <<EntryUnit(d), d.slot>> \notin stray'
          PROVE  Holds(d)'
      <4>1. ~Strayed(d) /\ ~(EntryUnit(d) = u /\ d.slot = i)
        BY <1>4, <1>5, <3>1, <3>2, <3>3 DEF Strayed
      <4>2. d \in Entry /\ Holds(d)
        BY <1>5, <1>7, <3>1, <3>2, <4>1 DEF Session
      <4>3. /\ d.slot \in Slots(EntryUnit(d)) /\ Loaded(d)
            /\ <<EntryUnit(d), d.slot>> \notin lost
            /\ d.slot < max[EntryUnit(d)] /\ used[EntryUnit(d)][d.slot]
        BY <4>2 DEF Holds
      <4>4. /\ Loaded(d)'
            /\ used'[EntryUnit(d)][d.slot] = used[EntryUnit(d)][d.slot]
        BY <1>12, <4>1, <4>2, <4>3
      <4>5. <<EntryUnit(d), d.slot>> \notin lost'
        BY <1>6, <4>3
      <4> QED
        BY <1>6, <4>3, <4>4, <4>5 DEF Holds
    <3> QED
      BY <3>2, <3>3 DEF Holds, Loaded, Strayed
  <2>3. \A l, m \in 1..Len(bw_list') :
           /\ Live(bw_list', granted', l) /\ Live(bw_list', granted', m) /\ l # m
           /\ EntryUnit(bw_list'[l]) = EntryUnit(bw_list'[m])
           /\ ~Strayed(bw_list[l])' /\ ~Strayed(bw_list[m])'
           => bw_list'[l].slot # bw_list'[m].slot
    <3> SUFFICES ASSUME NEW l \in 1..Len(bw_list'), NEW m \in 1..Len(bw_list'),
                        Live(bw_list', granted', l), Live(bw_list', granted', m),
                        l # m, EntryUnit(bw_list'[l]) = EntryUnit(bw_list'[m]),
                        ~Strayed(bw_list[l])', ~Strayed(bw_list[m])'
                 PROVE  bw_list'[l].slot # bw_list'[m].slot
      OBVIOUS
    <3>1. PICK x \in 1..Len(bw_list) :
             /\ Live(bw_list, granted, x) /\ bw_list'[l] = bw_list[x]
             /\ x = IF l < n THEN l ELSE l + 1
      BY <1>9
    <3>2. PICK y \in 1..Len(bw_list) :
             /\ Live(bw_list, granted, y) /\ bw_list'[m] = bw_list[y]
             /\ y = IF m < n THEN m ELSE m + 1
      BY <1>9
    <3>3. x # y
      BY <1>5, <1>7, <1>8, <3>1, <3>2
    <3>4. /\ EntryUnit(bw_list[x]) = EntryUnit(bw_list[y])
          /\ ~Strayed(bw_list[x]) /\ ~Strayed(bw_list[y])
      BY <1>4, <3>1, <3>2 DEF Strayed
    <3>5. \A b, c \in 1..Len(bw_list) :
             /\ Live(bw_list, granted, b) /\ Live(bw_list, granted, c) /\ b # c
             /\ EntryUnit(bw_list[b]) = EntryUnit(bw_list[c])
             /\ ~Strayed(bw_list[b]) /\ ~Strayed(bw_list[c])
             => bw_list[b].slot # bw_list[c].slot
      BY <1>5 DEF Session
    <3>6. bw_list[x].slot # bw_list[y].slot
      BY <3>1, <3>2, <3>3, <3>4, <3>5, Zenon
    <3> QED
      BY <3>1, <3>2, <3>6
  <2>4. ASSUME NEW w \in Units, NEW j \in Slots(w), used'[w][j]
        PROVE  \/ <<w, j>> \in lost'
               \/ \E m \in 1..Len(bw_list') :
                     /\ Live(bw_list', granted', m)
                     /\ EntryUnit(bw_list'[m]) = w /\ bw_list'[m].slot = j
                     /\ Loaded(bw_list[m])'
    <3>1. ~(w = u /\ j = i) /\ used[w][j]
      BY <1>5, <2>4
    <3>2. CASE <<w, j>> \in lost
      BY <1>6, <3>1, <3>2
    <3>3. CASE <<w, j>> \notin lost
      <4>1. PICK x \in 1..Len(bw_list) :
               /\ Live(bw_list, granted, x)
               /\ EntryUnit(bw_list[x]) = w /\ bw_list[x].slot = j
               /\ Loaded(bw_list[x])
        BY <1>5, <3>1, <3>3 DEF Session
      <4>2. x # n
        BY <1>3, <1>5, <3>1, <4>1
      <4>3. PICK m \in 1..Len(bw_list') :
               Live(bw_list', granted', m) /\ bw_list'[m] = bw_list[x]
        BY <1>9, <4>1, <4>2
      <4>4. PICK d : d = bw_list[x] /\ d = bw_list'[m]
        BY <4>3
      <4>5. d \in Entry /\ Loaded(d) /\ EntryUnit(d) = w /\ d.slot = j
        BY <1>7, <4>1, <4>4
      <4>6. Loaded(d)'
        BY <1>12, <3>1, <4>5
      <4>7. Loaded(bw_list[m])'
        BY <4>4, <4>6 DEF Loaded
      <4> QED
        BY <4>3, <4>4, <4>5, <4>7
    <3> QED
      BY <3>2, <3>3
  <2>5. ASSUME NEW w \in Units, NEW j \in Slots(w), comp'[w][j] # NONE
        PROVE  used'[w][j]
    <3>1. CASE w = u /\ j = i
      <4>1. ~Implemented(u, i) => comp[u][i] = NONE
        BY <1>5 DEF IInv, Sized
      <4> QED
        BY <1>5, <2>5, <3>1, <4>1
    <3>2. CASE ~(w = u /\ j = i)
      <4>1. comp[w][j] # NONE /\ used'[w][j] = used[w][j]
        BY <1>5, <2>5, <3>2
      <4>2. comp[w][j] # NONE => used[w][j]
        BY <1>5 DEF Session
      <4> QED
        BY <4>1, <4>2
    <3> QED
      BY <3>1, <3>2
  <2>6. ASSUME NEW p \in lost' PROVE used'[p[1]][p[2]]
    <3>1. /\ p \in lost /\ p # <<u, i>>
          /\ p[1] \in Units /\ p[2] \in Slots(p[1]) /\ used[p[1]][p[2]]
      BY <1>5, <1>6 DEF IInv, Types, Session
    <3>2. ~(p[1] = u /\ p[2] = i)
      <4>1. p = <<p[1], p[2]>>
        BY <3>1 DEF IInv, Types
      <4> QED
        BY <1>5, <3>1, <4>1
    <3> QED
      BY <1>5, <3>1, <3>2
  <2> QED
    BY <2>1, <2>2, <2>3, <2>4, <2>5, <2>6 DEF Session
<1> QED
  BY <1>6, <1>10, <1>11, <1>13 DEF IInv, WatchReportIsLive


LEMMA WatchHitIInv ==
    ASSUME IInv, NEW S \in SUBSET Slots("dwt"), WatchHit(S)
    PROVE  IInv'
<1>1. PICK M : M = matched \cup S
  OBVIOUS
<1>2. PICK hit : hit = CheckWatchSlots(M)
  OBVIOUS
<1>3. /\ attached /\ \A i \in S : comp["dwt"][i] # NONE
      /\ matched' = M \ {i \in hit : \A j \in hit : i <= j} /\ S # {}
      /\ report' = IF hit = {} THEN 0 ELSE watched[FirstOf(hit)]
      /\ UNCHANGED <<attached, bw_list, max, used, comp, watched, granted, lost,
                     stray>>
  BY <1>1, <1>2 DEF WatchHit
<1>4. "dwt" \in Units
  BY DEF Units
<1>5. M \subseteq Slots("dwt") /\ \A i \in M : Implemented("dwt", i)
  BY <1>1, <1>3, <1>4 DEF IInv, Types, Sized
<1>6. matched' \subseteq M
  BY <1>3
<1>7. Types' /\ Sized'
  <2>1. matched' \subseteq Slots("dwt") /\ \A i \in matched' : Implemented("dwt", i)
    BY <1>5, <1>6
  <2> QED
    BY <1>3, <2>1 DEF IInv, Types, Sized
<1>8. Session /\ Session'
  BY <1>3 DEF IInv, Session, Holds, Loaded, Strayed
<1>9. WatchReportIsLive'
  <2>1. hit # {}
    <3>1. PICK i : i \in S
      BY <1>3
    <3>2. i \in Slots("dwt") /\ comp["dwt"][i] # NONE
      BY <1>3, <3>1
    <3>3. used["dwt"][i]
      BY <1>4, <1>8, <3>2 DEF Session
    <3>4. i < max["dwt"]
      BY <1>3, <1>4, <3>2, <3>3 DEF IInv, Sized
    <3> QED
      BY <1>1, <1>2, <3>1, <3>3, <3>4 DEF CheckWatchSlots
  <2> QED
    <3>1. PICK i : i = FirstOf(hit)
      OBVIOUS
    <3>2. hit \subseteq Nat
      BY <1>2, <1>4, <1>5, SizeFacts DEF CheckWatchSlots
    <3>3. i \in hit
      BY <2>1, <3>1, <3>2, FirstOfExists
    <3>4. i \in M /\ used["dwt"][i]
      BY <1>2, <3>3 DEF CheckWatchSlots
    <3>5. i \in Slots("dwt") /\ Implemented("dwt", i) /\ report' = watched[i]
      BY <1>3, <1>5, <2>1, <3>1, <3>4
    <3>6. CASE <<"dwt", i>> \in lost
      <4>1. <<"dwt", i>>[1] = "dwt" /\ <<"dwt", i>>[2] = i
        OBVIOUS
      <4> QED
        BY <1>3, <3>5, <3>6, <4>1 DEF WatchReportIsLive
    <3>7. CASE <<"dwt", i>> \notin lost
      <4>1. PICK n \in 1..Len(bw_list) :
               /\ Live(bw_list, granted, n)
               /\ EntryUnit(bw_list[n]) = "dwt" /\ bw_list[n].slot = i
               /\ Loaded(bw_list[n])
        BY <1>4, <1>8, <3>4, <3>5, <3>7 DEF Session
      <4>2. watched[i] = bw_list[n].req.addr
        BY <3>5, <4>1 DEF Loaded
      <4>3. PICK k \in granted : k = bw_list[n].req
        BY <4>1 DEF Live
      <4>4. k \in Requests /\ k.type \notin OtherTypes /\ UnitOf(k.type) = "dwt"
        BY <4>1, <4>3 DEF IInv, Types, EntryUnit
      <4>5. k.type \in WatchTypes
        BY <4>4, RequestFacts
      <4> QED
        BY <1>3, <3>5, <4>2, <4>3, <4>5 DEF WatchReportIsLive
    <3> QED
      BY <3>6, <3>7
<1> QED
  BY <1>7, <1>8, <1>9 DEF IInv

LEMMA NextIInv ==
    ASSUME IInv, [Next]_vars
    PROVE  IInv'
<1>1. ASSUME NEW ok \in BOOLEAN, Attach(ok) PROVE IInv'
  BY <1>1, AttachIInv
<1>2. CASE Detach
  BY <1>2, DetachIInv
<1>3. CASE Rescan
  BY <1>3, RescanIInv
<1>4. ASSUME NEW k \in Requests, NEW allocOk \in BOOLEAN,
             target_breakwatch_set(k, allocOk)
      PROVE  IInv'
  <2>1. target_breakwatch_set(k, TRUE) \/ target_breakwatch_set(k, FALSE)
    BY <1>4
  <2> QED
    BY <2>1, SetGrantedIInv, SetLostIInv
<1>5. ASSUME NEW k \in Requests, SetRefused(k) PROVE IInv'
  BY <1>5, SetRefusedIInv
<1>6. ASSUME NEW k \in Requests, target_breakwatch_clear(k) PROVE IInv'
  BY <1>6, ClearIInv
<1>7. ASSUME NEW S \in SUBSET Slots("dwt"), WatchHit(S) PROVE IInv'
  BY <1>7, WatchHitIInv
<1>8. CASE UNCHANGED vars
  <2>1. Types' /\ Sized' /\ WatchReportIsLive'
    BY <1>8 DEF IInv, Types, Sized, WatchReportIsLive, vars
  <2>2. (attached => Session)'
    BY <1>8 DEF IInv, Session, Holds, Loaded, Strayed, vars
  <2> QED
    BY <2>1, <2>2 DEF IInv
<1> QED
  BY <1>1, <1>2, <1>3, <1>4, <1>5, <1>6, <1>7, <1>8 DEF Next

LEMMA SpecIInv == Spec => []IInv
<1>1. IInv /\ [Next]_vars => IInv'
  BY NextIInv
<1> QED
  BY <1>1, InitIInv, PTL DEF Spec

(***************************************************************************)
(* The list, the tables and the comparators keep their types through every *)
(* sequence of attaches, sets, clears, detaches and scans.                 *)
(***************************************************************************)
THEOREM BreakwatchTypeOK == Spec => []TypeOK
<1>1. ASSUME IInv PROVE TypeOK
  <2>1. bw_list \in Seq(Entry) /\ DOMAIN bw_list = 1..Len(bw_list)
    BY <1>1 DEF IInv, Types
  <2>2. ASSUME NEW n \in DOMAIN bw_list
        PROVE  /\ bw_list[n].req \in Requests
               /\ bw_list[n].slot \in Slots(UnitOf(bw_list[n].req.type))
    <3>1. n \in 1..Len(bw_list) /\ bw_list[n] \in Entry
      BY <2>1
    <3>2. bw_list[n].slot \in Slots(EntryUnit(bw_list[n]))
      BY <1>1, <3>1 DEF IInv, Types
    <3> QED
      BY <3>1, <3>2 DEF Entry, EntryUnit
  <2>3. ASSUME NEW u \in Units PROVE max[u] \in 0..MaxSlots[u]
    BY <1>1, SizeFacts, UnitsAssumption DEF IInv, Sized
  <2>4. ASSUME NEW u \in Units
        PROVE  used[u] \in [Slots(u) -> BOOLEAN] /\ comp[u] \in [Slots(u) -> CompValues]
    BY <1>1 DEF IInv, Types, Table
  <2>5. \A u \in Units : \A i \in Slots(u) :
           comp[u][i] \in {NONE} \cup {Encoded(k) : k \in Requests}
    BY <2>4 DEF CompValues
  <2> QED
    BY <1>1, <2>2, <2>3, <2>4, <2>5 DEF TypeOK, IInv, Types
<1> QED
  BY <1>1, SpecIInv, PTL

(***************************************************************************)
(* While GDB is attached the target stops on nothing it did not ask for:   *)
(* cortexm_attach clears what earlier sessions left in the comparators and *)
(* target_breakwatch_clear disables the comparator of the right entry.     *)
(***************************************************************************)
THEOREM ArmedWasGranted == Spec => []ArmedIsGranted
<1>1. ASSUME IInv PROVE ArmedIsGranted
  <2> SUFFICES ASSUME attached, NEW u \in Units, NEW i \in Slots(u),
                      comp[u][i] # NONE, <<u, i>> \notin lost
               PROVE  \E k \in granted : UnitOf(k.type) = u /\ comp[u][i] = Encoded(k)
    BY DEF ArmedIsGranted
  <2>1. Session /\ Implemented(u, i)
    BY <1>1 DEF IInv, Sized
  <2>2. used[u][i]
    BY <2>1 DEF Session
  <2>3. PICK n \in 1..Len(bw_list) :
           /\ Live(bw_list, granted, n)
           /\ EntryUnit(bw_list[n]) = u /\ bw_list[n].slot = i
           /\ Loaded(bw_list[n])
    BY <2>1, <2>2 DEF Session
  <2>4. comp[u][i] = Encoded(bw_list[n].req)
    BY <2>1, <2>3 DEF Loaded
  <2> QED
    BY <2>3, <2>4 DEF Live, EntryUnit
<1> QED
  BY <1>1, SpecIInv, PTL

(***************************************************************************)
(* No slot is leaked: a taken slot of hw_breakpoint[] or hw_watchpoint[]   *)
(* is that of a listed entry of this session, or was lost to a failed      *)
(* allocation in target_breakwatch_set.                                    *)
(***************************************************************************)
THEOREM TakenWasGranted == Spec => []TakenIsGranted
<1>1. ASSUME IInv PROVE TakenIsGranted
  <2> SUFFICES ASSUME attached, NEW u \in Units, NEW i \in Slots(u),
                      used[u][i], <<u, i>> \notin lost
               PROVE  \E n \in DOMAIN bw_list :
                         /\ bw_list[n].slot = i
                         /\ UnitOf(bw_list[n].req.type) = u
                         /\ bw_list[n].req \in granted
    BY DEF TakenIsGranted
  <2>1. Session /\ DOMAIN bw_list = 1..Len(bw_list)
    BY <1>1 DEF IInv, Types
  <2>2. PICK n \in 1..Len(bw_list) :
           /\ Live(bw_list, granted, n)
           /\ EntryUnit(bw_list[n]) = u /\ bw_list[n].slot = i
    BY <2>1 DEF Session
  <2> QED
    BY <2>1, <2>2 DEF Live, EntryUnit
<1> QED
  BY <1>1, SpecIInv, PTL

(***************************************************************************)
(* The address cortexm_check_watch puts in a stop reply is one GDB watches *)
(* now, although MATCHED stays latched in slots that were cleared.         *)
(***************************************************************************)
THEOREM WatchReportsAreLive == Spec => []WatchReportIsLive
<1>1. IInv => WatchReportIsLive
  BY DEF IInv
<1> QED
  BY <1>1, SpecIInv, PTL

(***************************************************************************)
(* Every breakpoint and watchpoint GDB was told OK about and did not clear *)
(* is loaded in a comparator, on a target with any number of comparators   *)
(* and for a client that sends z packets in any order, but for the slots   *)
(* cortexm_attach counts and the silicon does not have, and those that a z *)
(* packet for an entry of an earlier session freed.                        *)
(***************************************************************************)
THEOREM GrantedStaysArmed == Spec => []GrantedIsArmed
<1>1. ASSUME IInv PROVE GrantedIsArmed
  <2> SUFFICES ASSUME attached, NEW k \in granted,
                      ~OnMissing(k), Slot(k) \notin stray
               PROVE  Armed(k)
    BY DEF GrantedIsArmed
  <2>1. Session /\ k \in Requests /\ bw_list \in Seq(Entry)
        /\ DOMAIN bw_list = 1..Len(bw_list) /\ Len(bw_list) \in Nat
    BY <1>1 DEF IInv, Types
  <2>2. PICK n \in 1..Len(bw_list) : Live(bw_list, granted, n) /\ bw_list[n].req = k
    BY <2>1 DEF Session
  <2>3. n = FirstOf(Matches(k))
    <3>1. Matches(k) \subseteq Nat /\ n \in Matches(k)
      BY <2>1, <2>2 DEF Matches
    <3>2. PICK m : m = FirstOf(Matches(k))
      OBVIOUS
    <3>3. m \in Matches(k) /\ m <= n
      BY <3>1, <3>2, FirstOfExists
    <3>4. m \in 1..Len(bw_list) /\ bw_list[m].req = k
      BY <2>1, <3>3 DEF Matches
    <3>5. ~(m < n)
      <4>1. m < n => m \in 1..(n - 1)
        BY <2>1, <3>4
      <4> QED
        BY <2>2, <3>4, <4>1 DEF Live, Newest
    <3> QED
      BY <2>1, <3>2, <3>3, <3>4, <3>5
  <2>4. PICK u \in Units : u = UnitOf(k.type) /\ u = EntryUnit(bw_list[n])
    BY <2>1, <2>2, RequestFacts DEF EntryUnit
  <2>5. Slot(k) = <<u, bw_list[n].slot>>
    BY <2>3, <2>4 DEF Slot
  <2>6. Holds(bw_list[n])
    BY <2>1, <2>2, <2>4, <2>5 DEF Session, Strayed
  <2>7. PICK i \in Slots(u) : i = bw_list[n].slot
    BY <2>4, <2>6 DEF Holds
  <2>8. Implemented(u, i)
    BY <2>5, <2>7 DEF OnMissing
  <2>9. comp[u][i] = Encoded(k)
    BY <2>2, <2>4, <2>6, <2>7, <2>8 DEF Holds, Loaded
  <2> QED
    BY <2>4, <2>9 DEF Armed
<1> QED
  BY <1>1, SpecIInv, PTL
=============================================================================
