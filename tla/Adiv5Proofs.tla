---------------------------- MODULE Adiv5Proofs -----------------------------
(***************************************************************************)
(* Proofs about the target scan, for any sizes of the pools of DPs, APs    *)
(* and targets, any number of devices on the bus and any number of         *)
(* failures that lose a reference.                                         *)
(***************************************************************************)
EXTENDS Adiv5, FiniteSetTheorems, TLAPS

Heap == [dps : SUBSET DPs, aps : SUBSET APs, dpref : [DPs -> Nat],
         apref : [APs -> Nat], apdp : [APs -> DPs \cup {None}],
         bad : BOOLEAN]

One(p) == IF p THEN 1 ELSE 0

\* The targets of the list that were probed on a, those of them that give
\* their reference back, and the APs of d that hold a reference to it.
Holders(l, a) == {t \in Targets : l[t] # None /\ l[t].ap = a}
Owners(l, a) == {t \in Targets : l[t] = [ap |-> a, kind |-> "owner"]}
OnDp(h, d) == {a \in h.aps : h.apdp[a] = d /\ h.apref[a] > 0}

\* The DP whose count holds the reference of adiv5_dp_init: dp, once it is
\* powered up.
HeldDp == IF pc = "init" THEN None ELSE dp

\* How many hold AP a, and how many of them give it back, p being the AP that
\* adiv5_dp_init works on; how many hold DP d, q being the DP it holds.
HoldN(l, p, a) == Cardinality(Holders(l, a)) + One(p = a)
OwnN(l, p, a) == Cardinality(Owners(l, a)) + One(p = a)
DpN(h, q, d) == Cardinality(OnDp(h, d)) + One(q = d)

(***************************************************************************)
(* The blocks with a reference that nobody gives back any more.  They are  *)
(* what the failures counted by losses leave; a block nobody can reach is  *)
(* one of them.                                                            *)
(***************************************************************************)
LeakyAps ==
    {a \in heap.aps :
        heap.apref[a] = 0 \/ heap.apref[a] > OwnN(list, ap, a)}
LeakyDps ==
    {d \in heap.dps :
        \/ heap.dpref[d] = 0 /\ d # dp
        \/ heap.dpref[d] > DpN(heap, HeldDp, d)
        \/ \E a \in LeakyAps : heap.apdp[a] = d}

(***************************************************************************)
(* Where the scan is decides what adiv5_dp_init holds.                     *)
(***************************************************************************)
ScanState ==
    /\ pc \in {"idle", "free", "select"} => dp = None
    /\ pc \in {"init", "aps", "probe"} => dp # None /\ next < Count
    /\ pc \in {"idle", "free", "select", "init", "aps"} => ap = None
    /\ pc = "probe" => ap # None /\ apsel < ApSels
    /\ pc = "init" => heap.dpref[dp] = 0
    /\ dp # None => dp \in heap.dps
    /\ ap # None => ap \in heap.aps /\ heap.apdp[ap] = dp

(***************************************************************************)
(* No count is below the number of its holders.  An AP without a reference *)
(* (its target could not be allocated) is on a DP without one, which then  *)
(* no adiv5_dp_unref can free under it.                                    *)
(***************************************************************************)
Counted ==
    /\ \A t \in Listed : list[t].ap \in heap.aps
    /\ \A a \in heap.aps : heap.apdp[a] \in heap.dps
    /\ \A a \in heap.aps : heap.apref[a] >= HoldN(list, ap, a)
    /\ \A d \in heap.dps : heap.dpref[d] >= DpN(heap, HeldDp, d)
    /\ \A a \in heap.aps :
          heap.apref[a] = 0 => /\ heap.dpref[heap.apdp[a]] = 0
                               /\ heap.apdp[a] # dp

LeaksCounted ==
    /\ Cardinality(LeakyAps) <= losses
    /\ Cardinality(LeakyDps) <= losses

IInv == TypeOK /\ ~heap.bad /\ ScanState /\ Counted /\ LeaksCounted

-----------------------------------------------------------------------------
(***************************************************************************)
(* What the operations on the counts do to a heap in which the block they  *)
(* are given is allocated and, for an unref, referenced.                   *)
(***************************************************************************)

LEMMA DpRefFields ==
    ASSUME NEW h \in Heap, NEW d \in h.dps
    PROVE  /\ DpRef(h, d) \in Heap
           /\ DpRef(h, d) = [h EXCEPT !.dpref = [h.dpref EXCEPT ![d] = @ + 1]]
BY DEF DpRef, Heap

LEMMA DpUnrefFields ==
    ASSUME NEW h \in Heap, NEW d \in h.dps, h.dpref[d] > 0,
           NEW g, g = adiv5_dp_unref(h, d)
    PROVE  /\ g \in Heap
           /\ g.bad = h.bad /\ g.aps = h.aps
           /\ g.apref = h.apref /\ g.apdp = h.apdp
           /\ g.dpref = [h.dpref EXCEPT ![d] = @ - 1]
           /\ g.dps = IF h.dpref[d] = 1 THEN h.dps \ {d} ELSE h.dps
<1> DEFINE less == [h EXCEPT !.dpref[d] = @ - 1]
<1>1. /\ less \in Heap /\ less.dps = h.dps
      /\ less.dpref = [h.dpref EXCEPT ![d] = @ - 1]
      /\ less.bad = h.bad /\ less.aps = h.aps
      /\ less.apref = h.apref /\ less.apdp = h.apdp
  BY DEF Heap
<1>2. less.dpref[d] = h.dpref[d] - 1
  BY <1>1 DEF Heap
<1>3. g = IF less.dpref[d] = 0 THEN [less EXCEPT !.dps = @ \ {d}] ELSE less
  BY <1>1 DEF adiv5_dp_unref, FreeDp
<1> HIDE DEF less
<1>4. CASE h.dpref[d] = 1
  BY <1>1, <1>2, <1>3, <1>4 DEF Heap
<1>5. CASE h.dpref[d] # 1
  BY <1>1, <1>2, <1>3, <1>5 DEF Heap
<1> QED
  BY <1>4, <1>5

LEMMA ApRefFields ==
    ASSUME NEW h \in Heap, NEW a \in h.aps, h.apref[a] > 0,
           NEW g, g = adiv5_ap_ref(h, a)
    PROVE  /\ g \in Heap
           /\ g.bad = h.bad /\ g.aps = h.aps /\ g.apdp = h.apdp
           /\ g.dps = h.dps /\ g.dpref = h.dpref
           /\ g.apref = [h.apref EXCEPT ![a] = @ + 1]
BY DEF adiv5_ap_ref, Heap

LEMMA NewApFields ==
    ASSUME heap \in Heap, NEW a \in APs \ heap.aps, dp \in heap.dps,
           NEW g, g = adiv5_ap_ref(AllocAp(a), a)
    PROVE  /\ g \in Heap
           /\ g.bad = heap.bad /\ g.dps = heap.dps
           /\ g.aps = heap.aps \cup {a}
           /\ g.apdp = [heap.apdp EXCEPT ![a] = dp]
           /\ g.apref = [heap.apref EXCEPT ![a] = 1]
           /\ g.dpref = [heap.dpref EXCEPT ![dp] = @ + 1]
<1> DEFINE h == AllocAp(a)
<1>1. /\ h \in Heap /\ h.bad = heap.bad /\ h.dps = heap.dps
      /\ h.aps = heap.aps \cup {a}
      /\ h.apdp = [heap.apdp EXCEPT ![a] = dp]
      /\ h.apref = [heap.apref EXCEPT ![a] = 0]
      /\ h.dpref = heap.dpref
  BY DEF AllocAp, Heap
<1>2. a \in h.aps /\ h.apref[a] = 0 /\ h.apdp[a] = dp
  BY <1>1 DEF Heap
<1> HIDE DEF h
<1>3. g = [DpRef(h, dp) EXCEPT !.apref[a] = @ + 1]
  BY <1>2 DEF adiv5_ap_ref, h
<1>4. /\ DpRef(h, dp) \in Heap
      /\ DpRef(h, dp) = [h EXCEPT !.dpref = [h.dpref EXCEPT ![dp] = @ + 1]]
  BY <1>1, DpRefFields
<1> DEFINE r == DpRef(h, dp)
<1>5. /\ r \in Heap /\ r.bad = h.bad /\ r.dps = h.dps /\ r.aps = h.aps
      /\ r.apdp = h.apdp /\ r.apref = h.apref
      /\ r.dpref = [h.dpref EXCEPT ![dp] = @ + 1]
  BY <1>1, <1>4 DEF Heap
<1> HIDE DEF r
<1>6. /\ g \in Heap /\ g.bad = r.bad /\ g.dps = r.dps /\ g.aps = r.aps
      /\ g.apdp = r.apdp /\ g.dpref = r.dpref
      /\ g.apref = [r.apref EXCEPT ![a] = @ + 1]
  BY <1>3, <1>5 DEF Heap, r
<1>7. g.apref = [heap.apref EXCEPT ![a] = 1]
  BY <1>1, <1>5, <1>6 DEF Heap
<1> QED
  BY <1>1, <1>5, <1>6, <1>7

\* The last reference to an AP frees it and drops its reference to the DP.
LEMMA ApUnrefFields ==
    ASSUME NEW h \in Heap, NEW a \in h.aps, h.apref[a] > 0,
           h.apdp[a] \in h.dps, h.dpref[h.apdp[a]] > 0,
           NEW g, g = adiv5_ap_unref(h, a)
    PROVE  /\ g \in Heap
           /\ g.bad = h.bad /\ g.apdp = h.apdp
           /\ g.apref = [h.apref EXCEPT ![a] = @ - 1]
           /\ h.apref[a] > 1 =>
                /\ g.aps = h.aps /\ g.dps = h.dps /\ g.dpref = h.dpref
           /\ h.apref[a] = 1 =>
                /\ g.aps = h.aps \ {a}
                /\ g.dpref = [h.dpref EXCEPT ![h.apdp[a]] = @ - 1]
                /\ g.dps = IF h.dpref[h.apdp[a]] = 1
                           THEN h.dps \ {h.apdp[a]} ELSE h.dps
<1> DEFINE less == [h EXCEPT !.apref[a] = @ - 1]
           d == h.apdp[a]
           u == adiv5_dp_unref(less, d)
<1>1. /\ less \in Heap /\ less.dps = h.dps /\ less.dpref = h.dpref
      /\ less.bad = h.bad /\ less.aps = h.aps /\ less.apdp = h.apdp
      /\ less.apref = [h.apref EXCEPT ![a] = @ - 1]
  BY DEF Heap
<1>2. less.apref[a] = h.apref[a] - 1
  BY <1>1 DEF Heap
<1>3. g = IF less.apref[a] = 0 THEN [u EXCEPT !.aps = @ \ {a}] ELSE less
  BY DEF adiv5_ap_unref
<1> HIDE DEF less
<1>4. /\ u \in Heap /\ u.bad = h.bad /\ u.aps = h.aps
      /\ u.apref = less.apref /\ u.apdp = h.apdp
      /\ u.dpref = [h.dpref EXCEPT ![d] = @ - 1]
      /\ u.dps = IF h.dpref[d] = 1 THEN h.dps \ {d} ELSE h.dps
  BY <1>1, DpUnrefFields
<1> HIDE DEF u, d
<1>5. CASE h.apref[a] = 1
  BY <1>1, <1>2, <1>3, <1>4, <1>5 DEF Heap, d
<1>6. CASE h.apref[a] # 1
  <2>1. h.apref[a] \in Nat /\ h.apref[a] > 1 /\ less.apref[a] # 0
    BY <1>2, <1>6 DEF Heap
  <2>2. g = less
    BY <1>3, <2>1
  <2> QED
    BY <1>1, <1>6, <2>1, <2>2
<1> QED
  BY <1>5, <1>6

-----------------------------------------------------------------------------
(***************************************************************************)
(* How many targets hold an AP, when the list gains or loses a target.     *)
(***************************************************************************)
Lists == [Targets -> Target \cup {None}]

LEMMA HoldersFinite ==
    ASSUME NEW l, NEW a
    PROVE  /\ IsFiniteSet(Holders(l, a)) /\ Cardinality(Holders(l, a)) \in Nat
           /\ IsFiniteSet(Owners(l, a)) /\ Cardinality(Owners(l, a)) \in Nat
<1>1. Holders(l, a) \subseteq Targets /\ Owners(l, a) \subseteq Targets
  BY DEF Holders, Owners
<1> QED
  BY <1>1, ScanAssumption, FS_Subset, FS_CardinalityType

LEMMA OwnersAreHolders ==
    ASSUME NEW l \in Lists, NEW a \in APs
    PROVE  Cardinality(Owners(l, a)) <= Cardinality(Holders(l, a))
<1>1. Owners(l, a) \subseteq Holders(l, a)
  BY ScanAssumption DEF Holders, Owners, Lists, Target, Kinds
<1> QED
  BY <1>1, HoldersFinite, FS_Subset

LEMMA AddTarget ==
    ASSUME NEW l \in Lists, NEW t \in Targets, l[t] = None, NEW r \in Target,
           NEW b \in APs
    PROVE  LET m == [l EXCEPT ![t] = r] IN
           /\ m \in Lists
           /\ Cardinality(Holders(m, b)) =
                 Cardinality(Holders(l, b)) + One(b = r.ap)
           /\ Cardinality(Owners(m, b)) =
                 Cardinality(Owners(l, b)) + One(b = r.ap /\ r.kind = "owner")
<1> DEFINE m == [l EXCEPT ![t] = r]
<1>1. r # None /\ m \in Lists /\ m[t] = r
      /\ \A u \in Targets \ {t} : m[u] = l[u]
  BY ScanAssumption DEF Lists
<1>2. t \notin Holders(l, b) /\ t \notin Owners(l, b)
  BY ScanAssumption DEF Holders, Owners, Target, Kinds
<1>3. Holders(m, b) = IF b = r.ap THEN Holders(l, b) \cup {t} ELSE Holders(l, b)
  BY <1>1, <1>2 DEF Holders
<1>4. r = [ap |-> r.ap, kind |-> r.kind]
  BY DEF Target
<1>5. Owners(m, b) = IF b = r.ap /\ r.kind = "owner" THEN Owners(l, b) \cup {t}
                                                    ELSE Owners(l, b)
  BY <1>1, <1>2, <1>4 DEF Owners
<1>6. /\ IsFiniteSet(Holders(l, b)) /\ Cardinality(Holders(l, b)) \in Nat
      /\ IsFiniteSet(Owners(l, b)) /\ Cardinality(Owners(l, b)) \in Nat
  BY HoldersFinite
<1>7. /\ Cardinality(Holders(l, b) \cup {t}) = Cardinality(Holders(l, b)) + 1
      /\ Cardinality(Owners(l, b) \cup {t}) = Cardinality(Owners(l, b)) + 1
  BY <1>2, <1>6, FS_AddElement
<1> QED
  BY <1>1, <1>3, <1>5, <1>6, <1>7 DEF One

LEMMA RemoveTarget ==
    ASSUME NEW l \in Lists, NEW t \in Targets, l[t] # None,
           NEW b \in APs
    PROVE  LET m == [l EXCEPT ![t] = None] IN
           /\ m \in Lists /\ l[t] \in Target
           /\ Cardinality(Holders(l, b)) =
                 Cardinality(Holders(m, b)) + One(b = l[t].ap)
           /\ Cardinality(Owners(l, b)) =
                 Cardinality(Owners(m, b))
                     + One(b = l[t].ap /\ l[t].kind = "owner")
<1> DEFINE m == [l EXCEPT ![t] = None]
           r == l[t]
<1>1. m \in Lists /\ r \in Target /\ m[t] = None /\ l = [m EXCEPT ![t] = r]
  BY DEF Lists
<1> HIDE DEF m, r
<1>2. /\ Cardinality(Holders(l, b)) = Cardinality(Holders(m, b)) + One(b = r.ap)
      /\ Cardinality(Owners(l, b)) =
            Cardinality(Owners(m, b)) + One(b = r.ap /\ r.kind = "owner")
  BY <1>1, AddTarget
<1> QED
  BY <1>1, <1>2 DEF m, r

\* At most the elements of S, or those and one more.
LEMMA NoMore ==
    ASSUME NEW S, IsFiniteSet(S), NEW T, T \subseteq S
    PROVE  /\ Cardinality(T) \in Nat /\ Cardinality(S) \in Nat
           /\ Cardinality(T) <= Cardinality(S)
BY FS_Subset, FS_CardinalityType

LEMMA OneMore ==
    ASSUME NEW S, IsFiniteSet(S), NEW x, NEW T, T \subseteq S \cup {x}
    PROVE  /\ Cardinality(T) \in Nat /\ Cardinality(S) \in Nat
           /\ Cardinality(T) <= Cardinality(S) + 1
<1>1. /\ IsFiniteSet(S \cup {x}) /\ Cardinality(S) \in Nat
      /\ Cardinality(S \cup {x}) \in Nat
      /\ Cardinality(S \cup {x}) <= Cardinality(S) + 1
  BY FS_AddElement, FS_CardinalityType
<1> QED
  BY <1>1, NoMore

LEMMA OnDpFinite ==
    ASSUME NEW h \in Heap, NEW d
    PROVE  IsFiniteSet(OnDp(h, d)) /\ Cardinality(OnDp(h, d)) \in Nat
<1>1. OnDp(h, d) \subseteq APs
  BY DEF OnDp, Heap
<1> QED
  BY <1>1, ScanAssumption, FS_Subset, FS_CardinalityType

\* The first reference to an AP adds it to its DP, and the last one removes it.
LEMMA OnDpGains ==
    ASSUME NEW h \in Heap, NEW g \in Heap, NEW a, a \notin OnDp(h, g.apdp[a]),
           a \in g.aps, g.apref[a] > 0,
           \A b \in APs \ {a} :
               /\ b \in g.aps <=> b \in h.aps
               /\ g.apref[b] = h.apref[b] /\ g.apdp[b] = h.apdp[b],
           a \in h.aps => h.apref[a] = 0,
           NEW d
    PROVE  Cardinality(OnDp(g, d)) = Cardinality(OnDp(h, d)) + One(d = g.apdp[a])
<1>1. OnDp(g, d) = IF d = g.apdp[a] THEN OnDp(h, d) \cup {a} ELSE OnDp(h, d)
  BY DEF OnDp, Heap
<1>2. Cardinality(OnDp(h, d) \cup {a}) = Cardinality(OnDp(h, d)) + 1
      \/ a \in OnDp(h, d)
  BY OnDpFinite, FS_AddElement
<1> QED
  BY <1>1, <1>2, OnDpFinite DEF One

LEMMA OnDpSame ==
    ASSUME NEW h \in Heap, NEW g \in Heap,
           \A b \in APs :
               /\ (b \in g.aps /\ g.apref[b] > 0)
                     <=> (b \in h.aps /\ h.apref[b] > 0)
               /\ b \in h.aps => g.apdp[b] = h.apdp[b],
           NEW d
    PROVE  OnDp(g, d) = OnDp(h, d)
BY DEF OnDp, Heap

-----------------------------------------------------------------------------
(***************************************************************************)
(* Facts every action uses.                                                *)
(***************************************************************************)
LEMMA CountTypes ==
    ASSUME NEW l \in Lists, NEW p, NEW a \in APs
    PROVE  /\ HoldN(l, p, a) \in Nat /\ OwnN(l, p, a) \in Nat
           /\ OwnN(l, p, a) <= HoldN(l, p, a)
BY HoldersFinite, OwnersAreHolders DEF HoldN, OwnN, One

LEMMA DpCountType ==
    ASSUME NEW h \in Heap, NEW q, NEW d
    PROVE  DpN(h, q, d) \in Nat
BY OnDpFinite DEF DpN, One

\* Whoever holds a block is counted.
LEMMA HolderCounts ==
    ASSUME NEW l \in Lists, NEW p, NEW a \in APs, HoldN(l, p, a) = 0
    PROVE  /\ p # a
           /\ \A t \in Targets : l[t] # None => l[t].ap # a
<1>1. Cardinality(Holders(l, a)) = 0 /\ p # a
  BY HoldersFinite DEF HoldN, One
<1>2. Holders(l, a) = {}
  BY <1>1, HoldersFinite, FS_EmptySet
<1> QED
  BY <1>1, <1>2 DEF Holders

LEMMA ApCounts ==
    ASSUME NEW h \in Heap, NEW q, NEW d, DpN(h, q, d) = 0
    PROVE  /\ q # d
           /\ \A a \in h.aps : h.apdp[a] = d => h.apref[a] = 0
<1>1. Cardinality(OnDp(h, d)) = 0 /\ q # d
  BY OnDpFinite DEF DpN, One
<1>2. OnDp(h, d) = {}
  BY <1>1, OnDpFinite, FS_EmptySet
<1> QED
  BY <1>1, <1>2 DEF OnDp, Heap

\* Nobody holds an AP that is not allocated.
LEMMA FreshAp ==
    ASSUME IInv, NEW a \in APs \ heap.aps
    PROVE  HoldN(list, ap, a) = 0 /\ OwnN(list, ap, a) = 0
<1>1. list \in Lists /\ heap \in Heap /\ ap # a
  BY ScanAssumption DEF IInv, ScanState, TypeOK, Lists, Heap
<1>2. Holders(list, a) = {}
  BY DEF IInv, Counted, Holders, Listed
<1>3. HoldN(list, ap, a) = 0
  BY <1>1, <1>2, FS_EmptySet DEF HoldN, One
<1> QED
  BY <1>1, <1>3, CountTypes

LEMMA LeakyFinite ==
    ASSUME TypeOK
    PROVE  IsFiniteSet(LeakyAps) /\ IsFiniteSet(LeakyDps)
<1>1. LeakyAps \subseteq APs /\ LeakyDps \subseteq DPs
  BY DEF LeakyAps, LeakyDps, TypeOK
<1> QED
  BY <1>1, ScanAssumption, FS_Subset

LEMMA NoNewLeak ==
    ASSUME IInv, LeakyAps' \subseteq LeakyAps, LeakyDps' \subseteq LeakyDps,
           losses' = losses
    PROVE  LeaksCounted'
<1>1. /\ Cardinality(LeakyAps') \in Nat /\ Cardinality(LeakyDps') \in Nat
      /\ Cardinality(LeakyAps) \in Nat /\ Cardinality(LeakyDps) \in Nat
      /\ Cardinality(LeakyAps') <= Cardinality(LeakyAps)
      /\ Cardinality(LeakyDps') <= Cardinality(LeakyDps)
  BY LeakyFinite, NoMore DEF IInv
<1> QED
  BY <1>1 DEF IInv, TypeOK, LeaksCounted

LEMMA OneNewLeak ==
    ASSUME IInv, Lost, NEW a, NEW d,
           LeakyAps' \subseteq LeakyAps \cup {a},
           LeakyDps' \subseteq LeakyDps \cup {d}
    PROVE  LeaksCounted' /\ losses' \in 0..MaxLosses
<1>1. /\ Cardinality(LeakyAps') \in Nat /\ Cardinality(LeakyDps') \in Nat
      /\ Cardinality(LeakyAps) \in Nat /\ Cardinality(LeakyDps) \in Nat
      /\ Cardinality(LeakyAps') <= Cardinality(LeakyAps) + 1
      /\ Cardinality(LeakyDps') <= Cardinality(LeakyDps) + 1
  BY LeakyFinite, OneMore DEF IInv
<1> QED
  BY <1>1, ScanAssumption DEF IInv, TypeOK, LeaksCounted, Lost

-----------------------------------------------------------------------------
(***************************************************************************)
(* One holder of a that gives its reference back does so: a target of the  *)
(* list is destroyed, or adiv5_dp_init is done with the AP.                *)
(***************************************************************************)
LEMMA UnrefCounted ==
    ASSUME IInv, NEW a \in heap.aps, HeldDp = dp,
           OwnN(list, ap, a) > 0,
           list' \in Lists,
           \A b \in APs : /\ HoldN(list, ap, b) = HoldN(list', ap', b) + One(b = a)
                          /\ OwnN(list, ap, b) = OwnN(list', ap', b) + One(b = a),
           \A t \in Targets : list'[t] # None => list[t] = list'[t],
           heap' = adiv5_ap_unref(heap, a),
           dp' = dp, HeldDp' = HeldDp, losses' = losses
    PROVE  /\ heap' \in Heap /\ ~heap'.bad /\ Counted' /\ LeaksCounted'
           /\ dp # None => dp \in heap'.dps
<1> DEFINE d == heap.apdp[a]
<1>1. heap \in Heap /\ list \in Lists /\ a \in APs /\ d \in heap.dps /\ d \in DPs
  BY DEF IInv, TypeOK, Heap, Lists, Counted
<1>2. \A b \in APs : /\ HoldN(list, ap, b) \in Nat /\ OwnN(list, ap, b) \in Nat
                     /\ HoldN(list', ap', b) \in Nat /\ OwnN(list', ap', b) \in Nat
                     /\ OwnN(list, ap, b) <= HoldN(list, ap, b)
  BY <1>1, CountTypes
<1>3. /\ heap.apref \in [APs -> Nat] /\ heap.dpref \in [DPs -> Nat]
      /\ heap.aps \subseteq APs /\ heap.dps \subseteq DPs
  BY <1>1 DEF Heap
<1>4. heap.apref[a] > 0 /\ heap.apref[a] >= HoldN(list, ap, a)
  BY <1>1, <1>2, <1>3 DEF IInv, Counted
<1>5. \A e \in DPs : DpN(heap, HeldDp, e) \in Nat
  BY <1>1, DpCountType
<1>6. DpN(heap, HeldDp, d) # 0
  BY <1>1, <1>4, ApCounts
<1>7. heap.dpref[d] > 0 /\ heap.dpref[d] >= DpN(heap, HeldDp, d)
  BY <1>1, <1>3, <1>5, <1>6 DEF IInv, Counted
<1>8. /\ heap' \in Heap /\ heap'.bad = heap.bad /\ heap'.apdp = heap.apdp
      /\ heap'.apref = [heap.apref EXCEPT ![a] = @ - 1]
      /\ heap.apref[a] > 1 => /\ heap'.aps = heap.aps /\ heap'.dps = heap.dps
                              /\ heap'.dpref = heap.dpref
      /\ heap.apref[a] = 1 =>
            /\ heap'.aps = heap.aps \ {a}
            /\ heap'.dpref = [heap.dpref EXCEPT ![d] = @ - 1]
            /\ heap'.dps = IF heap.dpref[d] = 1 THEN heap.dps \ {d} ELSE heap.dps
  BY <1>1, <1>4, <1>7, ApUnrefFields
<1>9. /\ heap'.apref[a] = heap.apref[a] - 1
      /\ \A b \in APs \ {a} : heap'.apref[b] = heap.apref[b]
  BY <1>1, <1>3, <1>8
<1>10. heap' \in Heap /\ heap'.apdp = heap.apdp
  BY <1>8
<1> HIDE DEF d
<1>11. \A e \in DPs : DpN(heap, HeldDp, e) =
          DpN(heap', HeldDp', e) + One(e = d /\ heap.apref[a] = 1)
  <2> TAKE e \in DPs
  <2>1. CASE heap.apref[a] = 1
    <3>1. /\ a \notin OnDp(heap', heap.apdp[a])
          /\ \A b \in APs \ {a} : /\ b \in heap.aps <=> b \in heap'.aps
                                  /\ heap.apref[b] = heap'.apref[b]
                                  /\ heap.apdp[b] = heap'.apdp[b]
          /\ a \notin heap'.aps
      BY <1>8, <1>9, <2>1 DEF OnDp
    <3>2. Cardinality(OnDp(heap, e)) =
             Cardinality(OnDp(heap', e)) + One(e = heap.apdp[a])
      BY <1>1, <1>4, <1>10, <3>1, OnDpGains
    <3> QED
      BY <1>1, <1>8, <2>1, <3>2, OnDpFinite DEF DpN, One, d
  <2>2. CASE heap.apref[a] # 1
    <3>1. \A b \in APs : /\ (b \in heap'.aps /\ heap'.apref[b] > 0)
                               <=> (b \in heap.aps /\ heap.apref[b] > 0)
                         /\ b \in heap.aps => heap'.apdp[b] = heap.apdp[b]
      BY <1>1, <1>3, <1>4, <1>8, <1>9, <2>2
    <3>2. OnDp(heap', e) = OnDp(heap, e)
      BY <1>1, <1>10, <3>1, OnDpSame
    <3> QED
      BY <1>1, <1>8, <2>2, <3>2, OnDpFinite DEF DpN, One
  <2> QED
    BY <2>1, <2>2
<1>12. \A e \in DPs : DpN(heap', HeldDp', e) \in Nat
  BY <1>1, <1>8, DpCountType
<1>13. \A b \in heap'.aps : heap'.apref[b] > 0 =>
          DpN(heap', HeldDp', heap.apdp[b]) # 0
  BY <1>10, ApCounts
<1>14. \A b \in heap'.aps : b # a \/ heap.apref[a] > 1
  BY <1>3, <1>4, <1>8
<1>15. \A e \in DPs : e \in heap.dps =>
          /\ heap'.dpref[e] = heap.dpref[e] - One(e = d /\ heap.apref[a] = 1)
          /\ e \notin heap'.dps => e = d /\ heap.apref[a] = 1 /\ heap.dpref[d] = 1
          /\ e \in heap'.dps => ~(e = d /\ heap.apref[a] = 1 /\ heap.dpref[d] = 1)
  BY <1>1, <1>3, <1>4, <1>8 DEF One
<1>16. heap'.dps \subseteq heap.dps /\ heap'.aps \subseteq heap.aps
  BY <1>3, <1>4, <1>8
<1>17. \A t \in Listed' : list'[t].ap \in heap'.aps
  <2> SUFFICES ASSUME NEW t \in Targets, list'[t] # None
               PROVE  list'[t].ap \in heap'.aps
    BY DEF Listed
  <2>1. list[t] # None /\ list[t].ap \in heap.aps /\ list[t] = list'[t]
    BY DEF IInv, Counted, Listed
  <2>2. CASE heap.apref[a] = 1
    <3>1. HoldN(list', ap', a) = 0
      BY <1>1, <1>2, <1>4, <2>2 DEF One
    <3> QED
      BY <1>1, <1>8, <2>1, <2>2, <3>1, HolderCounts
  <2>3. CASE heap.apref[a] # 1
    BY <1>1, <1>3, <1>4, <1>8, <2>1, <2>3
  <2> QED
    BY <2>2, <2>3
<1>18. \A b \in heap'.aps : heap'.apdp[b] \in heap'.dps
  <2> SUFFICES ASSUME NEW b \in heap'.aps, heap.apdp[b] \notin heap'.dps
               PROVE  FALSE
    BY <1>10
  <2>1. b \in heap.aps /\ b \in APs /\ heap.apdp[b] \in heap.dps
    BY <1>3, <1>16 DEF IInv, Counted
  <2>2. heap.apdp[b] = d /\ heap.apref[a] = 1 /\ heap.dpref[d] = 1 /\ b # a
    BY <1>3, <1>14, <1>15, <2>1
  <2>3. heap.apref[b] > 0
    BY <1>3, <2>1, <2>2 DEF IInv, Counted
  <2>4. DpN(heap', HeldDp', d) # 0
    BY <1>9, <1>13, <2>1, <2>2, <2>3
  <2> QED
    BY <1>1, <1>5, <1>7, <1>11, <1>12, <2>2, <2>4 DEF One
<1>19. \A b \in heap'.aps : heap'.apref[b] >= HoldN(list', ap', b)
  BY <1>2, <1>3, <1>9, <1>16 DEF One, IInv, Counted
<1>20. \A e \in heap'.dps : heap'.dpref[e] >= DpN(heap', HeldDp', e)
  <2> TAKE e \in heap'.dps
  <2>1. e \in heap.dps /\ e \in DPs /\ heap.dpref[e] >= DpN(heap, HeldDp, e)
    BY <1>3, <1>16 DEF IInv, Counted
  <2> QED
    BY <1>3, <1>5, <1>11, <1>12, <1>15, <2>1 DEF One
<1>21. \A b \in heap'.aps : heap'.apref[b] = 0 =>
          heap'.dpref[heap'.apdp[b]] = 0 /\ heap'.apdp[b] # dp'
  <2> SUFFICES ASSUME NEW b \in heap'.aps, heap'.apref[b] = 0
               PROVE  heap'.dpref[heap.apdp[b]] = 0 /\ heap.apdp[b] # dp
    BY <1>10
  <2>1. b # a /\ b \in heap.aps /\ b \in APs /\ heap.apref[b] = 0
    BY <1>1, <1>3, <1>9, <1>14, <1>16
  <2>2. /\ heap.dpref[heap.apdp[b]] = 0 /\ heap.apdp[b] # dp
        /\ heap.apdp[b] \in heap.dps
    BY <2>1 DEF IInv, Counted
  <2> QED
    BY <1>3, <1>7, <1>15, <2>2 DEF One
<1>22. LeakyAps' \subseteq LeakyAps
  <2> SUFFICES ASSUME NEW b \in heap'.aps,
                      heap'.apref[b] = 0 \/ heap'.apref[b] > OwnN(list', ap', b)
               PROVE  heap.apref[b] = 0 \/ heap.apref[b] > OwnN(list, ap, b)
    BY <1>16 DEF LeakyAps
  <2> QED
    BY <1>1, <1>2, <1>3, <1>9, <1>14, <1>16 DEF One
<1>23. LeakyDps' \subseteq LeakyDps
  <2> SUFFICES ASSUME NEW e \in LeakyDps'
               PROVE  e \in LeakyDps
    OBVIOUS
  <2>1. e \in heap'.dps /\ e \in heap.dps /\ e \in DPs
    BY <1>3, <1>16 DEF LeakyDps
  <2>2. CASE heap'.dpref[e] = 0 /\ e # dp
    BY <1>3, <1>7, <1>15, <2>1, <2>2 DEF LeakyDps, One
  <2>3. CASE heap'.dpref[e] > DpN(heap', HeldDp', e)
    BY <1>3, <1>5, <1>11, <1>12, <1>15, <2>1, <2>3 DEF LeakyDps, One
  <2>4. CASE \E b \in LeakyAps' : heap'.apdp[b] = e
    BY <1>10, <1>22, <2>1, <2>4 DEF LeakyDps
  <2> QED
    BY <2>2, <2>3, <2>4 DEF LeakyDps
<1>24. ASSUME dp # None PROVE dp \in heap'.dps
  <2>1. dp \in heap.dps /\ dp \in DPs
    BY <1>3, <1>24 DEF IInv, ScanState
  <2>2. DpN(heap', HeldDp', dp) # 0
    BY <1>10, ApCounts
  <2> QED
    BY <1>5, <1>7, <1>11, <1>12, <1>15, <2>1, <2>2 DEF One
<1> QED
  BY <1>8, <1>17, <1>18, <1>19, <1>20, <1>21, <1>22, <1>23, <1>24, NoNewLeak
     DEF IInv, Counted

(***************************************************************************)
(* An AP is allocated on dp and referenced once, by a new holder that will *)
(* give the reference back: adiv5_dp_init or a target.                     *)
(***************************************************************************)
LEMMA NewApCounted ==
    ASSUME IInv, NEW a \in APs \ heap.aps, dp \in heap.dps,
           list' \in Lists,
           \A b \in APs : /\ HoldN(list', ap', b) = HoldN(list, ap, b) + One(b = a)
                          /\ OwnN(list', ap', b) = OwnN(list, ap, b) + One(b = a),
           \A t \in Targets : list'[t] # None => list[t] = list'[t] \/ list'[t].ap = a,
           heap' = adiv5_ap_ref(AllocAp(a), a),
           dp' \in {dp, None}, HeldDp' = HeldDp, losses' = losses
    PROVE  /\ heap' \in Heap /\ ~heap'.bad /\ Counted' /\ LeaksCounted'
           /\ heap'.dps = heap.dps
           /\ a \in heap'.aps /\ heap'.apdp[a] = dp
<1>1. heap \in Heap /\ list \in Lists /\ dp \in DPs
  BY DEF IInv, TypeOK, Heap, Lists
<1>2. \A b \in APs : /\ HoldN(list, ap, b) \in Nat /\ OwnN(list, ap, b) \in Nat
                     /\ HoldN(list', ap', b) \in Nat /\ OwnN(list', ap', b) \in Nat
  BY <1>1, CountTypes
<1>3. /\ heap.apref \in [APs -> Nat] /\ heap.dpref \in [DPs -> Nat]
      /\ heap.aps \subseteq APs /\ heap.dps \subseteq DPs
      /\ heap.apdp \in [APs -> DPs \cup {None}]
  BY <1>1 DEF Heap
<1>4. HoldN(list', ap', a) = 1 /\ OwnN(list', ap', a) = 1
  BY FreshAp DEF One
<1>5. \A e \in DPs : DpN(heap, HeldDp, e) \in Nat
  BY <1>1, DpCountType
<1>6. /\ heap' \in Heap /\ heap'.bad = heap.bad /\ heap'.dps = heap.dps
      /\ heap'.aps = heap.aps \cup {a}
      /\ heap'.apdp = [heap.apdp EXCEPT ![a] = dp]
      /\ heap'.apref = [heap.apref EXCEPT ![a] = 1]
      /\ heap'.dpref = [heap.dpref EXCEPT ![dp] = @ + 1]
  BY <1>1, NewApFields
<1>7. /\ heap'.apref[a] = 1 /\ heap'.apdp[a] = dp
      /\ \A b \in APs \ {a} : /\ heap'.apref[b] = heap.apref[b]
                              /\ heap'.apdp[b] = heap.apdp[b]
                              /\ b \in heap'.aps <=> b \in heap.aps
      /\ \A e \in DPs : heap'.dpref[e] = heap.dpref[e] + One(e = dp)
  BY <1>1, <1>3, <1>6 DEF One
<1>8. heap' \in Heap /\ a \in heap'.aps /\ a \notin heap.aps
  BY <1>6
<1>9. \A e \in DPs : /\ DpN(heap', HeldDp', e) = DpN(heap, HeldDp, e) + One(e = dp)
                     /\ DpN(heap', HeldDp', e) \in Nat
  <2> TAKE e \in DPs
  <2>1. a \notin OnDp(heap, heap'.apdp[a])
    BY DEF OnDp
  <2>2. Cardinality(OnDp(heap', e)) = Cardinality(OnDp(heap, e)) + One(e = dp)
    BY <1>1, <1>7, <1>8, <2>1, OnDpGains
  <2> QED
    BY <1>1, <1>8, <2>2, OnDpFinite DEF DpN, One
<1>10. \A t \in Listed' : list'[t].ap \in heap'.aps
  BY <1>6 DEF IInv, Counted, Listed
<1>11. \A b \in heap'.aps : heap'.apdp[b] \in heap'.dps
  BY <1>3, <1>6, <1>7 DEF IInv, Counted
<1>12. \A b \in heap'.aps : heap'.apref[b] >= HoldN(list', ap', b)
  BY <1>2, <1>3, <1>4, <1>7, <1>6 DEF One, IInv, Counted
<1>13. \A e \in heap'.dps : heap'.dpref[e] >= DpN(heap', HeldDp', e)
  BY <1>3, <1>5, <1>6, <1>7, <1>9 DEF One, IInv, Counted
<1>14. \A b \in heap'.aps : heap'.apref[b] = 0 =>
          heap'.dpref[heap'.apdp[b]] = 0 /\ heap'.apdp[b] # dp'
  <2> SUFFICES ASSUME NEW b \in heap'.aps, heap'.apref[b] = 0
               PROVE  heap'.dpref[heap'.apdp[b]] = 0 /\ heap'.apdp[b] # dp'
    OBVIOUS
  <2>1. b # a /\ b \in APs /\ b \in heap.aps /\ heap.apref[b] = 0
    BY <1>3, <1>6, <1>7
  <2>2. /\ heap.dpref[heap.apdp[b]] = 0 /\ heap.apdp[b] # dp
        /\ heap.apdp[b] \in heap.dps
    BY <2>1 DEF IInv, Counted
  <2> QED
    BY <1>3, <1>7, <2>1, <2>2, ScanAssumption DEF One
<1>15. LeakyAps' \subseteq LeakyAps
  <2> SUFFICES ASSUME NEW b \in heap'.aps,
                      heap'.apref[b] = 0 \/ heap'.apref[b] > OwnN(list', ap', b)
               PROVE  /\ b \in heap.aps
                      /\ heap.apref[b] = 0 \/ heap.apref[b] > OwnN(list, ap, b)
    BY DEF LeakyAps
  <2> QED
    BY <1>2, <1>3, <1>4, <1>6, <1>7 DEF One
<1>16. LeakyDps' \subseteq LeakyDps
  <2> SUFFICES ASSUME NEW e \in LeakyDps'
               PROVE  e \in LeakyDps
    OBVIOUS
  <2>1. e \in heap'.dps /\ e \in heap.dps /\ e \in DPs
    BY <1>3, <1>6 DEF LeakyDps
  <2>2. CASE heap'.dpref[e] = 0 /\ e # dp'
    BY <1>3, <1>7, <2>1, <2>2 DEF LeakyDps, One
  <2>3. CASE heap'.dpref[e] > DpN(heap', HeldDp', e)
    BY <1>3, <1>5, <1>7, <1>9, <2>1, <2>3 DEF LeakyDps, One
  <2>4. CASE \E b \in LeakyAps' : heap'.apdp[b] = e
    <3>1. PICK b \in LeakyAps' : heap'.apdp[b] = e
      BY <2>4
    <3>2. b \in LeakyAps /\ b \in heap.aps
      BY <1>15, <3>1 DEF LeakyAps
    <3> QED
      BY <1>3, <1>7, <2>1, <3>1, <3>2 DEF LeakyDps
  <2> QED
    BY <2>2, <2>3, <2>4 DEF LeakyDps
<1> QED
  BY <1>6, <1>7, <1>8, <1>10, <1>11, <1>12, <1>13, <1>14, <1>15, <1>16, NoNewLeak
     DEF IInv, Counted

(***************************************************************************)
(* adiv5_dp_init gives its reference to dp back and leaves.                *)
(***************************************************************************)
LEMMA ReleaseDpCounted ==
    ASSUME IInv, pc = "aps",
           heap' \in Heap, ~heap'.bad, heap'.aps = heap.aps,
           \A b \in heap.aps : /\ heap'.apref[b] = heap.apref[b]
                               /\ heap'.apdp[b] = heap.apdp[b],
           heap'.dpref = [heap.dpref EXCEPT ![dp] = @ - 1],
           heap'.dps = IF heap.dpref[dp] = 1 THEN heap.dps \ {dp} ELSE heap.dps,
           list' = list, DpLeft, losses' = losses
    PROVE  IInv'
<1>1. /\ heap \in Heap /\ list \in Lists /\ dp \in DPs /\ dp \in heap.dps
      /\ HeldDp = dp /\ HeldDp' = None /\ ap = None /\ ap' = None /\ dp' = None
      /\ next < Count
  BY DEF IInv, TypeOK, Heap, Lists, ScanState, HeldDp, DpLeft
<1>2. \A b \in APs : HoldN(list, ap, b) \in Nat /\ OwnN(list, ap, b) \in Nat
  BY <1>1, CountTypes
<1>3. /\ heap.apref \in [APs -> Nat] /\ heap.dpref \in [DPs -> Nat]
      /\ heap.aps \subseteq APs /\ heap.dps \subseteq DPs
      /\ heap.apdp \in [APs -> DPs \cup {None}]
  BY <1>1 DEF Heap
<1>4. \A e \in DPs : DpN(heap, HeldDp, e) \in Nat
  BY <1>1, DpCountType
<1>5. \A e \in DPs : /\ DpN(heap, HeldDp, e) = DpN(heap', HeldDp', e) + One(e = dp)
                     /\ DpN(heap', HeldDp', e) \in Nat
  <2> TAKE e \in DPs
  <2>1. OnDp(heap', e) = OnDp(heap, e)
    BY <1>1, OnDpSame
  <2> QED
    BY <1>1, <2>1, OnDpFinite, ScanAssumption DEF DpN, One
<1>6. \A e \in DPs : /\ heap'.dpref[e] = heap.dpref[e] - One(e = dp)
                     /\ e \in heap'.dps <=>
                           e \in heap.dps /\ ~(e = dp /\ heap.dpref[dp] = 1)
  BY <1>1, <1>3 DEF One
<1>7. heap.dpref[dp] >= DpN(heap, HeldDp, dp)
  BY <1>1 DEF IInv, Counted
<1>8. ASSUME NEW b \in heap.aps PROVE heap.apdp[b] \in heap'.dps
  <2>1. heap.apdp[b] \in heap.dps
    BY DEF IInv, Counted
  <2>2. CASE heap.apdp[b] = dp /\ heap.dpref[dp] = 1
    <3>1. heap.apref[b] # 0 /\ heap.apref[b] \in Nat
      BY <1>3, <2>2 DEF IInv, Counted
    <3>2. DpN(heap', HeldDp', dp) # 0
      BY <2>2, <3>1, ApCounts
    <3> QED
      BY <1>1, <1>4, <1>5, <1>7, <2>2, <3>2 DEF One
  <2> QED
    BY <1>3, <1>6, <2>1, <2>2
<1>9. \A e \in heap'.dps : heap'.dpref[e] >= DpN(heap', HeldDp', e)
  BY <1>3, <1>4, <1>5, <1>6 DEF One, IInv, Counted, Heap
<1>10. Counted'
  <2>1. \A t \in Listed' : list'[t].ap \in heap'.aps
    BY DEF IInv, Counted, Listed
  <2>2. \A b \in heap'.aps : heap'.apref[b] >= HoldN(list', ap', b)
    BY <1>1 DEF IInv, Counted
  <2>3. \A b \in heap'.aps : heap'.apref[b] = 0 =>
           heap'.dpref[heap'.apdp[b]] = 0 /\ heap'.apdp[b] # dp'
    BY <1>1, <1>3, <1>6, ScanAssumption DEF One, IInv, Counted
  <2> QED
    BY <1>8, <1>9, <2>1, <2>2, <2>3 DEF Counted
<1>11. LeakyAps' \subseteq LeakyAps
  BY <1>1 DEF LeakyAps
<1>12. LeakyDps' \subseteq LeakyDps
  <2> SUFFICES ASSUME NEW e \in LeakyDps'
               PROVE  e \in LeakyDps
    OBVIOUS
  <2>1. e \in heap'.dps /\ e \in heap.dps /\ e \in DPs
    BY <1>3, <1>6 DEF LeakyDps, Heap
  <2>2. CASE heap'.dpref[e] = 0 /\ e # dp'
    BY <1>3, <1>6, <2>1, <2>2 DEF LeakyDps, One
  <2>3. CASE heap'.dpref[e] > DpN(heap', HeldDp', e)
    BY <1>3, <1>4, <1>5, <1>6, <2>1, <2>3 DEF LeakyDps, One
  <2>4. CASE \E b \in LeakyAps' : heap'.apdp[b] = e
    <3>1. PICK b \in LeakyAps' : heap'.apdp[b] = e
      BY <2>4
    <3>2. b \in LeakyAps /\ b \in heap.aps
      BY <1>11, <3>1 DEF LeakyAps
    <3> QED
      BY <2>1, <3>1, <3>2 DEF LeakyDps
  <2> QED
    BY <2>2, <2>3, <2>4 DEF LeakyDps
<1>13. TypeOK'
  BY <1>1, ScanAssumption DEF IInv, TypeOK, DpLeft, Count, Heap
<1>14. ScanState'
  BY <1>1 DEF ScanState, DpLeft
<1> QED
  BY <1>10, <1>11, <1>12, <1>13, <1>14, NoNewLeak DEF IInv

-----------------------------------------------------------------------------
(***************************************************************************)
(* The initial states, and the actions one by one.                         *)
(***************************************************************************)
LEMMA InitIInv == Init => IInv
<1> SUFFICES ASSUME Init PROVE IInv
  OBVIOUS
<1>1. TypeOK
  <2>1. heap \in Heap /\ list \in Lists
    BY DEF Init, Heap, Lists
  <2>2. 0 \in 0..Devices /\ 0 \in 0..ApSels /\ 0 \in 0..VoidAps /\ 0 \in 0..MaxLosses
    BY ScanAssumption
  <2> QED
    BY <2>1, <2>2 DEF Init, TypeOK, Heap, Lists
<1>2. ScanState /\ Counted /\ ~heap.bad
  BY <1>1 DEF Init, ScanState, Counted, Listed
<1>3. LeakyAps = {} /\ LeakyDps = {}
  BY DEF Init, LeakyAps, LeakyDps
<1>4. LeaksCounted
  BY <1>3, FS_EmptySet DEF Init, LeaksCounted
<1> QED
  BY <1>1, <1>2, <1>4 DEF IInv

\* A step that leaves the blocks and what adiv5_dp_init holds alone.
LEMMA QuietIInv ==
    ASSUME IInv, TypeOK', ScanState',
           UNCHANGED <<dp, ap, heap, list, losses>>, HeldDp' = HeldDp
    PROVE  IInv'
<1>1. Counted'
  BY DEF IInv, Counted, Listed
<1>2. LeakyAps' = LeakyAps
  BY DEF LeakyAps
<1>3. LeakyDps' = LeakyDps
  BY <1>2 DEF LeakyDps
<1>4. LeaksCounted'
  BY <1>2, <1>3 DEF IInv, LeaksCounted
<1> QED
  BY <1>1, <1>4 DEF IInv

LEMMA QuietActions ==
    ASSUME IInv,
           StartScan \/ ListFreed \/ DpSilent \/ DpSkipped \/ ScanDone
             \/ efm32_aap_probe_fails
    PROVE  IInv'
<1> USE DEF IInv, scanVars, initVars
<1>1. CASE StartScan
  <2>1. next' \in 0..Devices
    BY <1>1, ScanAssumption DEF StartScan
  <2>2. fault' \in BOOLEAN
    BY <1>1 DEF StartScan
  <2>3. TypeOK' /\ HeldDp' = HeldDp
    BY <1>1, <2>1, <2>2 DEF StartScan, TypeOK, HeldDp
  <2>4. ScanState'
    BY <1>1 DEF StartScan, ScanState
  <2> QED
    BY <1>1, <2>3, <2>4, QuietIInv DEF StartScan
<1>2. CASE ListFreed
  BY <1>2, QuietIInv DEF ListFreed, TypeOK, ScanState, HeldDp
<1>3. CASE DpSilent
  <2>1. next' \in 0..Devices
    BY <1>3, ScanAssumption DEF DpSilent, TypeOK, Count
  <2>2. fault' \in BOOLEAN
    BY <1>3 DEF DpSilent, TypeOK
  <2>3. TypeOK' /\ HeldDp' = HeldDp
    BY <1>3, <2>1, <2>2 DEF DpSilent, TypeOK, HeldDp
  <2>4. ScanState'
    BY <1>3 DEF DpSilent, ScanState
  <2> QED
    BY <1>3, <2>3, <2>4, QuietIInv DEF DpSilent
<1>4. CASE DpSkipped
  <2>1. TypeOK' /\ HeldDp' = HeldDp
    BY <1>4, ScanAssumption DEF DpSkipped, TypeOK, HeldDp, Count
  <2>2. ScanState'
    BY <1>4 DEF DpSkipped, ScanState
  <2> QED
    BY <1>4, <2>1, <2>2, QuietIInv DEF DpSkipped
<1>5. CASE ScanDone
  BY <1>5, QuietIInv DEF ScanDone, TypeOK, ScanState, HeldDp
<1>6. CASE efm32_aap_probe_fails
  BY <1>6, QuietIInv DEF efm32_aap_probe_fails, TypeOK, ScanState, HeldDp
<1> QED
  BY <1>1, <1>2, <1>3, <1>4, <1>5, <1>6

LEMMA FreeIInv ==
    ASSUME IInv, NEW t \in Targets, target_list_free(t)
    PROVE  IInv'
<1> DEFINE a == list[t].ap
<1>1. /\ heap \in Heap /\ list \in Lists /\ list[t] # None /\ t \in Listed
      /\ list' = [list EXCEPT ![t] = None]
      /\ pc = "free" /\ dp = None /\ ap = None /\ pc' \in {"free", "crashed"}
      /\ UNCHANGED <<scan, next, fault, dp, ap, apsel, voids, losses>>
      /\ HeldDp = dp /\ HeldDp' = HeldDp
  BY DEF target_list_free, IInv, TypeOK, Heap, Lists, Listed, ScanState,
         scanVars, initVars, HeldDp
<1>2. a \in heap.aps /\ a \in APs
  BY <1>1 DEF IInv, Counted, Heap
<1>3. \A u \in Targets : list'[u] # None => list[u] = list'[u]
  BY <1>1 DEF Lists
<1>4. list' \in Lists /\ list[t] \in Target
      /\ \A b \in APs :
            /\ HoldN(list, ap, b) = HoldN(list', ap', b) + One(b = a)
            /\ OwnN(list, ap, b) =
                  OwnN(list', ap', b) + One(b = a /\ list[t].kind = "owner")
  <2>1. list' \in Lists /\ list[t] \in Target
        /\ \A b \in APs :
              /\ Cardinality(Holders(list, b)) =
                    Cardinality(Holders(list', b)) + One(b = a)
              /\ Cardinality(Owners(list, b)) =
                    Cardinality(Owners(list', b))
                       + One(b = a /\ list[t].kind = "owner")
    BY <1>1, <1>2, RemoveTarget
  <2>2. \A b \in APs :
           /\ Cardinality(Holders(list, b)) \in Nat
           /\ Cardinality(Holders(list', b)) \in Nat
           /\ Cardinality(Owners(list, b)) \in Nat
           /\ Cardinality(Owners(list', b)) \in Nat
    BY HoldersFinite
  <2>3. ap' = ap
    BY <1>1
  <2>4. \A b \in APs : HoldN(list, ap, b) = HoldN(list', ap', b) + One(b = a)
    BY <2>1, <2>2, <2>3 DEF HoldN, One
  <2>5. \A b \in APs : OwnN(list, ap, b) =
           OwnN(list', ap', b) + One(b = a /\ list[t].kind = "owner")
    BY <2>1, <2>2, <2>3 DEF OwnN, One
  <2> QED
    BY <2>1, <2>4, <2>5
<1>5. CASE list[t].kind = "owner"
  <2>1. heap' = adiv5_ap_unref(heap, a)
    BY <1>5 DEF target_list_free
  <2>2. OwnN(list, ap, a) > 0
    BY <1>2, <1>4, <1>5, CountTypes DEF One
  <2>3. \A b \in APs : OwnN(list, ap, b) = OwnN(list', ap', b) + One(b = a)
    BY <1>4, <1>5 DEF One
  <2>4. heap' \in Heap /\ ~heap'.bad /\ Counted' /\ LeaksCounted'
    BY <1>1, <1>2, <1>3, <1>4, <2>1, <2>2, <2>3, UnrefCounted
  <2>5. TypeOK'
    BY <1>1, <1>4, <2>4 DEF TypeOK, Heap, Lists, IInv
  <2>6. ScanState'
    BY <1>1 DEF ScanState
  <2> QED
    BY <2>4, <2>5, <2>6 DEF IInv
<1>6. CASE list[t].kind # "owner"
  <2>1. heap' = heap
    BY <1>6 DEF target_list_free
  <2>2. \A b \in APs : /\ OwnN(list, ap, b) = OwnN(list', ap', b)
                       /\ HoldN(list', ap', b) <= HoldN(list, ap, b)
                       /\ HoldN(list, ap, b) \in Nat
                       /\ HoldN(list', ap', b) \in Nat
    <3>1. \A b \in APs : /\ HoldN(list, ap, b) \in Nat /\ OwnN(list, ap, b) \in Nat
                         /\ HoldN(list', ap', b) \in Nat
                         /\ OwnN(list', ap', b) \in Nat
      BY <1>1, <1>4, CountTypes
    <3> QED
      BY <1>4, <1>6, <3>1 DEF One
  <2>3. \A b \in heap'.aps : heap'.apref[b] >= HoldN(list', ap', b)
    <3>1. \A b \in heap.aps : b \in APs /\ heap.apref[b] \in Nat
      BY <1>1 DEF Heap
    <3> QED
      BY <2>1, <2>2, <3>1 DEF IInv, Counted
  <2>4. Counted'
    BY <1>1, <1>3, <2>1, <2>3 DEF IInv, Counted, Listed
  <2>5. LeakyAps' = LeakyAps
    BY <1>1, <2>1, <2>2 DEF LeakyAps, Heap
  <2>6. LeakyDps' = LeakyDps
    BY <1>1, <2>1, <2>5 DEF LeakyDps
  <2>7. TypeOK'
    BY <1>1, <1>4, <2>1 DEF TypeOK, Heap, Lists, IInv
  <2>8. ScanState'
    BY <1>1 DEF ScanState
  <2> QED
    BY <1>1, <2>1, <2>4, <2>5, <2>6, <2>7, <2>8, NoNewLeak DEF IInv
<1> QED
  BY <1>5, <1>6

LEMMA DpFoundIInv ==
    ASSUME IInv, NEW d \in DPs, DpFound(d)
    PROVE  IInv'
<1>1. /\ heap \in Heap /\ list \in Lists /\ d \notin heap.dps
      /\ pc = "select" /\ dp = None /\ ap = None /\ pc' = "init" /\ dp' = d
      /\ UNCHANGED <<scan, next, fault, ap, apsel, voids, list, losses>>
      /\ HeldDp = None /\ HeldDp' = None /\ next < Count /\ Count' = Count
  BY DEF DpFound, IInv, TypeOK, Heap, Lists, ScanState, scanVars, HeldDp, Count
<1>2. /\ heap' \in Heap /\ heap'.dps = heap.dps \cup {d} /\ heap'.aps = heap.aps
      /\ heap'.dpref = [heap.dpref EXCEPT ![d] = 0]
      /\ heap'.apref = heap.apref /\ heap'.apdp = heap.apdp
      /\ heap'.bad = heap.bad
  BY <1>1 DEF DpFound, AllocDp, Heap
<1>3. /\ heap.dpref \in [DPs -> Nat] /\ heap.dps \subseteq DPs
      /\ heap.aps \subseteq APs
  BY <1>1 DEF Heap
<1>4. \A e \in DPs : e # d => heap'.dpref[e] = heap.dpref[e]
  BY <1>2, <1>3
<1>5. heap'.dpref[d] = 0
  BY <1>2, <1>3
<1>6. \A b \in heap.aps : heap.apdp[b] \in heap.dps /\ heap.apdp[b] # d
  BY <1>1 DEF IInv, Counted
<1>7. \A e : OnDp(heap', e) = OnDp(heap, e)
  BY <1>2 DEF OnDp
<1>8. DpN(heap', HeldDp', d) = 0
  <2>1. OnDp(heap, d) = {}
    BY <1>6 DEF OnDp
  <2> QED
    BY <1>1, <1>7, <2>1, FS_EmptySet, ScanAssumption DEF DpN, One
<1>9. \A e : DpN(heap', HeldDp', e) = DpN(heap, HeldDp, e)
  BY <1>1, <1>7 DEF DpN
<1>10. \A e \in heap'.dps : heap'.dpref[e] >= DpN(heap', HeldDp', e)
  <2> TAKE e \in heap'.dps
  <2>1. CASE e = d
    BY <1>5, <1>8, <2>1
  <2>2. CASE e # d
    BY <1>2, <1>3, <1>4, <1>9, <2>2 DEF IInv, Counted
  <2> QED
    BY <2>1, <2>2
<1>11. Counted'
  <2>1. \A b \in heap'.aps : heap'.apref[b] = 0 =>
           heap'.dpref[heap'.apdp[b]] = 0 /\ heap'.apdp[b] # dp'
    BY <1>1, <1>2, <1>3, <1>4, <1>6 DEF IInv, Counted
  <2> QED
    BY <1>1, <1>2, <1>6, <1>10, <2>1 DEF IInv, Counted, Listed
<1>12. LeakyAps' = LeakyAps
  BY <1>1, <1>2 DEF LeakyAps
<1>13. LeakyDps' \subseteq LeakyDps
  <2> SUFFICES ASSUME NEW e \in LeakyDps'
               PROVE  e \in LeakyDps
    OBVIOUS
  <2>1. e \in heap'.dps /\ e \in DPs
    BY <1>2, <1>3 DEF LeakyDps
  <2>2. e # d
    <3>1. \A b \in LeakyAps' : heap'.apdp[b] # d
      BY <1>2, <1>6 DEF LeakyAps
    <3> QED
      BY <1>1, <1>5, <1>8, <3>1 DEF LeakyDps
  <2>3. e \in heap.dps
    BY <1>2, <2>1, <2>2
  <2> QED
    BY <1>1, <1>2, <1>4, <1>9, <1>12, <2>1, <2>2, <2>3, ScanAssumption DEF LeakyDps
<1>14. TypeOK'
  BY <1>1, <1>2 DEF IInv, TypeOK, Heap
<1>15. ScanState'
  BY <1>1, <1>2, <1>5, ScanAssumption DEF ScanState
<1> QED
  BY <1>1, <1>2, <1>11, <1>12, <1>13, <1>14, <1>15, NoNewLeak DEF IInv

LEMMA DpUselessIInv ==
    ASSUME IInv, DpUseless
    PROVE  IInv'
<1>1. /\ heap \in Heap /\ list \in Lists /\ dp \in heap.dps /\ dp \in DPs
      /\ pc = "init" /\ ap = None /\ pc' = "select" /\ dp' = None /\ ap' = None
      /\ UNCHANGED <<scan, fault, ap, apsel, voids, list, losses>>
      /\ HeldDp = None /\ HeldDp' = None
      /\ next < Count /\ next' = next + 1 /\ heap.dpref[dp] = 0
  BY DEF DpUseless, DpLeft, IInv, TypeOK, Heap, Lists, ScanState, HeldDp
<1>2. /\ heap' \in Heap /\ heap'.dps = heap.dps \ {dp} /\ heap'.aps = heap.aps
      /\ heap'.dpref = heap.dpref /\ heap'.apref = heap.apref
      /\ heap'.apdp = heap.apdp /\ heap'.bad = heap.bad
  BY <1>1 DEF DpUseless, FreeDp, Heap
<1>3. /\ heap.dpref \in [DPs -> Nat] /\ heap.dps \subseteq DPs
      /\ heap.aps \subseteq APs /\ heap.apref \in [APs -> Nat]
  BY <1>1 DEF Heap
<1>4. \A e : /\ DpN(heap', HeldDp', e) = DpN(heap, HeldDp, e)
             /\ DpN(heap, HeldDp, e) \in Nat
  <2>1. \A e : OnDp(heap', e) = OnDp(heap, e)
    BY <1>2 DEF OnDp
  <2>2. \A e : DpN(heap', HeldDp', e) = DpN(heap, HeldDp, e)
    BY <1>1, <2>1 DEF DpN
  <2> QED
    BY <1>1, <2>2, DpCountType
<1>5. \A b \in heap.aps : heap.apdp[b] \in heap.dps /\ heap.apdp[b] # dp
  <2> TAKE b \in heap.aps
  <2>1. heap.apref[b] = 0 => heap.apdp[b] # dp
    BY DEF IInv, Counted
  <2>2. DpN(heap, HeldDp, dp) = 0
    BY <1>1, <1>4 DEF IInv, Counted
  <2>3. heap.apdp[b] = dp => heap.apref[b] = 0
    BY <1>1, <2>2, ApCounts
  <2> QED
    BY <2>1, <2>3 DEF IInv, Counted
<1>6. Counted'
  <2>1. \A b \in heap'.aps : heap'.apref[b] = 0 =>
           heap'.dpref[heap'.apdp[b]] = 0 /\ heap'.apdp[b] # dp'
    BY <1>1, <1>2, <1>3, <1>5, ScanAssumption DEF IInv, Counted
  <2> QED
    BY <1>1, <1>2, <1>4, <1>5, <2>1 DEF IInv, Counted, Listed
<1>7. LeakyAps' = LeakyAps
  BY <1>1, <1>2 DEF LeakyAps
<1>8. LeakyDps' \subseteq LeakyDps
  BY <1>1, <1>2, <1>4, <1>7 DEF LeakyDps
<1>9. TypeOK'
  BY <1>1, <1>2, ScanAssumption DEF IInv, TypeOK, Heap, Count
<1>10. ScanState'
  BY <1>1 DEF ScanState
<1> QED
  BY <1>1, <1>2, <1>6, <1>7, <1>8, <1>9, <1>10, NoNewLeak DEF IInv

LEMMA DpPoweredIInv ==
    ASSUME IInv, DpPowered
    PROVE  IInv'
<1>1. /\ heap \in Heap /\ list \in Lists /\ dp \in heap.dps /\ dp \in DPs
      /\ pc = "init" /\ ap = None /\ pc' = "aps" /\ apsel' = 0 /\ voids' = 0
      /\ UNCHANGED <<scan, next, fault, dp, ap, list, losses>>
      /\ HeldDp = None /\ HeldDp' = dp
      /\ next < Count /\ Count' = Count /\ heap.dpref[dp] = 0
  BY DEF DpPowered, IInv, TypeOK, Heap, Lists, ScanState, scanVars, HeldDp, Count
<1>2. /\ heap' \in Heap /\ heap'.dps = heap.dps /\ heap'.aps = heap.aps
      /\ heap'.dpref = [heap.dpref EXCEPT ![dp] = @ + 1]
      /\ heap'.apref = heap.apref /\ heap'.apdp = heap.apdp
      /\ heap'.bad = heap.bad
  BY <1>1 DEF DpPowered, DpRef, Heap
<1>3. /\ heap.dpref \in [DPs -> Nat] /\ heap.dps \subseteq DPs
      /\ heap.aps \subseteq APs /\ heap.apref \in [APs -> Nat]
  BY <1>1 DEF Heap
<1>4. \A e \in DPs : /\ DpN(heap', HeldDp', e) = DpN(heap, HeldDp, e) + One(e = dp)
                     /\ DpN(heap, HeldDp, e) \in Nat
  <2> TAKE e \in DPs
  <2>1. OnDp(heap', e) = OnDp(heap, e)
    BY <1>2 DEF OnDp
  <2> QED
    BY <1>1, <2>1, OnDpFinite, ScanAssumption DEF DpN, One
<1>5. \A e \in DPs : heap'.dpref[e] = heap.dpref[e] + One(e = dp)
  BY <1>1, <1>2, <1>3 DEF One
<1>6. Counted'
  <2>1. \A b \in heap'.aps : heap'.apref[b] = 0 =>
           heap'.dpref[heap'.apdp[b]] = 0 /\ heap'.apdp[b] # dp'
    BY <1>1, <1>2, <1>3, <1>5 DEF IInv, Counted, One
  <2>2. \A e \in heap'.dps : heap'.dpref[e] >= DpN(heap', HeldDp', e)
    BY <1>2, <1>3, <1>4, <1>5 DEF IInv, Counted, One
  <2> QED
    BY <1>1, <1>2, <2>1, <2>2 DEF IInv, Counted, Listed
<1>7. LeakyAps' = LeakyAps
  BY <1>1, <1>2 DEF LeakyAps
<1>8. LeakyDps' \subseteq LeakyDps
  <2> SUFFICES ASSUME NEW e \in LeakyDps'
               PROVE  e \in LeakyDps
    OBVIOUS
  <2>1. e \in heap.dps /\ e \in DPs
    BY <1>2, <1>3 DEF LeakyDps
  <2>2. heap'.dpref[e] > DpN(heap', HeldDp', e) => heap.dpref[e] > DpN(heap, HeldDp, e)
    BY <1>3, <1>4, <1>5, <2>1 DEF One
  <2>3. heap'.dpref[e] = 0 /\ e # dp' => heap.dpref[e] = 0 /\ e # dp
    BY <1>1, <1>3, <1>5, <2>1 DEF One
  <2> QED
    BY <1>2, <1>7, <2>1, <2>2, <2>3 DEF LeakyDps
<1>9. TypeOK'
  <2>1. 0 \in 0..ApSels /\ 0 \in 0..VoidAps
    BY ScanAssumption
  <2> QED
    BY <1>1, <1>2, <2>1 DEF IInv, TypeOK, Heap
<1>10. ScanState'
  BY <1>1, <1>2 DEF IInv, ScanState
<1> QED
  BY <1>1, <1>2, <1>6, <1>7, <1>8, <1>9, <1>10, NoNewLeak DEF IInv

LEMMA ReleaseActions ==
    ASSUME IInv, VoidAp \/ DpDone \/ (\E a \in APs : DuplicateAp(a))
    PROVE  IInv'
<1>1. heap \in Heap /\ (pc = "aps" => dp \in heap.dps /\ dp \in DPs /\ HeldDp = dp)
  BY DEF IInv, TypeOK, Heap, ScanState, HeldDp
<1>2. pc = "aps" => heap.dpref[dp] > 0
  <2> SUFFICES ASSUME pc = "aps" PROVE heap.dpref[dp] > 0
    OBVIOUS
  <2>1. DpN(heap, HeldDp, dp) # 0 /\ DpN(heap, HeldDp, dp) \in Nat
    BY <1>1, ApCounts, DpCountType
  <2> QED
    BY <1>1, <2>1 DEF IInv, Counted, Heap
<1>3. ASSUME pc = "aps", heap' = adiv5_dp_unref(heap, dp), DpLeft,
             list' = list, losses' = losses
      PROVE  IInv'
  <2>1. /\ heap' \in Heap /\ heap'.bad = heap.bad /\ heap'.aps = heap.aps
        /\ heap'.apref = heap.apref /\ heap'.apdp = heap.apdp
        /\ heap'.dpref = [heap.dpref EXCEPT ![dp] = @ - 1]
        /\ heap'.dps = IF heap.dpref[dp] = 1 THEN heap.dps \ {dp} ELSE heap.dps
    BY <1>1, <1>2, <1>3, DpUnrefFields
  <2>2. ~heap'.bad
    BY <2>1 DEF IInv
  <2> QED
    BY <1>3, <2>1, <2>2, ReleaseDpCounted
<1>4. CASE VoidAp
  <2>1. CASE apsel = 0
    BY <1>3, <1>4, <2>1 DEF VoidAp
  <2>2. CASE apsel # 0
    <3>1. /\ UNCHANGED <<pc, scan, next, fault, dp, ap, heap, list, losses>>
          /\ voids' = voids + 1 /\ apsel' = apsel + 1 /\ LoopRuns
          /\ HeldDp' = HeldDp /\ pc = "aps"
      BY <1>4, <2>2 DEF VoidAp, scanVars, HeldDp
    <3>2. voids' \in 0..VoidAps /\ apsel' \in 0..ApSels
      BY <3>1, ScanAssumption DEF IInv, TypeOK, LoopRuns
    <3>3. TypeOK' /\ ScanState'
      BY <3>1, <3>2 DEF IInv, TypeOK, ScanState, Count
    <3> QED
      BY <3>1, <3>3, QuietIInv
  <2> QED
    BY <2>1, <2>2
<1>5. CASE DpDone
  <2>1. Touch(heap) = heap
    BY DEF IInv, Counted, Touch
  <2> QED
    BY <1>3, <1>5, <2>1 DEF DpDone
<1>6. ASSUME NEW a \in APs, DuplicateAp(a) PROVE IInv'
  <2> DEFINE n == adiv5_new_ap(a)
             u == adiv5_ap_unref(n, a)
  <2>1. /\ pc = "aps" /\ a \notin heap.aps /\ DpLeft /\ list' = list
        /\ losses' = losses /\ heap' = adiv5_dp_unref(u, dp)
    BY <1>6 DEF DuplicateAp, ReleaseBoth
  <2>2. /\ n \in Heap /\ n.bad = heap.bad /\ n.dps = heap.dps
        /\ n.aps = heap.aps \cup {a}
        /\ n.apdp = [heap.apdp EXCEPT ![a] = dp]
        /\ n.apref = [heap.apref EXCEPT ![a] = 1]
        /\ n.dpref = [heap.dpref EXCEPT ![dp] = @ + 1]
    BY <1>1, <2>1, NewApFields DEF adiv5_new_ap
  <2>3. /\ n.apref[a] = 1 /\ n.apdp[a] = dp /\ n.dpref[dp] = heap.dpref[dp] + 1
        /\ a \in n.aps /\ dp \in n.dps /\ n.dpref[dp] > 1
    BY <1>1, <1>2, <2>1, <2>2 DEF Heap
  <2>4. u = adiv5_ap_unref(n, a)
    OBVIOUS
  <2> HIDE DEF n, u
  <2>5. /\ u \in Heap /\ u.bad = n.bad /\ u.apdp = n.apdp
        /\ u.apref = [n.apref EXCEPT ![a] = @ - 1]
        /\ u.aps = n.aps \ {a}
        /\ u.dpref = [n.dpref EXCEPT ![dp] = @ - 1]
        /\ u.dps = IF n.dpref[dp] = 1 THEN n.dps \ {dp} ELSE n.dps
    <3>1. /\ n \in Heap /\ a \in n.aps /\ n.apref[a] > 0
          /\ n.apdp[a] \in n.dps /\ n.dpref[n.apdp[a]] > 0
      BY <1>1, <2>2, <2>3 DEF Heap
    <3>2. /\ u \in Heap /\ u.bad = n.bad /\ u.apdp = n.apdp
          /\ u.apref = [n.apref EXCEPT ![a] = @ - 1]
          /\ n.apref[a] = 1 =>
                /\ u.aps = n.aps \ {a}
                /\ u.dpref = [n.dpref EXCEPT ![n.apdp[a]] = @ - 1]
                /\ u.dps = IF n.dpref[n.apdp[a]] = 1
                           THEN n.dps \ {n.apdp[a]} ELSE n.dps
      BY <2>4, <3>1, ApUnrefFields
    <3> QED
      BY <2>3, <3>2
  <2>6. /\ u.dps = heap.dps /\ u.dpref = heap.dpref /\ u.aps = heap.aps
        /\ \A b \in heap.aps : u.apref[b] = heap.apref[b] /\ u.apdp[b] = heap.apdp[b]
    BY <1>1, <1>2, <2>1, <2>2, <2>3, <2>5 DEF Heap
  <2>7. /\ heap' \in Heap /\ heap'.bad = u.bad /\ heap'.aps = u.aps
        /\ heap'.apref = u.apref /\ heap'.apdp = u.apdp
        /\ heap'.dpref = [u.dpref EXCEPT ![dp] = @ - 1]
        /\ heap'.dps = IF u.dpref[dp] = 1 THEN u.dps \ {dp} ELSE u.dps
    <3>1. u \in Heap /\ dp \in u.dps /\ u.dpref[dp] > 0
      BY <1>1, <1>2, <2>1, <2>5, <2>6
    <3>2. heap' = adiv5_dp_unref(u, dp)
      BY <2>1
    <3> QED
      BY <3>1, <3>2, DpUnrefFields
  <2>8. ~heap'.bad
    BY <2>2, <2>5, <2>7 DEF IInv
  <2> QED
    BY <2>1, <2>6, <2>7, <2>8, ReleaseDpCounted
<1> QED
  BY <1>4, <1>5, <1>6

LEMMA RescueIInv ==
    ASSUME IInv, NEW a \in APs, NEW t \in Targets, rp_rescue_probe(a, t)
    PROVE  IInv'
<1> DEFINE r == [ap |-> a, kind |-> "owner"]
<1>1. /\ heap \in Heap /\ list \in Lists /\ dp \in heap.dps /\ dp \in DPs
      /\ pc = "init" /\ ap = None /\ pc' = "select" /\ dp' = None /\ ap' = None
      /\ UNCHANGED <<scan, fault, apsel, voids, losses>>
      /\ HeldDp = None /\ HeldDp' = None
      /\ next < Count /\ next' = next + 1
      /\ a \in APs \ heap.aps /\ list[t] = None
      /\ list' = [list EXCEPT ![t] = r]
      /\ heap' = adiv5_ap_ref(AllocAp(a), a)
  BY DEF rp_rescue_probe, DpLeft, IInv, TypeOK, Heap, Lists, ScanState, HeldDp, Listed
<1>2. r \in Target /\ r.ap = a /\ r.kind = "owner"
  BY DEF Target, Kinds
<1>3. \A u \in Targets : list'[u] # None => list[u] = list'[u] \/ list'[u].ap = a
  BY <1>1, <1>2 DEF Lists
<1> HIDE DEF r
<1>4. list' \in Lists
      /\ \A b \in APs :
            /\ HoldN(list', ap', b) = HoldN(list, ap, b) + One(b = a)
            /\ OwnN(list', ap', b) = OwnN(list, ap, b) + One(b = a)
  <2>1. \A b \in APs :
              /\ list' \in Lists
              /\ Cardinality(Holders(list', b)) =
                    Cardinality(Holders(list, b)) + One(b = a)
              /\ Cardinality(Owners(list', b)) =
                    Cardinality(Owners(list, b)) + One(b = a)
    BY <1>1, <1>2, AddTarget DEF One
  <2>2. \A b \in APs :
           /\ Cardinality(Holders(list, b)) \in Nat
           /\ Cardinality(Holders(list', b)) \in Nat
           /\ Cardinality(Owners(list, b)) \in Nat
           /\ Cardinality(Owners(list', b)) \in Nat
    BY HoldersFinite
  <2>3. ap' = ap
    BY <1>1
  <2>4. \A b \in APs : HoldN(list', ap', b) = HoldN(list, ap, b) + One(b = a)
    BY <2>1, <2>2, <2>3 DEF HoldN, One
  <2>5. \A b \in APs : OwnN(list', ap', b) = OwnN(list, ap, b) + One(b = a)
    BY <2>1, <2>2, <2>3 DEF OwnN, One
  <2> QED
    BY <2>1, <2>4, <2>5
<1>5. heap' \in Heap /\ ~heap'.bad /\ Counted' /\ LeaksCounted'
  BY <1>1, <1>3, <1>4, NewApCounted
<1>6. TypeOK'
  BY <1>1, <1>4, <1>5, ScanAssumption DEF IInv, TypeOK, Heap, Lists, Count
<1>7. ScanState'
  BY <1>1 DEF ScanState
<1> QED
  BY <1>5, <1>6, <1>7 DEF IInv

LEMMA ApFoundIInv ==
    ASSUME IInv, NEW a \in APs, ApFound(a)
    PROVE  IInv'
<1>1. /\ heap \in Heap /\ list \in Lists /\ dp \in heap.dps /\ dp # None
      /\ pc = "aps" /\ ap = None /\ pc' = "probe" /\ ap' = a
      /\ UNCHANGED <<scan, next, fault, dp, apsel, voids, list, losses>>
      /\ HeldDp' = HeldDp /\ a \in APs \ heap.aps /\ a # None
      /\ next < Count /\ Count' = Count /\ apsel < ApSels
      /\ heap' = adiv5_ap_ref(AllocAp(a), a)
  BY ScanAssumption
     DEF ApFound, LoopRuns, IInv, TypeOK, Heap, Lists, ScanState, HeldDp,
         scanVars, adiv5_new_ap, Count
<1>2. \A b \in APs : /\ HoldN(list', ap', b) = HoldN(list, ap, b) + One(b = a)
                     /\ OwnN(list', ap', b) = OwnN(list, ap, b) + One(b = a)
  <2> TAKE b \in APs
  <2>1. Cardinality(Holders(list, b)) \in Nat /\ Cardinality(Owners(list, b)) \in Nat
    BY HoldersFinite
  <2> QED
    BY <1>1, <2>1, ScanAssumption DEF HoldN, OwnN, One
<1>3. /\ heap' \in Heap /\ ~heap'.bad /\ Counted' /\ LeaksCounted'
      /\ heap'.dps = heap.dps /\ a \in heap'.aps /\ heap'.apdp[a] = dp
  BY <1>1, <1>2, NewApCounted
<1>4. TypeOK'
  BY <1>1, <1>3 DEF IInv, TypeOK, Heap
<1>5. ScanState'
  BY <1>1, <1>3 DEF ScanState
<1> QED
  BY <1>3, <1>4, <1>5 DEF IInv

LEMMA ProbesDoneIInv ==
    ASSUME IInv, ProbesDone
    PROVE  IInv'
<1>1. /\ heap \in Heap /\ list \in Lists /\ dp \in heap.dps /\ dp # None
      /\ pc = "probe" /\ ap \in heap.aps /\ ap \in APs /\ pc' = "aps" /\ ap' = None
      /\ UNCHANGED <<scan, next, fault, dp, voids, list, losses>>
      /\ HeldDp' = HeldDp /\ HeldDp = dp /\ apsel' = apsel + 1 /\ apsel < ApSels
      /\ next < Count /\ Count' = Count
      /\ heap' = adiv5_ap_unref(heap, ap)
  BY DEF ProbesDone, NextApSel, IInv, TypeOK, Heap, Lists, ScanState, HeldDp,
         scanVars, Count
<1>2. \A b \in APs : /\ HoldN(list, ap, b) = HoldN(list', ap', b) + One(b = ap)
                     /\ OwnN(list, ap, b) = OwnN(list', ap', b) + One(b = ap)
                     /\ OwnN(list, ap, ap) > 0
  <2> TAKE b \in APs
  <2>1. /\ Cardinality(Holders(list, b)) \in Nat /\ Cardinality(Owners(list, b)) \in Nat
        /\ Cardinality(Owners(list, ap)) \in Nat
    BY HoldersFinite
  <2> QED
    BY <1>1, <2>1, ScanAssumption DEF HoldN, OwnN, One
<1>3. OwnN(list, ap, ap) > 0
  BY <1>1, <1>2
<1>4. /\ heap' \in Heap /\ ~heap'.bad /\ Counted' /\ LeaksCounted'
      /\ dp \in heap'.dps
  BY <1>1, <1>2, <1>3, UnrefCounted
<1>5. apsel' \in 0..ApSels
  BY <1>1, ScanAssumption DEF IInv, TypeOK
<1>6. TypeOK'
  BY <1>1, <1>4, <1>5 DEF IInv, TypeOK, Heap
<1>7. ScanState'
  BY <1>1, <1>4 DEF ScanState
<1> QED
  BY <1>4, <1>6, <1>7 DEF IInv

LEMMA ProbedIInv ==
    ASSUME IInv, NEW t \in Targets,
           cortexm_probe(t) \/ PrivFails(t) \/ cortexa_probe(t)
    PROVE  IInv'
<1>1. PICK k \in Kinds : /\ Probed(t, k)
                         /\ k = "owner" => losses' = losses
                         /\ k # "owner" => Lost
  BY DEF cortexm_probe, PrivFails, cortexa_probe, Kinds
<1> DEFINE r == [ap |-> ap, kind |-> k]
<1>2. /\ heap \in Heap /\ list \in Lists /\ dp \in heap.dps /\ dp # None
      /\ pc = "probe" /\ ap \in heap.aps /\ ap \in APs /\ heap.apdp[ap] = dp
      /\ UNCHANGED <<pc, scan, next, fault, dp, ap, apsel, voids>>
      /\ HeldDp' = HeldDp /\ list[t] = None
      /\ list' = [list EXCEPT ![t] = r]
      /\ heap' = adiv5_ap_ref(heap, ap)
  BY <1>1 DEF Probed, IInv, TypeOK, Heap, Lists, ScanState, HeldDp, scanVars,
         initVars, Listed
<1>3. r \in Target /\ r.ap = ap /\ r.kind = k
  BY <1>2 DEF Target
<1>4. \A u \in Targets : list'[u] # None => list[u] = list'[u] \/ list'[u].ap = ap
  BY <1>2, <1>3 DEF Lists
<1> HIDE DEF r
<1>5. list' \in Lists
      /\ \A b \in APs :
            /\ HoldN(list', ap', b) = HoldN(list, ap, b) + One(b = ap)
            /\ OwnN(list', ap', b) = OwnN(list, ap, b) + One(b = ap /\ k = "owner")
  <2>1. \A b \in APs :
              /\ list' \in Lists
              /\ Cardinality(Holders(list', b)) =
                    Cardinality(Holders(list, b)) + One(b = ap)
              /\ Cardinality(Owners(list', b)) =
                    Cardinality(Owners(list, b)) + One(b = ap /\ k = "owner")
    BY <1>2, <1>3, AddTarget DEF One
  <2>2. \A b \in APs :
           /\ Cardinality(Holders(list, b)) \in Nat
           /\ Cardinality(Holders(list', b)) \in Nat
           /\ Cardinality(Owners(list, b)) \in Nat
           /\ Cardinality(Owners(list', b)) \in Nat
    BY HoldersFinite
  <2>3. ap' = ap /\ ap \in APs
    BY <1>2
  <2>4. \A b \in APs : HoldN(list', ap', b) = HoldN(list, ap, b) + One(b = ap)
    BY <2>1, <2>2, <2>3 DEF HoldN, One
  <2>5. \A b \in APs :
           OwnN(list', ap', b) = OwnN(list, ap, b) + One(b = ap /\ k = "owner")
    BY <2>1, <2>2, <2>3 DEF OwnN, One
  <2> QED
    BY <2>1, <2>3, <2>4, <2>5
<1>6. \A b \in APs : /\ HoldN(list, ap, b) \in Nat /\ OwnN(list, ap, b) \in Nat
                     /\ HoldN(list', ap', b) \in Nat /\ OwnN(list', ap', b) \in Nat
  BY <1>2, <1>5, CountTypes
<1>7. /\ heap.apref \in [APs -> Nat] /\ heap.aps \subseteq APs
  BY <1>2 DEF Heap
<1>8. heap.apref[ap] > 0
  <2>1. HoldN(list, ap, ap) # 0
    BY <1>2, HolderCounts
  <2> QED
    BY <1>2, <1>6, <1>7, <2>1 DEF IInv, Counted
<1>9. /\ heap' \in Heap /\ heap'.bad = heap.bad /\ heap'.aps = heap.aps
      /\ heap'.apdp = heap.apdp /\ heap'.dps = heap.dps
      /\ heap'.dpref = heap.dpref
      /\ heap'.apref = [heap.apref EXCEPT ![ap] = @ + 1]
  BY <1>2, <1>8, ApRefFields
<1>10. \A b \in APs : heap'.apref[b] = heap.apref[b] + One(b = ap)
  BY <1>2, <1>7, <1>9 DEF One
<1>11. \A e \in DPs : DpN(heap', HeldDp', e) = DpN(heap, HeldDp, e)
  <2> TAKE e \in DPs
  <2>1. \A b \in APs : /\ (b \in heap'.aps /\ heap'.apref[b] > 0)
                             <=> (b \in heap.aps /\ heap.apref[b] > 0)
                       /\ b \in heap.aps => heap'.apdp[b] = heap.apdp[b]
    BY <1>7, <1>8, <1>9, <1>10 DEF One
  <2>2. heap' \in Heap
    BY <1>9
  <2>3. OnDp(heap', e) = OnDp(heap, e)
    BY <1>2, <2>1, <2>2, OnDpSame
  <2> QED
    BY <1>2, <2>3 DEF DpN
<1>12. Counted'
  <2>1. \A u \in Listed' : list'[u].ap \in heap'.aps
    BY <1>2, <1>4, <1>9 DEF IInv, Counted, Listed
  <2>2. \A b \in heap'.aps : heap'.apref[b] >= HoldN(list', ap', b)
    BY <1>5, <1>6, <1>7, <1>9, <1>10 DEF IInv, Counted, One
  <2>3. \A e \in heap'.dps : heap'.dpref[e] >= DpN(heap', HeldDp', e)
    BY <1>2, <1>9, <1>11 DEF IInv, Counted, Heap
  <2>4. \A b \in heap'.aps : heap'.apref[b] = 0 =>
           heap'.dpref[heap'.apdp[b]] = 0 /\ heap'.apdp[b] # dp'
    BY <1>2, <1>7, <1>9, <1>10 DEF IInv, Counted, One
  <2> QED
    BY <1>9, <2>1, <2>2, <2>3, <2>4 DEF IInv, Counted
<1>13. /\ LeakyAps' \subseteq LeakyAps \cup {ap}
       /\ k = "owner" => LeakyAps' \subseteq LeakyAps
  <2> SUFFICES ASSUME NEW b \in heap'.aps,
                      heap'.apref[b] = 0 \/ heap'.apref[b] > OwnN(list', ap', b)
               PROVE  /\ b \in heap.aps
                      /\ b # ap \/ k = "owner" =>
                            heap.apref[b] = 0 \/ heap.apref[b] > OwnN(list, ap, b)
    BY DEF LeakyAps
  <2> QED
    BY <1>5, <1>6, <1>7, <1>9, <1>10 DEF One
<1>14. /\ LeakyDps' \subseteq LeakyDps \cup {dp}
       /\ k = "owner" => LeakyDps' \subseteq LeakyDps
  <2> SUFFICES ASSUME NEW e \in LeakyDps', e # dp \/ k = "owner"
               PROVE  e \in LeakyDps
    OBVIOUS
  <2>1. e \in heap.dps /\ e \in DPs
    BY <1>2, <1>9 DEF LeakyDps, Heap
  <2>2. CASE \E b \in LeakyAps' : heap'.apdp[b] = e
    <3>1. PICK b \in LeakyAps' : heap.apdp[b] = e
      BY <1>9, <2>2
    <3>2. b \in LeakyAps
      BY <1>2, <1>13, <3>1
    <3> QED
      BY <2>1, <3>1, <3>2 DEF LeakyDps
  <2>3. CASE heap'.dpref[e] = 0 /\ e # dp'
    BY <1>2, <1>9, <2>1, <2>3 DEF LeakyDps
  <2>4. CASE heap'.dpref[e] > DpN(heap', HeldDp', e)
    BY <1>9, <1>11, <2>1, <2>4 DEF LeakyDps
  <2> QED
    BY <2>2, <2>3, <2>4 DEF LeakyDps
<1>15. LeaksCounted' /\ losses' \in 0..MaxLosses
  <2>1. CASE k = "owner"
    BY <1>1, <1>13, <1>14, <2>1, NoNewLeak DEF IInv, TypeOK
  <2>2. CASE k # "owner"
    BY <1>1, <1>13, <1>14, <2>2, OneNewLeak
  <2> QED
    BY <2>1, <2>2
<1>16. TypeOK'
  BY <1>2, <1>5, <1>9, <1>15 DEF IInv, TypeOK, Heap, Lists
<1>17. ScanState'
  BY <1>2, <1>9 DEF IInv, ScanState, Count
<1> QED
  BY <1>9, <1>12, <1>15, <1>16, <1>17 DEF IInv

LEMMA RescueFailsIInv ==
    ASSUME IInv, RescueFails
    PROVE  IInv'
<1>1. /\ heap \in Heap /\ list \in Lists /\ dp \in heap.dps /\ dp \in DPs
      /\ pc = "init" /\ ap = None /\ pc' = "select" /\ dp' = None /\ ap' = None
      /\ UNCHANGED <<scan, fault, ap, apsel, voids, list>>
      /\ HeldDp = None /\ HeldDp' = None /\ Lost
      /\ next < Count /\ next' = next + 1 /\ heap.dpref[dp] = 0
  BY DEF RescueFails, DpLeft, IInv, TypeOK, Heap, Lists, ScanState, HeldDp
<1>2. /\ heap.dpref \in [DPs -> Nat] /\ heap.dps \subseteq DPs
      /\ heap.aps \subseteq APs /\ heap.apref \in [APs -> Nat]
  BY <1>1 DEF Heap
\* a is the AP that is left behind, or None.
<1>3. ASSUME NEW a, heap' \in Heap, heap'.bad = heap.bad, heap'.dps = heap.dps,
             heap'.dpref = heap.dpref,
             heap.aps \subseteq heap'.aps, heap'.aps \subseteq heap.aps \cup {a},
             \A b \in heap.aps : /\ heap'.apref[b] = heap.apref[b]
                                 /\ heap'.apdp[b] = heap.apdp[b],
             a \in heap'.aps => /\ a \in APs \ heap.aps
                                /\ heap'.apref[a] = 0 /\ heap'.apdp[a] = dp
      PROVE  IInv'
  <2>1. \A e \in DPs : /\ DpN(heap', HeldDp', e) = DpN(heap, HeldDp, e)
                       /\ DpN(heap, HeldDp, e) \in Nat
    <3> TAKE e \in DPs
    <3>1. OnDp(heap', e) = OnDp(heap, e)
      BY <1>1, <1>2, <1>3 DEF OnDp
    <3> QED
      BY <1>1, <3>1, DpCountType DEF DpN
  <2>2. a \in heap'.aps => HoldN(list', ap', a) = 0
    BY <1>1, <1>3, FreshAp
  <2>3. Counted'
    <3>1. \A t \in Listed' : list'[t].ap \in heap'.aps
      BY <1>1, <1>3 DEF IInv, Counted, Listed
    <3>2. \A b \in heap'.aps : heap'.apdp[b] \in heap'.dps
      BY <1>1, <1>3 DEF IInv, Counted
    <3>3. \A b \in heap'.aps : heap'.apref[b] >= HoldN(list', ap', b)
      BY <1>1, <1>3, <2>2 DEF IInv, Counted
    <3>4. \A e \in heap'.dps : heap'.dpref[e] >= DpN(heap', HeldDp', e)
      BY <1>2, <1>3, <2>1 DEF IInv, Counted
    <3>5. \A b \in heap'.aps : heap'.apref[b] = 0 =>
             heap'.dpref[heap'.apdp[b]] = 0 /\ heap'.apdp[b] # dp'
      BY <1>1, <1>2, <1>3, <3>2, ScanAssumption DEF IInv, Counted
    <3> QED
      BY <3>1, <3>2, <3>3, <3>4, <3>5 DEF Counted
  <2>4. LeakyAps' \subseteq LeakyAps \cup {a}
    BY <1>1, <1>3 DEF LeakyAps
  <2>5. LeakyDps' \subseteq LeakyDps \cup {dp}
    <3> SUFFICES ASSUME NEW e \in LeakyDps', e # dp
                 PROVE  e \in LeakyDps
      OBVIOUS
    <3>1. e \in heap.dps /\ e \in DPs
      BY <1>2, <1>3 DEF LeakyDps
    <3>2. CASE \E b \in LeakyAps' : heap'.apdp[b] = e
      <4>1. PICK b \in LeakyAps' : heap'.apdp[b] = e
        BY <3>2
      <4>2. b # a /\ b \in LeakyAps
        BY <1>3, <2>4, <4>1 DEF LeakyAps
      <4> QED
        BY <1>3, <3>1, <4>1, <4>2 DEF LeakyDps, LeakyAps
    <3>3. CASE heap'.dpref[e] = 0 /\ e # dp'
      BY <1>3, <3>1, <3>3 DEF LeakyDps
    <3>4. CASE heap'.dpref[e] > DpN(heap', HeldDp', e)
      BY <1>3, <2>1, <3>1, <3>4 DEF LeakyDps
    <3> QED
      BY <3>2, <3>3, <3>4 DEF LeakyDps
  <2>6. LeaksCounted' /\ losses' \in 0..MaxLosses
    BY <1>1, <2>4, <2>5, OneNewLeak
  <2>7. next' \in 0..Devices
    BY <1>1, ScanAssumption DEF IInv, TypeOK, Count
  <2>8. TypeOK'
    BY <1>1, <1>3, <2>6, <2>7 DEF IInv, TypeOK, Heap
  <2>9. ScanState'
    BY <1>1 DEF ScanState
  <2> QED
    BY <1>3, <2>3, <2>6, <2>8, <2>9 DEF IInv
<1>4. CASE heap' = heap
  <2>1. None \notin heap'.aps
    BY <1>2, <1>4, ScanAssumption
  <2> QED
    BY <1>1, <1>3, <1>4, <2>1
<1>5. ASSUME NEW a \in APs \ heap.aps, heap' = AllocAp(a)
      PROVE  IInv'
  <2>1. /\ heap' \in Heap /\ heap'.bad = heap.bad /\ heap'.dps = heap.dps
        /\ heap'.dpref = heap.dpref /\ heap'.aps = heap.aps \cup {a}
        /\ heap'.apref = [heap.apref EXCEPT ![a] = 0]
        /\ heap'.apdp = [heap.apdp EXCEPT ![a] = dp]
    BY <1>1, <1>5 DEF AllocAp, Heap
  <2>2. /\ heap'.apref[a] = 0 /\ heap'.apdp[a] = dp
        /\ \A b \in heap.aps : /\ heap'.apref[b] = heap.apref[b]
                               /\ heap'.apdp[b] = heap.apdp[b]
    BY <1>1, <1>2, <2>1 DEF Heap
  <2> QED
    BY <1>3, <2>1, <2>2
<1> QED
  BY <1>4, <1>5 DEF RescueFails

LEMMA RaisedIInv ==
    ASSUME IInv, Raised
    PROVE  IInv'
<1>1. /\ heap \in Heap /\ list \in Lists /\ dp \in heap.dps /\ dp \in DPs
      /\ pc \in {"init", "aps", "probe"} /\ pc' = "idle" /\ dp' = None /\ ap' = None
      /\ UNCHANGED <<scan, next, fault, apsel, voids, list, heap>>
      /\ HeldDp \in {dp, None} /\ HeldDp' = None /\ Lost
  BY DEF Raised, IInv, TypeOK, Heap, Lists, ScanState, HeldDp, scanVars
<1>2. /\ heap.dpref \in [DPs -> Nat] /\ heap.dps \subseteq DPs
      /\ heap.aps \subseteq APs /\ heap.apref \in [APs -> Nat]
  BY <1>1 DEF Heap
<1>3. \A b \in APs : /\ HoldN(list, ap, b) \in Nat /\ OwnN(list, ap, b) \in Nat
                     /\ HoldN(list', ap', b) \in Nat
                     /\ HoldN(list', ap', b) <= HoldN(list, ap, b)
                     /\ b # ap => OwnN(list', ap', b) = OwnN(list, ap, b)
  <2> TAKE b \in APs
  <2>1. Cardinality(Holders(list, b)) \in Nat /\ Cardinality(Owners(list, b)) \in Nat
    BY HoldersFinite
  <2> QED
    BY <1>1, <2>1, ScanAssumption DEF HoldN, OwnN, One
<1>4. \A e \in DPs : /\ DpN(heap, HeldDp, e) \in Nat
                     /\ DpN(heap', HeldDp', e) \in Nat
                     /\ DpN(heap', HeldDp', e) <= DpN(heap, HeldDp, e)
                     /\ e # dp => DpN(heap', HeldDp', e) = DpN(heap, HeldDp, e)
  <2> TAKE e \in DPs
  <2>1. Cardinality(OnDp(heap, e)) \in Nat
    BY <1>1, OnDpFinite
  <2> QED
    BY <1>1, <2>1, ScanAssumption DEF DpN, One
<1>5. Counted'
  <2>1. \A b \in heap'.aps : heap'.apref[b] >= HoldN(list', ap', b)
    BY <1>1, <1>2, <1>3 DEF IInv, Counted
  <2>2. \A e \in heap'.dps : heap'.dpref[e] >= DpN(heap', HeldDp', e)
    BY <1>1, <1>2, <1>4 DEF IInv, Counted
  <2>3. \A b \in heap'.aps : heap'.apref[b] = 0 =>
           heap'.dpref[heap'.apdp[b]] = 0 /\ heap'.apdp[b] # dp'
    BY <1>1, <1>2, ScanAssumption DEF IInv, Counted
  <2> QED
    BY <1>1, <2>1, <2>2, <2>3 DEF IInv, Counted, Listed
<1>6. LeakyAps' \subseteq LeakyAps \cup {ap}
  BY <1>1, <1>2, <1>3 DEF LeakyAps
<1>7. LeakyDps' \subseteq LeakyDps \cup {dp}
  <2> SUFFICES ASSUME NEW e \in LeakyDps', e # dp
               PROVE  e \in LeakyDps
    OBVIOUS
  <2>1. e \in heap.dps /\ e \in DPs
    BY <1>1, <1>2 DEF LeakyDps
  <2>2. CASE \E b \in LeakyAps' : heap'.apdp[b] = e
    <3>1. PICK b \in LeakyAps' : heap.apdp[b] = e
      BY <1>1, <2>2
    <3>2. b # ap
      <4>1. ap \in heap'.aps => ap # None
        BY <1>1, <1>2, ScanAssumption
      <4>2. b \in heap'.aps
        BY DEF LeakyAps
      <4> QED
        BY <3>1, <4>1, <4>2 DEF IInv, ScanState
    <3> QED
      BY <1>6, <2>1, <3>1, <3>2 DEF LeakyDps
  <2>3. CASE heap'.dpref[e] = 0 /\ e # dp'
    BY <1>1, <2>1, <2>3 DEF LeakyDps
  <2>4. CASE heap'.dpref[e] > DpN(heap', HeldDp', e)
    BY <1>1, <1>4, <2>1, <2>4 DEF LeakyDps
  <2> QED
    BY <2>2, <2>3, <2>4 DEF LeakyDps
<1>8. LeaksCounted' /\ losses' \in 0..MaxLosses
  BY <1>1, <1>6, <1>7, OneNewLeak
<1>9. TypeOK'
  BY <1>1, <1>8 DEF IInv, TypeOK
<1>10. ScanState'
  BY <1>1 DEF ScanState
<1> QED
  BY <1>1, <1>5, <1>8, <1>9, <1>10 DEF IInv

LEMMA NextIInv == IInv /\ [Next]_vars => IInv'
<1> SUFFICES ASSUME IInv, [Next]_vars PROVE IInv'
  OBVIOUS
<1>1. CASE UNCHANGED vars
  BY <1>1, QuietIInv
     DEF vars, scanVars, initVars, IInv, TypeOK, ScanState, HeldDp, Count
<1>2. CASE Next
  BY <1>2, QuietActions, FreeIInv, DpFoundIInv, DpUselessIInv, DpPoweredIInv,
     ReleaseActions, RescueIInv, RescueFailsIInv, ApFoundIInv, ProbedIInv,
     ProbesDoneIInv, RaisedIInv
     DEF Next, Step
<1> QED
  BY <1>1, <1>2

\* The scan keeps its types: its loops stay within the devices and the AP
\* numbers, and no count is taken below 0.
THEOREM ScanTypeOK == Spec => []TypeOK
<1>1. IInv => TypeOK
  BY DEF IInv
<1> QED
  BY <1>1, InitIInv, NextIInv, PTL DEF Spec

\* Whatever is allocated, shared, lost by an exception or a failed allocation
\* and freed, in any number of scans: the counts of adiv5_dp_unref and
\* adiv5_ap_unref never free a block that somebody still uses.
THEOREM ScanNoUseAfterFree == Spec => []NoUseAfterFree
<1>1. IInv => NoUseAfterFree
  BY DEF IInv, NoUseAfterFree, Counted, ScanState
<1> QED
  BY <1>1, InitIInv, NextIInv, PTL DEF Spec

(***************************************************************************)
(* A block that nothing will free is one with a reference that nobody      *)
(* gives back: without it, its count would have brought it to the list or  *)
(* to adiv5_dp_init.                                                       *)
(***************************************************************************)
LEMMA UnreachableIsLeaky ==
    ASSUME IInv
    PROVE  /\ heap.aps \ ReachableAps \subseteq LeakyAps
           /\ heap.dps \ ReachableDps \subseteq LeakyDps
<1>1. /\ heap \in Heap /\ list \in Lists /\ heap.aps \subseteq APs
      /\ heap.apref \in [APs -> Nat] /\ heap.dpref \in [DPs -> Nat]
      /\ heap.dps \subseteq DPs
  BY DEF IInv, TypeOK, Heap, Lists
<1>2. ASSUME NEW a \in heap.aps \ ReachableAps PROVE a \in LeakyAps
  <2>1. [ap |-> a, kind |-> "owner"] # None
    BY <1>1, ScanAssumption DEF Target, Kinds
  <2>2. a # ap /\ Owners(list, a) = {}
    BY <2>1 DEF ReachableAps, Owners, Listed
  <2>3. OwnN(list, ap, a) = 0
    BY <2>2, FS_EmptySet DEF OwnN, One
  <2> QED
    BY <1>1, <2>3 DEF LeakyAps
<1>3. ASSUME NEW d \in heap.dps \ ReachableDps PROVE d \in LeakyDps
  <2>1. d # dp /\ \A a \in ReachableAps : heap.apdp[a] # d
    BY DEF ReachableDps
  <2>2. DpN(heap, HeldDp, d) \in Nat
    BY <1>1, DpCountType
  <2>3. CASE DpN(heap, HeldDp, d) = 0
    BY <1>1, <2>1, <2>3 DEF LeakyDps
  <2>4. CASE DpN(heap, HeldDp, d) # 0
    <3>1. OnDp(heap, d) # {}
      BY <1>1, <2>1, <2>4, FS_EmptySet, ScanAssumption DEF DpN, One, HeldDp
    <3>2. PICK a \in heap.aps : heap.apdp[a] = d
      BY <3>1 DEF OnDp
    <3>3. a \in LeakyAps
      BY <1>2, <2>1, <3>2
    <3> QED
      BY <3>2, <3>3 DEF LeakyDps
  <2> QED
    BY <2>3, <2>4
<1> QED
  BY <1>2, <1>3

\* Each failure that loses a reference (an exception in adiv5_dp_init, a
\* private block that could not be allocated, cortexa_probe) leaves at most
\* one DP and one AP behind, however many scans follow.
THEOREM ScanLeaksAreBounded == Spec => []LeaksAreBounded
<1>1. IInv => LeaksAreBounded
  <2> SUFFICES ASSUME IInv PROVE LeaksAreBounded
    OBVIOUS
  <2>1. /\ Cardinality(LeakyAps) <= losses /\ Cardinality(LeakyDps) <= losses
        /\ IsFiniteSet(LeakyAps) /\ IsFiniteSet(LeakyDps) /\ losses \in Nat
    BY LeakyFinite, ScanAssumption DEF IInv, LeaksCounted, TypeOK
  <2>2. /\ Cardinality(heap.aps \ ReachableAps) \in Nat
        /\ Cardinality(LeakyAps) \in Nat
        /\ Cardinality(heap.aps \ ReachableAps) <= Cardinality(LeakyAps)
    BY <2>1, UnreachableIsLeaky, NoMore
  <2>3. /\ Cardinality(heap.dps \ ReachableDps) \in Nat
        /\ Cardinality(LeakyDps) \in Nat
        /\ Cardinality(heap.dps \ ReachableDps) <= Cardinality(LeakyDps)
    BY <2>1, UnreachableIsLeaky, NoMore
  <2> QED
    BY <2>1, <2>2, <2>3 DEF LeaksAreBounded
<1> QED
  BY <1>1, InitIInv, NextIInv, PTL DEF Spec
=============================================================================
