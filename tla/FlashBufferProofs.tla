------------------------- MODULE FlashBufferProofs --------------------------
(***************************************************************************)
(* Proofs about the buffered flash programming of target.c, for any list   *)
(* of regions, any sector size and any number of loads and writes.         *)
(***************************************************************************)
EXTENDS FlashBuffer, WellFoundedInduction, TLAPS

\* What the buffer of region r holds for cell b: the data a later flush of
\* target_flash_write or target_flash_done will program there.
HeldIn(r, b) ==
    IF Dirty(r) /\ Base(b) = buf_addr[r] THEN buf[r][b % BufSize] ELSE ERASED

(***************************************************************************)
(* A buffer with an address is allocated, and a load has its number.       *)
(***************************************************************************)
Buffers ==
    /\ \A r \in R : buf_addr[r] # INVALID => allocated[r]
    /\ phase # "idle" => load \in 1..Loads

(***************************************************************************)
(* A load that started with empty buffers and met no error: flash and      *)
(* buffer hold nothing but what GDB wrote, programming the buffer over the *)
(* flash gives exactly that, and GDB wrote only to what it had erased.     *)
(***************************************************************************)
LoadInProgress ==
    phase = "loading" /\ clean =>
        /\ \A r \in R : \A b \in Cells(r) :
              /\ HeldIn(r, b) \in {wanted[b], ERASED}
              /\ wanted[b] # ERASED => b \in touched
              /\ b \in touched =>
                    /\ mem[b] \in {wanted[b], ERASED}
                    /\ mem[b] = wanted[b] \/ HeldIn(r, b) = wanted[b]

IInv == /\ TypeOK /\ Buffers /\ LoadInProgress
        /\ NothingForeign /\ CleanLoadCommits /\ CommitEmptiesBuffers


(***************************************************************************)
(* Arithmetic of sectors, and the regions.                                 *)
(***************************************************************************)
LEMMA BaseFacts ==
    ASSUME NEW b \in Nat
    PROVE  /\ b % BufSize \in 0..BufSize - 1
           /\ Base(b) \in Nat /\ Base(b) <= b
           /\ Base(b) + (b % BufSize) = b
<1>1. BufSize \in Nat /\ BufSize > 0
  BY RegionsAssumption
<1>2. b % BufSize \in 0..BufSize - 1
  BY <1>1
<1>3. b % BufSize <= b
  <2>1. CASE b < BufSize
    <3>1. b % BufSize = b
      BY <1>1, <2>1
    <3> QED
      BY <3>1
  <2>2. CASE ~(b < BufSize)
    BY <1>1, <1>2, <2>2
  <2> QED
    BY <2>1, <2>2
<1> QED
  BY <1>1, <1>2, <1>3 DEF Base

LEMMA RegionFacts ==
    /\ R = 1..Len(Regions) /\ Len(Regions) \in Nat
    /\ \A r \in R : Cells(r) \subseteq Nat /\ Cells(r) \subseteq Addr
    /\ Addr \subseteq Nat
    /\ \A b \in Addr : \E r \in R : b \in Cells(r)
    /\ \A r, s \in R : \A b : b \in Cells(r) /\ b \in Cells(s) => r = s
<1>1. Regions \in Seq([start : Nat, length : Nat])
  BY RegionsAssumption
<1>2. R = 1..Len(Regions) /\ Len(Regions) \in Nat
  BY <1>1 DEF R
<1>3. \A r \in R : Regions[r].start \in Nat /\ Regions[r].length \in Nat
  <2> DEFINE Region == [start : Nat, length : Nat]
  <2>1. Regions \in Seq(Region)
    BY <1>1
  <2> HIDE DEF Region
  <2>2. \A r \in R : Regions[r] \in Region
    BY <1>2, <2>1
  <2> QED
    BY <2>2 DEF Region
<1>4. \A r \in R : Cells(r) \subseteq Nat
  BY <1>3 DEF Cells
<1>5. \A r \in R : Cells(r) \subseteq Addr
  BY DEF Addr
<1>6. \A b \in Addr : \E r \in R : b \in Cells(r)
  BY DEF Addr
<1>7. \A r, s \in R : r # s => Cells(r) \cap Cells(s) = {}
  BY RegionsAssumption
<1> QED
  BY <1>2, <1>4, <1>5, <1>6, <1>7

\* The region that is chosen for a cell is the one the cell is in.
LEMMA ChosenRegion ==
    ASSUME NEW r \in R, NEW b \in Cells(r), NEW S \in SUBSET R, r \in S
    PROVE  (CHOOSE s \in S : b \in Cells(s)) = r
BY RegionFacts

(***************************************************************************)
(* Programming a cell with what is wanted, or with nothing, over what is   *)
(* wanted, or over nothing, garbles nothing.                               *)
(***************************************************************************)
LEMMA ProgrammedFacts ==
    ASSUME NEW w, NEW c \in {w, ERASED}, NEW v \in {w, ERASED}
    PROVE  /\ Programmed(c, v) \in {w, ERASED}
           /\ c = w \/ v = w => Programmed(c, v) = w
           /\ Programmed(c, ERASED) = c
BY DEF Programmed

LEMMA ProgrammedData ==
    ASSUME NEW c \in Data, NEW v \in Data
    PROVE  Programmed(c, v) \in Data
BY DEF Programmed, Data

(***************************************************************************)
(* The first and the last sector of a chunk exist.                         *)
(***************************************************************************)
LEMMA LeastExists ==
    ASSUME NEW S, S \subseteq Nat, S # {}
    PROVE  \E x \in S : \A y \in S : x <= y
<1>1. IsWellFoundedOn(OpToRel(<, Nat), Nat)
  BY NatLessThanWellFounded
<1>2. PICK x \in S : \A y \in S : ~(<<y, x>> \in OpToRel(<, Nat))
  BY <1>1, WFMin
<1>3. OpToRel(<, Nat) = {ss \in Nat \X Nat : ss[1] < ss[2]}
  BY DEF OpToRel
<1>4. ASSUME NEW y \in S PROVE x <= y
  <2>1. <<y, x>> \in Nat \X Nat /\ x \in Nat /\ y \in Nat
    OBVIOUS
  <2>2. ~(<<y, x>> \in {ss \in Nat \X Nat : ss[1] < ss[2]})
    BY <1>2, <1>3
  <2>3. ~(<<y, x>>[1] < <<y, x>>[2])
    BY <2>1, <2>2
  <2> QED
    BY <2>1, <2>3
<1> QED
  BY <1>4

LEMMA GreatestExists ==
    ASSUME NEW S, NEW N \in Nat, S \subseteq 0..N, S # {}
    PROVE  \E x \in S : \A y \in S : y <= x
<1> DEFINE T == {N - s : s \in S}
<1>1. T \subseteq Nat /\ T # {}
  <2>1. \A s \in S : N - s \in Nat
    OBVIOUS
  <2> QED
    BY <2>1
<1>2. PICK t \in T : \A u \in T : t <= u
  BY <1>1, LeastExists
<1>3. PICK x \in S : t = N - x
  OBVIOUS
<1>4. ASSUME NEW y \in S PROVE y <= x
  <2>1. N - x <= N - y
    BY <1>2, <1>3
  <2>2. x \in 0..N /\ y \in 0..N
    OBVIOUS
  <2> QED
    BY <2>1, <2>2
<1> QED
  BY <1>4

LEMMA SectorFacts ==
    ASSUME NEW r \in R, NEW a \in Nat, NEW n \in Nat, Chunk(r, a, n) # {}
    PROVE  /\ Sectors(r, a, n) # {}
           /\ First(r, a, n) \in Sectors(r, a, n)
           /\ Last(r, a, n) \in Sectors(r, a, n)
           /\ Sectors(r, a, n) \subseteq {Base(b) : b \in Cells(r)}
           /\ \A b \in Chunk(r, a, n) : Base(b) \in Sectors(r, a, n)
<1>1. /\ Sectors(r, a, n) # {}
      /\ Sectors(r, a, n) \subseteq {Base(b) : b \in Cells(r)}
      /\ \A b \in Chunk(r, a, n) : Base(b) \in Sectors(r, a, n)
  BY DEF Sectors, Chunk
<1>2. Sectors(r, a, n) \subseteq 0..a + n /\ a + n \in Nat
  <2>1. ASSUME NEW b \in Chunk(r, a, n) PROVE Base(b) \in 0..a + n
    <3>1. b \in Nat /\ b <= a + n
      BY DEF Chunk
    <3> QED
      BY <3>1, BaseFacts
  <2> QED
    BY <2>1 DEF Sectors
<1>3. \E s \in Sectors(r, a, n) : \A q \in Sectors(r, a, n) : s <= q
  BY <1>1, <1>2, LeastExists
<1>4. \E s \in Sectors(r, a, n) : \A q \in Sectors(r, a, n) : q <= s
  BY <1>1, <1>2, GreatestExists
<1> QED
  BY <1>1, <1>3, <1>4 DEF First, Last


(***************************************************************************)
(* One lemma per action.                                                   *)
(***************************************************************************)
LEMMA BlankData ==
    /\ Blank \in [0..BufSize - 1 -> Data]
    /\ [r \in R |-> Blank] \in [R -> [0..BufSize - 1 -> Data]]
    /\ ERASED \in Data
BY DEF Blank, Data

LEMMA InitIInv == Init => IInv
<1> SUFFICES ASSUME Init PROVE IInv
  OBVIOUS
<1>1. TypeOK
  <2>1. mem \in [Addr -> Data] /\ wanted \in [Addr -> Data]
    BY BlankData DEF Init
  <2>2. buf \in [R -> [0..BufSize - 1 -> Data]] /\ allocated \in [R -> BOOLEAN]
    BY BlankData DEF Init
  <2>3. load \in 0..Loads
    BY RegionsAssumption DEF Init
  <2> QED
    BY <2>1, <2>2, <2>3 DEF TypeOK, Init
<1>2. Buffers /\ LoadInProgress /\ NothingForeign /\ CleanLoadCommits
      /\ CommitEmptiesBuffers
  BY DEF Init, Buffers, LoadInProgress, NothingForeign, CleanLoadCommits,
         CommitEmptiesBuffers
<1> QED
  BY <1>1, <1>2 DEF IInv

LEMMA EraseIInv ==
    ASSUME IInv, NEW a, NEW n, NEW failing, target_flash_erase(a, n, failing)
    PROVE  IInv'
<1>1. PICK range : range = a..a + n - 1
  OBVIOUS
<1>2. PICK gone : gone = range \cap UNION {Cells(r) : r \in ErasedParts(a, n) \ failing}
  OBVIOUS
<1>3. PICK old : old = IF EraseStarts THEN {} ELSE touched
  OBVIOUS
<1>4. /\ phase \in {"idle", "committed", "loading"}
      /\ EraseStarts => load < Loads
      /\ range \subseteq Addr
      /\ EraseStarts \/ \A b \in range : wanted[b] = ERASED
      /\ mem' = [b \in Addr |-> IF b \in gone THEN ERASED ELSE mem[b]]
      /\ phase' = IF failing = {} THEN "loading" ELSE "failed"
      /\ load' = IF EraseStarts THEN load + 1 ELSE load
      /\ wanted' = IF EraseStarts THEN [b \in Addr |-> ERASED] ELSE wanted
      /\ touched' = old \cup IF failing = {} THEN range ELSE gone
      /\ clean' = IF EraseStarts THEN \A r \in R : ~Dirty(r) ELSE clean
      /\ UNCHANGED <<buf, allocated, buf_addr>>
  BY <1>1, <1>2, <1>3 DEF target_flash_erase
<1>5. gone \subseteq range /\ gone \subseteq Addr
  BY <1>2, <1>4
<1>6. failing = {} => gone = range
  <2> SUFFICES ASSUME failing = {}, NEW b \in range PROVE b \in gone
    BY <1>5
  <2>1. PICK r \in R : b \in Cells(r)
    BY <1>4, RegionFacts
  <2>2. r \in ErasedParts(a, n) \ failing
    BY <1>1, <2>1 DEF ErasedParts
  <2> QED
    BY <1>2, <2>1, <2>2
<1>7. touched' = old \cup gone
  BY <1>4, <1>6
<1>8. EraseStarts \/ phase = "loading"
  BY <1>4 DEF EraseStarts
<1>9. load' \in 1..Loads
  BY <1>4, <1>8, RegionsAssumption DEF IInv, TypeOK, Buffers
<1>10. clean' \in BOOLEAN
  BY <1>4 DEF IInv, TypeOK
<1>11. TypeOK'
  <2>1. mem' \in [Addr -> Data] /\ wanted' \in [Addr -> Data]
    BY <1>4, BlankData DEF IInv, TypeOK
  <2>2. touched' \subseteq Addr
    BY <1>3, <1>5, <1>7 DEF IInv, TypeOK
  <2>3. phase' \in {"idle", "loading", "failed", "committed"} /\ load' \in 0..Loads
    BY <1>4, <1>9
  <2> QED
    BY <1>4, <1>10, <2>1, <2>2, <2>3 DEF IInv, TypeOK
<1>12. Buffers' /\ CleanLoadCommits' /\ CommitEmptiesBuffers'
  BY <1>4, <1>9 DEF IInv, Buffers, CleanLoadCommits, CommitEmptiesBuffers
<1>13. ASSUME clean'
       PROVE  \A r \in R : \A b \in Cells(r) :
                 /\ HeldIn(r, b)' \in {wanted'[b], ERASED}
                 /\ wanted'[b] # ERASED => b \in touched'
                 /\ b \in touched' =>
                       /\ mem'[b] \in {wanted'[b], ERASED}
                       /\ mem'[b] = wanted'[b] \/ HeldIn(r, b)' = wanted'[b]
  <2> SUFFICES ASSUME NEW r \in R, NEW b \in Cells(r)
               PROVE  /\ HeldIn(r, b)' \in {wanted'[b], ERASED}
                      /\ wanted'[b] # ERASED => b \in touched'
                      /\ b \in touched' =>
                            /\ mem'[b] \in {wanted'[b], ERASED}
                            /\ mem'[b] = wanted'[b] \/ HeldIn(r, b)' = wanted'[b]
    OBVIOUS
  <2>1. HeldIn(r, b)' = HeldIn(r, b) /\ b \in Addr
    BY <1>4, RegionFacts DEF HeldIn, Dirty
  <2>2. mem'[b] = IF b \in gone THEN ERASED ELSE mem[b]
    BY <1>4, <2>1
  <2>3. CASE EraseStarts
    <3>1. HeldIn(r, b) = ERASED
      BY <1>4, <1>13, <2>3 DEF HeldIn
    <3>2. wanted'[b] = ERASED /\ touched' = gone
      BY <1>3, <1>4, <1>7, <2>1, <2>3
    <3> QED
      BY <2>1, <2>2, <3>1, <3>2
  <2>4. CASE ~EraseStarts
    <3>1. phase = "loading" /\ clean /\ wanted' = wanted /\ touched' = touched \cup gone
      BY <1>3, <1>4, <1>7, <1>8, <1>13, <2>4
    <3>2. /\ HeldIn(r, b) \in {wanted[b], ERASED}
          /\ wanted[b] # ERASED => b \in touched
          /\ b \in touched =>
                /\ mem[b] \in {wanted[b], ERASED}
                /\ mem[b] = wanted[b] \/ HeldIn(r, b) = wanted[b]
      BY <3>1 DEF IInv, LoadInProgress
    <3>3. b \in gone => wanted[b] = ERASED
      BY <1>4, <1>5, <2>4
    <3> QED
      BY <2>1, <2>2, <3>1, <3>2, <3>3
  <2> QED
    BY <2>3, <2>4
<1>14. LoadInProgress'
  BY <1>13 DEF LoadInProgress
<1>15. NothingForeign'
  <2> SUFFICES ASSUME clean', NEW b \in touched'
               PROVE  mem'[b] \in {wanted'[b], ERASED}
    BY DEF NothingForeign
  <2>1. PICK r \in R : b \in Cells(r)
    BY <1>11, RegionFacts DEF TypeOK
  <2> QED
    BY <1>13, <2>1
<1> QED
  BY <1>11, <1>12, <1>14, <1>15 DEF IInv

LEMMA GiveUpIInv ==
    ASSUME IInv, GiveUp
    PROVE  IInv'
<1>1. TypeOK' /\ Buffers'
  BY DEF IInv, TypeOK, Buffers, GiveUp
<1>2. phase' = "idle"
  BY DEF GiveUp
<1> QED
  BY <1>1, <1>2
     DEF IInv, LoadInProgress, NothingForeign, CleanLoadCommits, CommitEmptiesBuffers

LEMMA RescanIInv ==
    ASSUME IInv, Rescan
    PROVE  IInv'
<1>1. /\ buf' = [r \in R |-> Blank] /\ phase' = "idle"
      /\ allocated' = [r \in R |-> FALSE] /\ buf_addr' = [r \in R |-> INVALID]
      /\ UNCHANGED <<mem, load, wanted, touched, clean>>
  BY DEF Rescan
<1>2. buf' \in [R -> [0..BufSize - 1 -> Data]] /\ allocated' \in [R -> BOOLEAN]
  BY <1>1, BlankData
<1>3. \A r \in R : buf_addr'[r] = INVALID
  BY <1>1
<1>4. TypeOK'
  BY <1>1, <1>2, <1>3 DEF IInv, TypeOK
<1>5. Buffers'
  BY <1>1, <1>3 DEF Buffers
<1> QED
  BY <1>1, <1>4, <1>5
     DEF IInv, LoadInProgress, NothingForeign, CleanLoadCommits, CommitEmptiesBuffers


LEMMA HeldData ==
    ASSUME IInv, NEW r \in R, NEW b \in Cells(r)
    PROVE  HeldIn(r, b) \in Data
<1>1. b % BufSize \in 0..BufSize - 1
  BY RegionFacts, BaseFacts
<1>2. buf[r] \in [0..BufSize - 1 -> Data]
  BY DEF IInv, TypeOK
<1> QED
  BY <1>1, <1>2, BlankData DEF HeldIn

LEMMA DoneIInv ==
    ASSUME IInv, NEW stop, NEW wrote, target_flash_done(stop, wrote)
    PROVE  IInv'
<1>1. PICK ok : ok = {r \in Visited(stop) : Dirty(r) /\ (r < stop \/ wrote)}
  OBVIOUS
<1>2. /\ phase = "loading" /\ stop \in 1..Len(Regions) + 1
      /\ mem' = [b \in Addr |->
                   IF \E r \in ok : b \in Cells(r) /\ Base(b) = buf_addr[r]
                   THEN Programmed(mem[b],
                          buf[CHOOSE r \in ok : b \in Cells(r)][b % BufSize])
                   ELSE mem[b]]
      /\ buf_addr' = [r \in R |-> IF r \in Visited(stop) /\ Dirty(r)
                                  THEN INVALID ELSE buf_addr[r]]
      /\ allocated' = [r \in R |-> allocated[r] /\ ~(r \in Visited(stop) /\ Dirty(r))]
      /\ phase' = IF stop > Len(Regions) THEN "committed" ELSE "failed"
      /\ buf' = [r \in R |-> IF r \in Visited(stop) /\ Dirty(r)
                             THEN Blank ELSE buf[r]]
      /\ UNCHANGED <<load, wanted, touched, clean>>
  BY <1>1 DEF target_flash_done
<1>3. ok \subseteq R
  BY <1>1 DEF Visited
<1>4. ASSUME NEW r \in R, NEW b \in Cells(r)
      PROVE  mem'[b] = IF r \in ok /\ Base(b) = buf_addr[r]
                       THEN Programmed(mem[b], HeldIn(r, b)) ELSE mem[b]
  <2>1. b \in Addr
    BY RegionFacts
  <2>2. CASE r \in ok /\ Base(b) = buf_addr[r]
    <3>1. (CHOOSE s \in ok : b \in Cells(s)) = r
      BY <1>3, <2>2, ChosenRegion
    <3>2. HeldIn(r, b) = buf[r][b % BufSize]
      BY <1>1, <2>2 DEF HeldIn
    <3> QED
      BY <1>2, <2>1, <2>2, <3>1, <3>2
  <2>3. CASE ~(r \in ok /\ Base(b) = buf_addr[r])
    <3>1. ~\E s \in ok : b \in Cells(s) /\ Base(b) = buf_addr[s]
      BY <1>3, <2>3, RegionFacts
    <3> QED
      BY <1>2, <2>1, <2>3, <3>1
  <2> QED
    BY <2>2, <2>3
<1>5. \A r \in R :
         /\ buf_addr'[r] = IF r \in Visited(stop) /\ Dirty(r)
                           THEN INVALID ELSE buf_addr[r]
         /\ buf_addr'[r] # INVALID => allocated[r] /\ ~(r \in Visited(stop) /\ Dirty(r))
  BY <1>2 DEF IInv, Buffers
<1>6. TypeOK'
  <2>1. mem' \in [Addr -> Data]
    <3>1. ASSUME NEW b \in Addr PROVE mem'[b] \in Data
      <4>1. PICK r \in R : b \in Cells(r)
        BY RegionFacts
      <4>2. mem[b] \in Data /\ HeldIn(r, b) \in Data
        BY <4>1, HeldData DEF IInv, TypeOK
      <4>3. Programmed(mem[b], HeldIn(r, b)) \in Data
        BY <4>2, ProgrammedData
      <4> QED
        BY <1>4, <4>1, <4>2, <4>3
    <3>2. DOMAIN mem' = Addr /\ mem' = [b \in Addr |-> mem'[b]]
      BY <1>2
    <3> QED
      BY <3>1, <3>2
  <2>2. buf' \in [R -> [0..BufSize - 1 -> Data]]
    BY <1>2, BlankData DEF IInv, TypeOK
  <2>3. allocated' \in [R -> BOOLEAN]
    BY <1>2 DEF IInv, TypeOK
  <2>4. \A r \in R : buf_addr'[r] \in {INVALID} \cup {Base(b) : b \in Cells(r)}
    BY <1>5 DEF IInv, TypeOK
  <2>5. phase' \in {"idle", "loading", "failed", "committed"}
    BY <1>2
  <2> QED
    BY <1>2, <2>1, <2>2, <2>3, <2>4, <2>5 DEF IInv, TypeOK
<1>7. Buffers'
  <2>1. load' \in 1..Loads
    BY <1>2 DEF IInv, Buffers
  <2>2. \A r \in R : buf_addr'[r] # INVALID => allocated'[r]
    BY <1>2, <1>5
  <2> QED
    BY <2>1, <2>2 DEF Buffers
<1>8. ASSUME clean, NEW r \in R, NEW b \in Cells(r), b \in touched
      PROVE  /\ mem'[b] \in {wanted[b], ERASED}
             /\ stop > Len(Regions) => mem'[b] = wanted[b]
  <2>1. /\ HeldIn(r, b) \in {wanted[b], ERASED}
        /\ mem[b] \in {wanted[b], ERASED}
        /\ mem[b] = wanted[b] \/ HeldIn(r, b) = wanted[b]
    BY <1>2, <1>8 DEF IInv, LoadInProgress
  <2>2. /\ Programmed(mem[b], HeldIn(r, b)) \in {wanted[b], ERASED}
        /\ Programmed(mem[b], HeldIn(r, b)) = wanted[b]
    BY <2>1, ProgrammedFacts
  <2>3. ASSUME stop > Len(Regions), ~(r \in ok /\ Base(b) = buf_addr[r])
        PROVE  HeldIn(r, b) = ERASED
    <3>1. r < stop /\ r <= stop
      BY <1>2, <2>3, RegionFacts
    <3>2. r \in Visited(stop)
      BY <3>1 DEF Visited
    <3> QED
      BY <1>1, <2>3, <3>1, <3>2 DEF HeldIn
  <2> QED
    BY <1>4, <1>8, <2>1, <2>2, <2>3
<1>9. ASSUME clean, NEW b \in touched
      PROVE  /\ mem'[b] \in {wanted[b], ERASED}
             /\ stop > Len(Regions) => mem'[b] = wanted[b]
  <2>1. PICK r \in R : b \in Cells(r)
    BY RegionFacts DEF IInv, TypeOK
  <2> QED
    BY <1>8, <1>9, <2>1
<1>10. NothingForeign' /\ CleanLoadCommits'
  BY <1>2, <1>9 DEF NothingForeign, CleanLoadCommits
<1>11. LoadInProgress'
  BY <1>2 DEF LoadInProgress
<1>12. CommitEmptiesBuffers'
  <2> SUFFICES ASSUME stop > Len(Regions), NEW r \in R PROVE buf_addr'[r] = INVALID
    BY <1>2 DEF CommitEmptiesBuffers
  <2>1. r \in Visited(stop)
    BY <1>2, RegionFacts DEF Visited
  <2> QED
    BY <1>5, <2>1 DEF IInv, Buffers, Dirty
<1> QED
  BY <1>6, <1>7, <1>10, <1>11, <1>12 DEF IInv

(***************************************************************************)
(* One cell of a region that a vFlashWrite reaches: whatever the call      *)
(* flushes and keeps, flash and buffer together still give what GDB wrote. *)
(***************************************************************************)
NewHeld(r, a, n, b) ==
    IF Base(b) # Last(r, a, n) THEN ERASED
    ELSE IF b \in Chunk(r, a, n) THEN load
    ELSE IF Stays(r, a, n) /\ First(r, a, n) = Last(r, a, n)
         THEN buf[r][b % BufSize] ELSE ERASED

LEMMA WriteCell ==
    ASSUME NEW r \in R, NEW b \in Cells(r), NEW a \in Nat, NEW n \in Nat,
           Chunk(r, a, n) # {},
           HeldIn(r, b) \in {wanted[b], ERASED},
           mem[b] \in {wanted[b], ERASED},
           mem[b] = wanted[b] \/ HeldIn(r, b) = wanted[b],
           b \in Chunk(r, a, n) => wanted[b] = ERASED,
           NEW w, w = IF b \in Chunk(r, a, n) THEN load ELSE wanted[b]
    PROVE  /\ AfterFlush(r, a, n, b) \in {w, ERASED}
           /\ Base(b) \in Flushed(r, a, n) =>
                 AfterFlush(r, a, n, b) = w \/ NewHeld(r, a, n, b) = w
           /\ Base(b) \notin Flushed(r, a, n) =>
                 mem[b] = w \/ NewHeld(r, a, n, b) = w
<1>1. PICK old : old = IF Stays(r, a, n) THEN ERASED ELSE HeldIn(r, b)
  OBVIOUS
<1>2. PICK new :
         new = CASE Base(b) \notin Sectors(r, a, n) \ {Last(r, a, n)} -> ERASED
                 [] b \in Chunk(r, a, n) -> load
                 [] OTHER -> IF Stays(r, a, n) THEN HeldIn(r, b) ELSE ERASED
  OBVIOUS
<1>3. AfterFlush(r, a, n, b) = Programmed(Programmed(mem[b], old), new)
  BY <1>1, <1>2 DEF AfterFlush, HeldIn
<1>4. /\ Sectors(r, a, n) # {} /\ First(r, a, n) \in Sectors(r, a, n)
      /\ \A c \in Chunk(r, a, n) : Base(c) \in Sectors(r, a, n)
  BY SectorFacts
<1>5. CASE b \in Chunk(r, a, n)
  <2>1. mem[b] = ERASED /\ old = ERASED /\ w = load /\ new \in {w, ERASED}
    BY <1>1, <1>2, <1>5
  <2>2. Programmed(Programmed(mem[b], old), new) = new
    BY <2>1 DEF Programmed
  <2>3. Base(b) # Last(r, a, n) => new = load /\ Base(b) \in Flushed(r, a, n)
    BY <1>2, <1>4, <1>5 DEF Flushed
  <2>4. Base(b) = Last(r, a, n) => NewHeld(r, a, n, b) = w
    BY <1>5, <2>1 DEF NewHeld
  <2> QED
    BY <1>3, <2>1, <2>2, <2>3, <2>4
<1>6. CASE b \notin Chunk(r, a, n)
  <2>1. w = wanted[b] /\ old \in {w, ERASED} /\ new \in {w, ERASED}
        /\ mem[b] \in {w, ERASED}
    BY <1>1, <1>2, <1>6
  <2>2. PICK c : c = Programmed(mem[b], old)
    OBVIOUS
  <2>3. c \in {w, ERASED} /\ (mem[b] = w \/ old = w => c = w)
    BY <2>1, <2>2, ProgrammedFacts
  <2>4. /\ Programmed(c, new) \in {w, ERASED}
        /\ c = w \/ new = w => Programmed(c, new) = w
    BY <2>1, <2>3, ProgrammedFacts
  <2>5. ASSUME Base(b) \in Flushed(r, a, n), mem[b] # w
        PROVE  old = w \/ new = w
    <3>1. HeldIn(r, b) = w
      BY <2>1, <2>5
    <3>2. CASE ~Stays(r, a, n)
      BY <1>1, <3>1, <3>2
    <3>3. CASE Stays(r, a, n)
      <4>1. Base(b) \in Sectors(r, a, n) \ {Last(r, a, n)}
        BY <1>4, <2>5, <3>3 DEF Flushed
      <4> QED
        BY <1>2, <1>6, <3>1, <3>3, <4>1
    <3> QED
      BY <3>2, <3>3
  <2>6. ASSUME Base(b) \notin Flushed(r, a, n), mem[b] # w
        PROVE  NewHeld(r, a, n, b) = w
    <3>1. HeldIn(r, b) = w /\ w # ERASED
      BY <2>1, <2>6
    <3>2. Dirty(r) /\ Base(b) = buf_addr[r] /\ buf[r][b % BufSize] = w
      BY <3>1 DEF HeldIn
    <3>3. Stays(r, a, n) /\ Base(b) = First(r, a, n)
      BY <1>4, <2>6, <3>2 DEF Flushed, Stays
    <3>4. Base(b) = Last(r, a, n)
      BY <1>4, <2>6, <3>3 DEF Flushed
    <3> QED
      BY <1>6, <3>2, <3>3, <3>4 DEF NewHeld
  <2> QED
    BY <1>3, <2>2, <2>3, <2>4, <2>5, <2>6
<1> QED
  BY <1>5, <1>6


LEMMA WriteIInv ==
    ASSUME IInv, NEW a \in Addr, NEW n, NEW noBuffer, NEW failing,
           target_flash_write(a, n, noBuffer, failing)
    PROVE  IInv'
<1>1. PICK into : into = {r \in R : Chunk(r, a, n) # {}}
  OBVIOUS
<1>2. PICK served : served = into \ noBuffer
  OBVIOUS
<1>3. PICK written : written = {b \in Addr : \E r \in served :
                        b \in Cells(r) /\ Base(b) \in Flushed(r, a, n) \ failing}
  OBVIOUS
<1>4. /\ phase = "loading" /\ n \in 1..MaxWrite
      /\ \A b \in a..a + n - 1 : b \in touched /\ wanted[b] = ERASED
      /\ mem' = [b \in Addr |->
                   IF b \in written
                   THEN AfterFlush(CHOOSE r \in R : b \in Cells(r), a, n, b)
                   ELSE mem[b]]
      /\ buf' = [r \in R |-> IF r \in served THEN NewBuffer(r, a, n) ELSE buf[r]]
      /\ allocated' = [r \in R |-> allocated[r] \/ r \in served]
      /\ buf_addr' = [r \in R |-> IF r \in served THEN Last(r, a, n) ELSE buf_addr[r]]
      /\ wanted' = [b \in Addr |-> IF b \in a..a + n - 1 THEN load ELSE wanted[b]]
      /\ phase' = IF noBuffer = {} /\ failing = {} THEN "loading" ELSE "failed"
      /\ UNCHANGED <<load, touched, clean>>
  BY <1>1, <1>2, <1>3 DEF target_flash_write
<1>5. a \in Nat /\ n \in Nat
  BY <1>4, RegionFacts, RegionsAssumption
<1>6. served \subseteq R /\ \A r \in served : Chunk(r, a, n) # {}
  BY <1>1, <1>2
<1>7. load \in Data /\ load \in 1..Loads
  BY <1>4 DEF IInv, Buffers, Data
<1>8. ASSUME NEW r \in R, NEW b \in Cells(r)
      PROVE  /\ mem'[b] = IF r \in served /\ Base(b) \in Flushed(r, a, n) \ failing
                          THEN AfterFlush(r, a, n, b) ELSE mem[b]
             /\ wanted'[b] = IF b \in Chunk(r, a, n) THEN load ELSE wanted[b]
  <2>1. b \in Addr /\ (b \in a..a + n - 1 <=> b \in Chunk(r, a, n))
    BY RegionFacts DEF Chunk
  <2>2. (CHOOSE s \in R : b \in Cells(s)) = r
    BY ChosenRegion
  <2>3. b \in written <=> r \in served /\ Base(b) \in Flushed(r, a, n) \ failing
    BY <1>3, <1>6, <2>1, RegionFacts
  <2> QED
    BY <1>4, <2>1, <2>2, <2>3
<1>9. ASSUME NEW r \in served
      PROVE  /\ r \in R /\ buf'[r] = NewBuffer(r, a, n) /\ allocated'[r]
             /\ buf_addr'[r] = Last(r, a, n)
             /\ Last(r, a, n) \in {Base(b) : b \in Cells(r)}
             /\ Last(r, a, n) # INVALID
  <2>1. r \in R /\ Last(r, a, n) \in {Base(b) : b \in Cells(r)}
    BY <1>5, <1>6, SectorFacts
  <2>2. Last(r, a, n) \in Nat
    BY <2>1, RegionFacts, BaseFacts
  <2>3. buf'[r] = NewBuffer(r, a, n) /\ allocated'[r]
    BY <1>4, <1>9, <2>1
  <2>4. buf_addr'[r] = Last(r, a, n)
    BY <1>4, <1>9, <2>1
  <2>5. Last(r, a, n) # INVALID
    BY <2>2 DEF INVALID
  <2> QED
    BY <2>1, <2>3, <2>4, <2>5
<1>10. ASSUME NEW r \in served, NEW b \in Cells(r)
       PROVE  HeldIn(r, b)' = NewHeld(r, a, n, b)
  <2>1. r \in R /\ b \in Nat
    BY <1>6, RegionFacts
  <2>2. b % BufSize \in 0..BufSize - 1 /\ Base(b) + (b % BufSize) = b
    BY <2>1, BaseFacts
  <2>3. HeldIn(r, b)' = IF Base(b) = Last(r, a, n)
                        THEN NewBuffer(r, a, n)[b % BufSize] ELSE ERASED
    BY <1>9 DEF HeldIn, Dirty
  <2>4. NewBuffer(r, a, n)[b % BufSize] =
           IF Last(r, a, n) + (b % BufSize) \in Chunk(r, a, n) THEN load
           ELSE IF Stays(r, a, n) /\ First(r, a, n) = Last(r, a, n)
                THEN buf[r][b % BufSize] ELSE ERASED
    BY <2>2 DEF NewBuffer
  <2> QED
    BY <2>2, <2>3, <2>4 DEF NewHeld
<1>11. ASSUME NEW r \in R, r \notin served, NEW b \in Cells(r)
       PROVE  HeldIn(r, b)' = HeldIn(r, b)
  BY <1>4, <1>11 DEF HeldIn, Dirty
<1>12. TypeOK'
  <2>1. mem' \in [Addr -> Data]
    <3>1. ASSUME NEW b \in Addr PROVE mem'[b] \in Data
      <4>1. PICK r \in R : b \in Cells(r)
        BY RegionFacts
      <4>2. mem[b] \in Data /\ HeldIn(r, b) \in Data
        BY <4>1, HeldData DEF IInv, TypeOK
      <4>3. AfterFlush(r, a, n, b) \in Data
        <5>1. PICK old : old = IF Stays(r, a, n) THEN ERASED ELSE HeldIn(r, b)
          OBVIOUS
        <5>2. PICK new :
                 new = CASE Base(b) \notin Sectors(r, a, n) \ {Last(r, a, n)} -> ERASED
                         [] b \in Chunk(r, a, n) -> load
                         [] OTHER -> IF Stays(r, a, n) THEN HeldIn(r, b) ELSE ERASED
          OBVIOUS
        <5>3. AfterFlush(r, a, n, b) = Programmed(Programmed(mem[b], old), new)
          BY <5>1, <5>2 DEF AfterFlush, HeldIn
        <5>4. old \in Data /\ new \in Data
          BY <1>7, <4>2, <5>1, <5>2, BlankData
        <5>5. Programmed(mem[b], old) \in Data
          BY <4>2, <5>4, ProgrammedData
        <5> QED
          BY <5>3, <5>4, <5>5, ProgrammedData
      <4> QED
        BY <1>8, <4>1, <4>2, <4>3
    <3>2. mem' = [b \in Addr |-> mem'[b]]
      BY <1>4
    <3> QED
      BY <3>1, <3>2
  <2>2. wanted' \in [Addr -> Data]
    BY <1>4, <1>7 DEF IInv, TypeOK
  <2>3. buf' \in [R -> [0..BufSize - 1 -> Data]]
    <3>1. ASSUME NEW r \in R PROVE NewBuffer(r, a, n) \in [0..BufSize - 1 -> Data]
      <4>1. buf[r] \in [0..BufSize - 1 -> Data]
        BY DEF IInv, TypeOK
      <4>2. \A o \in 0..BufSize - 1 : buf[r][o] \in Data /\ load \in Data
                                     /\ ERASED \in Data
        BY <1>7, <4>1, BlankData
      <4> QED
        BY <4>2 DEF NewBuffer
    <3> QED
      BY <1>4, <3>1 DEF IInv, TypeOK
  <2>4. allocated' \in [R -> BOOLEAN]
    BY <1>4 DEF IInv, TypeOK
  <2>5. \A r \in R : buf_addr'[r] \in {INVALID} \cup {Base(b) : b \in Cells(r)}
    BY <1>4, <1>9 DEF IInv, TypeOK
  <2>6. phase' \in {"idle", "loading", "failed", "committed"}
    BY <1>4
  <2> QED
    BY <1>4, <2>1, <2>2, <2>3, <2>4, <2>5, <2>6 DEF IInv, TypeOK
<1>13. Buffers'
  <2>1. \A r \in R : buf_addr'[r] # INVALID => allocated'[r]
    BY <1>4, <1>9 DEF IInv, Buffers
  <2> QED
    BY <1>4, <1>7, <2>1 DEF Buffers
<1>14. ASSUME clean, NEW r \in R, NEW b \in Cells(r)
       PROVE  /\ b \in touched' => mem'[b] \in {wanted'[b], ERASED}
              /\ wanted'[b] # ERASED => b \in touched'
              /\ HeldIn(r, b)' \in {wanted'[b], ERASED}
              /\ b \in touched' /\ noBuffer = {} /\ failing = {} =>
                    mem'[b] = wanted'[b] \/ HeldIn(r, b)' = wanted'[b]
  <2>1. /\ HeldIn(r, b) \in {wanted[b], ERASED}
        /\ wanted[b] # ERASED => b \in touched
        /\ b \in touched =>
              /\ mem[b] \in {wanted[b], ERASED}
              /\ mem[b] = wanted[b] \/ HeldIn(r, b) = wanted[b]
    BY <1>4, <1>14 DEF IInv, LoadInProgress
  <2>2. b \in Chunk(r, a, n) => b \in touched /\ wanted[b] = ERASED
    BY <1>4 DEF Chunk
  <2>3. PICK w : w = wanted'[b]
    OBVIOUS
  <2>4. w = IF b \in Chunk(r, a, n) THEN load ELSE wanted[b]
    BY <1>8, <2>3
  <2>5. touched' = touched /\ (w # ERASED => b \in touched)
    BY <1>4, <2>1, <2>2, <2>4
  <2>6. CASE r \in served
    <3>1. Chunk(r, a, n) # {} /\ HeldIn(r, b)' = NewHeld(r, a, n, b)
      BY <1>6, <1>10, <2>6
    <3>2. NewHeld(r, a, n, b) \in {w, ERASED}
      <4>1. CASE Stays(r, a, n) /\ First(r, a, n) = Last(r, a, n)
                  /\ Base(b) = Last(r, a, n) /\ b \notin Chunk(r, a, n)
        <5>1. HeldIn(r, b) = buf[r][b % BufSize]
          BY <4>1 DEF Stays, HeldIn
        <5> QED
          BY <2>1, <2>4, <4>1, <5>1 DEF NewHeld
      <4>2. CASE ~(Stays(r, a, n) /\ First(r, a, n) = Last(r, a, n)
                   /\ Base(b) = Last(r, a, n) /\ b \notin Chunk(r, a, n))
        BY <2>4, <4>2 DEF NewHeld
      <4> QED
        BY <4>1, <4>2
    <3>3. ASSUME b \in touched
          PROVE  /\ AfterFlush(r, a, n, b) \in {w, ERASED}
                 /\ Base(b) \in Flushed(r, a, n) =>
                       AfterFlush(r, a, n, b) = w \/ NewHeld(r, a, n, b) = w
                 /\ Base(b) \notin Flushed(r, a, n) =>
                       mem[b] = w \/ NewHeld(r, a, n, b) = w
      BY <1>5, <2>1, <2>2, <2>4, <3>1, <3>3, WriteCell
    <3>4. mem'[b] = IF Base(b) \in Flushed(r, a, n) \ failing
                    THEN AfterFlush(r, a, n, b) ELSE mem[b]
      BY <1>8, <2>6
    <3>5. b \in touched => mem[b] \in {w, ERASED}
      BY <2>1, <2>2, <2>4
    <3> QED
      BY <2>3, <2>5, <3>1, <3>2, <3>3, <3>4, <3>5
  <2>7. CASE r \notin served
    <3>1. mem'[b] = mem[b] /\ HeldIn(r, b)' = HeldIn(r, b)
      BY <1>8, <1>11, <2>7
    <3>2. CASE b \in Chunk(r, a, n)
      <4>1. noBuffer # {}
        BY <1>1, <1>2, <2>7, <3>2
      <4>2. mem[b] = ERASED /\ HeldIn(r, b) = ERASED
        BY <2>1, <2>2, <3>2
      <4> QED
        BY <2>3, <2>5, <3>1, <4>1, <4>2
    <3>3. CASE b \notin Chunk(r, a, n)
      BY <2>1, <2>3, <2>4, <2>5, <3>1, <3>3
    <3> QED
      BY <3>2, <3>3
  <2> QED
    BY <2>6, <2>7
<1>15. LoadInProgress'
  <2> SUFFICES ASSUME phase' = "loading", clean', NEW r \in R, NEW b \in Cells(r)
               PROVE  /\ HeldIn(r, b)' \in {wanted'[b], ERASED}
                      /\ wanted'[b] # ERASED => b \in touched'
                      /\ b \in touched' =>
                            /\ mem'[b] \in {wanted'[b], ERASED}
                            /\ mem'[b] = wanted'[b] \/ HeldIn(r, b)' = wanted'[b]
    BY DEF LoadInProgress
  <2>1. clean /\ noBuffer = {} /\ failing = {}
    BY <1>4
  <2> QED
    BY <1>14, <2>1
<1>16. NothingForeign'
  <2> SUFFICES ASSUME clean', NEW b \in touched'
               PROVE  mem'[b] \in {wanted'[b], ERASED}
    BY DEF NothingForeign
  <2>1. PICK r \in R : b \in Cells(r)
    BY <1>12, RegionFacts DEF TypeOK
  <2>2. clean
    BY <1>4
  <2> QED
    BY <1>14, <2>1, <2>2
<1>17. CleanLoadCommits' /\ CommitEmptiesBuffers'
  BY <1>4 DEF CleanLoadCommits, CommitEmptiesBuffers
<1> QED
  BY <1>12, <1>13, <1>15, <1>16, <1>17 DEF IInv

LEMMA NextIInv == IInv /\ [Next]_vars => IInv'
<1> SUFFICES ASSUME IInv, [Next]_vars PROVE IInv'
  OBVIOUS
<1>1. ASSUME NEW a, NEW n, NEW failing, target_flash_erase(a, n, failing)
      PROVE  IInv'
  BY <1>1, EraseIInv
<1>2. ASSUME NEW a \in Addr, NEW n, NEW noBuffer, NEW failing,
             target_flash_write(a, n, noBuffer, failing)
      PROVE  IInv'
  BY <1>2, WriteIInv
<1>3. ASSUME NEW stop, NEW wrote, target_flash_done(stop, wrote) PROVE IInv'
  BY <1>3, DoneIInv
<1>4. CASE GiveUp
  BY <1>4, GiveUpIInv
<1>5. CASE Rescan
  BY <1>5, RescanIInv
<1>6. CASE UNCHANGED vars
  BY <1>6 DEF vars, IInv, TypeOK, Buffers, LoadInProgress, NothingForeign,
              CleanLoadCommits, CommitEmptiesBuffers, HeldIn, Dirty
<1> QED
  BY <1>1, <1>2, <1>3, <1>4, <1>5, <1>6 DEF Next

LEMMA SpecIInv == Spec => []IInv
BY InitIInv, NextIInv, PTL DEF Spec

(***************************************************************************)
(* The buffers of t->flash, their addresses and the flash keep their types *)
(* and a buffer address is the base of a sector of its own region.         *)
(***************************************************************************)
THEOREM FlashTypeOK == Spec => []TypeOK
BY SpecIInv, PTL DEF IInv

(***************************************************************************)
(* A load that started with empty buffers and was answered OK up to        *)
(* vFlashDone is in flash exactly, in whatever order and pieces            *)
(* target_flash_write got it.                                              *)
(***************************************************************************)
THEOREM LoadsCommit == Spec => []CleanLoadCommits
BY SpecIInv, PTL DEF IInv

(***************************************************************************)
(* A vFlashDone that is answered OK leaves no sector in a buffer: what it  *)
(* releases is exactly what target_flash_write had allocated.              *)
(***************************************************************************)
THEOREM CommitsEmptyBuffers == Spec => []CommitEmptiesBuffers
BY SpecIInv, PTL DEF IInv

(***************************************************************************)
(* A failed erase, write or commit, a chunk that spans sectors and regions *)
(* or a sector entered twice programs nothing that GDB did not write.      *)
(***************************************************************************)
THEOREM LoadsProgramNothingElse == Spec => []NothingForeign
BY SpecIInv, PTL DEF IInv
=============================================================================
