---------------------------- MODULE CdcRxProofs -----------------------------
(***************************************************************************)
(* Proofs about the receive side of a USB CDC interface, for buffers and   *)
(* streams of any size and any number of bytes, connections and codings.   *)
(***************************************************************************)
EXTENDS CdcRx, SequenceTheorems, TLAPS

Items == {Eot} \cup {Data(n) : n \in Nat}
Bytes == {Data(n) : n \in Nat}

(***************************************************************************)
(* What the order of the bytes means for one buffer, and for two of which  *)
(* the first is ahead.                                                     *)
(***************************************************************************)
DataIn(s) == {i \in 1..Len(s) : s[i].kind = "data"}
Numbers(s) == {s[i].n : i \in DataIn(s)}
Sorted(s) == \A i, j \in DataIn(s) : i < j => s[i].n < s[j].n
Ahead(s, t) == \A x \in Numbers(s), y \in Numbers(t) : x < y

Types ==
    /\ dtr \in BOOLEAN /\ connectedFlag \in BOOLEAN
    /\ opens \in 0..MaxOpens /\ sent \in 0..MaxBytes /\ coding \in 0..MaxCodings
    /\ bits \subseteq Bits /\ got \subseteq Bits
    /\ pc \in {"wait", "coding", "closed", "opened", "read", "send"}
    /\ fifo \in Seq(Bytes) /\ Len(fifo) <= FifoSize
    /\ rx_buf \in Seq(Bytes) /\ Len(rx_buf) <= FifoSize
    /\ pc # "send" => rx_buf = <<>>
    /\ rx_stream \in Seq(Items) /\ Len(rx_stream) <= StreamSize
    /\ read \in Seq(Items)
    /\ lost \subseteq 1..sent

Codings ==
    /\ applied \in 0..coding
    /\ line_coding_stream \in Seq(0..coding) /\ Len(line_coding_stream) <= CodingRoom

(***************************************************************************)
(* The four places a byte can be in, each in order and each ahead of the   *)
(* next ones, which together hold every byte that was not given up.        *)
(***************************************************************************)
Queued(a, b, c, d, all) ==
    /\ Sorted(a) /\ Sorted(b) /\ Sorted(c) /\ Sorted(d)
    /\ Ahead(a, b) /\ Ahead(a, c) /\ Ahead(a, d)
    /\ Ahead(b, c) /\ Ahead(b, d) /\ Ahead(c, d)
    /\ Numbers(a) \cup Numbers(b) \cup Numbers(c) \cup Numbers(d) = all

InOrder == Queued(read, rx_stream, rx_buf, fifo, (1..sent) \ lost)

(***************************************************************************)
(* A change of the line state that is not in the notification word was     *)
(* seen by the tests of this round; bytes that are not announced in it are *)
(* of a connection that was closed before the task went back to the wait.  *)
(***************************************************************************)
Seen ==
    /\ "CONNECTION_UPDATE" \notin bits =>
          /\ pc \in {"wait", "read", "send"} => connectedFlag = dtr
          /\ pc = "opened" => dtr \/ ~connectedFlag
    /\ /\ pc = "wait" /\ dtr
       /\ "CONNECTION_UPDATE" \notin bits /\ "DATA_RX" \notin bits
       => fifo = <<>>

IInv == Types /\ Codings /\ InOrder /\ Seen


(***************************************************************************)
(* How the numbers in a buffer, and their order, follow from those in its  *)
(* parts: what a move from one buffer to the next preserves.               *)
(***************************************************************************)
LEMMA EmptyFacts ==
    Numbers(<<>>) = {} /\ Sorted(<<>>)
BY DEF Numbers, Sorted, DataIn

LEMMA SeqOfSubset ==
    ASSUME NEW S, NEW T, S \subseteq T, NEW s \in Seq(S)
    PROVE  s \in Seq(T)
<1>1. Len(s) \in Nat /\ s \in [1..Len(s) -> S]
  OBVIOUS
<1>2. s \in [1..Len(s) -> T]
  BY <1>1
<1> QED
  BY <1>1, <1>2

LEMMA BytesAreItems ==
    ASSUME NEW s \in Seq(Bytes)
    PROVE  s \in Seq(Items)
<1>1. Bytes \subseteq Items
  BY DEF Bytes, Items
<1> QED
  BY <1>1, SeqOfSubset

Joins(p, s, t) ==
    /\ p \in Seq(Items) /\ Len(p) = Len(s) + Len(t)
    /\ Len(s) \in Nat /\ Len(t) \in Nat
    /\ \A i \in 1..Len(s) : i \in 1..Len(p) /\ p[i] = s[i]
    /\ \A i \in 1..Len(t) : Len(s) + i \in 1..Len(p) /\ p[Len(s) + i] = t[i]
    /\ \A k \in 1..Len(p) :
          k \in 1..Len(s) \/ \E i \in 1..Len(t) : k = Len(s) + i

LEMMA ConcatIndexes ==
    ASSUME NEW s \in Seq(Items), NEW t \in Seq(Items), NEW p, p = s \o t
    PROVE  Joins(p, s, t)
<1>1. Len(s) \in Nat /\ Len(t) \in Nat
  OBVIOUS
<1>2. /\ p \in Seq(Items) /\ Len(p) = Len(s) + Len(t)
      /\ \A i \in 1..Len(s) + Len(t) :
            p[i] = IF i <= Len(s) THEN s[i] ELSE t[i - Len(s)]
  BY ConcatProperties
<1>3. \A i \in 1..Len(s) : i \in 1..Len(p) /\ p[i] = s[i]
  BY <1>1, <1>2
<1>4. ASSUME NEW i \in 1..Len(t)
      PROVE  Len(s) + i \in 1..Len(p) /\ p[Len(s) + i] = t[i]
  <2>1. /\ Len(s) + i \in 1..Len(s) + Len(t) /\ ~(Len(s) + i <= Len(s))
        /\ (Len(s) + i) - Len(s) = i
    BY <1>1
  <2> QED
    BY <1>2, <2>1
<1>5. ASSUME NEW k \in 1..Len(p), k \notin 1..Len(s)
      PROVE  \E i \in 1..Len(t) : k = Len(s) + i
  <2>1. k - Len(s) \in 1..Len(t) /\ k = Len(s) + (k - Len(s))
    BY <1>1, <1>2, <1>5
  <2> QED
    BY <2>1
<1> QED
  BY <1>1, <1>2, <1>3, <1>4, <1>5 DEF Joins

LEMMA ConcatNumbers ==
    ASSUME NEW s \in Seq(Items), NEW t \in Seq(Items), NEW p, p = s \o t
    PROVE  Numbers(p) = Numbers(s) \cup Numbers(t)
<1>1. /\ \A i \in 1..Len(s) : i \in 1..Len(p) /\ p[i] = s[i]
      /\ \A i \in 1..Len(t) : Len(s) + i \in 1..Len(p) /\ p[Len(s) + i] = t[i]
      /\ \A k \in 1..Len(p) :
            k \in 1..Len(s) \/ \E i \in 1..Len(t) : k = Len(s) + i
  <2>1. Joins(p, s, t)
    BY ConcatIndexes
  <2> QED
    BY <2>1 DEF Joins
<1>2. ASSUME NEW k \in DataIn(p) PROVE p[k].n \in Numbers(s) \cup Numbers(t)
  <2>1. k \in 1..Len(p) /\ p[k].kind = "data"
    BY DEF DataIn
  <2>2. CASE k \in 1..Len(s)
    BY <1>1, <2>1, <2>2 DEF Numbers, DataIn
  <2>3. CASE \E i \in 1..Len(t) : k = Len(s) + i
    <3>1. PICK i \in 1..Len(t) : k = Len(s) + i
      BY <2>3
    <3>2. p[k] = t[i]
      BY <1>1, <3>1
    <3> QED
      BY <2>1, <3>2 DEF Numbers, DataIn
  <2> QED
    BY <1>1, <2>1, <2>2, <2>3
<1>3. ASSUME NEW i \in DataIn(s) PROVE s[i].n \in Numbers(p)
  BY <1>1 DEF Numbers, DataIn
<1>4. ASSUME NEW i \in DataIn(t) PROVE t[i].n \in Numbers(p)
  <2>1. i \in 1..Len(t) /\ t[i].kind = "data"
    BY DEF DataIn
  <2>2. Len(s) + i \in DataIn(p) /\ p[Len(s) + i] = t[i]
    BY <1>1, <2>1 DEF DataIn
  <2> QED
    BY <2>2 DEF Numbers
<1>5. Numbers(p) \subseteq Numbers(s) \cup Numbers(t)
  BY <1>2 DEF Numbers
<1>6. Numbers(s) \subseteq Numbers(p) /\ Numbers(t) \subseteq Numbers(p)
  BY <1>3, <1>4 DEF Numbers
<1> QED
  BY <1>5, <1>6

LEMMA ConcatSorted ==
    ASSUME NEW s \in Seq(Items), NEW t \in Seq(Items), NEW p, p = s \o t
    PROVE  Sorted(p) <=> Sorted(s) /\ Sorted(t) /\ Ahead(s, t)
<1>1. /\ \A i \in 1..Len(s) : i \in 1..Len(p) /\ p[i] = s[i]
      /\ \A i \in 1..Len(t) : Len(s) + i \in 1..Len(p) /\ p[Len(s) + i] = t[i]
      /\ \A k \in 1..Len(p) :
            k \in 1..Len(s) \/ \E i \in 1..Len(t) : k = Len(s) + i
      /\ Len(s) \in Nat /\ Len(t) \in Nat
  <2>1. Joins(p, s, t)
    BY ConcatIndexes
  <2> QED
    BY <2>1 DEF Joins
<1>2. /\ \A i \in DataIn(s) : i \in DataIn(p) /\ p[i] = s[i] /\ i \in 1..Len(s)
      /\ \A i \in DataIn(t) :
            Len(s) + i \in DataIn(p) /\ p[Len(s) + i] = t[i] /\ i \in 1..Len(t)
  <2>1. ASSUME NEW i \in DataIn(s)
        PROVE  i \in DataIn(p) /\ p[i] = s[i] /\ i \in 1..Len(s)
    BY <1>1 DEF DataIn
  <2>2. ASSUME NEW i \in DataIn(t)
        PROVE  Len(s) + i \in DataIn(p) /\ p[Len(s) + i] = t[i] /\ i \in 1..Len(t)
    <3>1. i \in 1..Len(t) /\ t[i].kind = "data"
      BY DEF DataIn
    <3> QED
      BY <1>1, <3>1 DEF DataIn
  <2> QED
    BY <2>1, <2>2
<1>3. ASSUME NEW k \in DataIn(p)
      PROVE  k \in DataIn(s) \/ \E i \in DataIn(t) : k = Len(s) + i
  <2>1. k \in 1..Len(p) /\ p[k].kind = "data"
    BY DEF DataIn
  <2>2. CASE k \in 1..Len(s)
    BY <1>1, <2>1, <2>2 DEF DataIn
  <2>3. CASE \E i \in 1..Len(t) : k = Len(s) + i
    <3>1. PICK i \in 1..Len(t) : k = Len(s) + i
      BY <2>3
    <3>2. t[i].kind = "data"
      BY <1>1, <2>1, <3>1
    <3> QED
      BY <3>1, <3>2 DEF DataIn
  <2> QED
    BY <1>1, <2>1, <2>2, <2>3
<1>4. ASSUME Sorted(p) PROVE Sorted(s) /\ Sorted(t) /\ Ahead(s, t)
  <2>1. Sorted(s)
    BY <1>2, <1>4 DEF Sorted
  <2>2. ASSUME NEW i \in DataIn(t), NEW j \in DataIn(t), i < j
        PROVE  t[i].n < t[j].n
    <3>1. Len(s) + i < Len(s) + j
      BY <1>1, <1>2, <2>2
    <3> QED
      BY <1>2, <1>4, <3>1 DEF Sorted
  <2>3. ASSUME NEW i \in DataIn(s), NEW j \in DataIn(t) PROVE s[i].n < t[j].n
    <3>1. i < Len(s) + j
      BY <1>1, <1>2
    <3> QED
      BY <1>2, <1>4, <3>1 DEF Sorted
  <2> QED
    BY <2>1, <2>2, <2>3 DEF Sorted, Ahead, Numbers
<1>5. ASSUME Sorted(s), Sorted(t), Ahead(s, t) PROVE Sorted(p)
  <2> SUFFICES ASSUME NEW i \in DataIn(p), NEW j \in DataIn(p), i < j
               PROVE  p[i].n < p[j].n
    BY DEF Sorted
  <2>1. CASE i \in DataIn(s) /\ j \in DataIn(s)
    BY <1>2, <1>5, <2>1 DEF Sorted
  <2>2. ASSUME i \in DataIn(s), NEW k \in DataIn(t), j = Len(s) + k
        PROVE  p[i].n < p[j].n
    BY <1>2, <1>5, <2>2 DEF Ahead, Numbers
  <2>3. ASSUME NEW l \in DataIn(t), i = Len(s) + l, j \in DataIn(s)
        PROVE  FALSE
    BY <1>1, <1>2, <2>3
  <2>4. ASSUME NEW l \in DataIn(t), i = Len(s) + l, NEW k \in DataIn(t), j = Len(s) + k
        PROVE  p[i].n < p[j].n
    <3>1. l < k
      BY <1>1, <1>2, <2>4
    <3> QED
      BY <1>2, <1>5, <2>4, <3>1 DEF Sorted
  <2> QED
    BY <1>3, <2>1, <2>2, <2>3, <2>4
<1> QED
  BY <1>4, <1>5

\* The first n elements of s, and the others.
Front(s, n) == SubSeq(s, 1, n)
Rear(s, n) == SubSeq(s, n + 1, Len(s))

Parts(S, s, n, f, g) ==
    /\ f \in Seq(S) /\ Len(f) = n /\ \A i \in 1..n : f[i] = s[i]
    /\ g \in Seq(S) /\ Len(g) = Len(s) - n
    /\ \A i \in 1..Len(s) - n : g[i] = s[n + i]

IsJoin(s, f, g) == s = f \o g

LEMMA SplitParts ==
    ASSUME NEW S, NEW s \in Seq(S), NEW n \in 0..Len(s)
    PROVE  Parts(S, s, n, Front(s, n), Rear(s, n))
<1>1. Len(s) \in Nat /\ n \in Nat /\ n <= Len(s) /\ \A i \in 1..Len(s) : s[i] \in S
  OBVIOUS
<1>2. /\ Front(s, n) \in Seq(S) /\ Len(Front(s, n)) = n
      /\ \A i \in 1..n : Front(s, n)[i] = s[i]
  BY <1>1, SubSeqProperties DEF Front
<1>3. /\ Rear(s, n) \in Seq(S) /\ Len(Rear(s, n)) = Len(s) - n
      /\ \A i \in 1..Len(s) - n : Rear(s, n)[i] = s[n + i]
  BY <1>1, SubSeqProperties DEF Rear
<1> QED
  BY <1>2, <1>3 DEF Parts

LEMMA PartsJoin ==
    ASSUME NEW S, NEW s \in Seq(S), NEW n \in 0..Len(s), NEW f, NEW g,
           Parts(S, s, n, f, g)
    PROVE  IsJoin(s, f, g)
<1>1. Len(s) \in Nat /\ n \in Nat /\ n <= Len(s)
  OBVIOUS
<1>2. /\ f \in Seq(S) /\ Len(f) = n /\ \A i \in 1..n : f[i] = s[i]
      /\ g \in Seq(S) /\ Len(g) = Len(s) - n
      /\ \A i \in 1..Len(s) - n : g[i] = s[n + i]
  BY DEF Parts
<1>3. PICK p : p = f \o g
  OBVIOUS
<1>4. /\ p \in Seq(S) /\ Len(p) = Len(f) + Len(g)
      /\ \A i \in 1..Len(f) + Len(g) :
            p[i] = IF i <= Len(f) THEN f[i] ELSE g[i - Len(f)]
  BY <1>2, <1>3, ConcatProperties
<1>5. Len(p) = Len(s)
  BY <1>1, <1>2, <1>4
<1>6. ASSUME NEW i \in 1..Len(s) PROVE p[i] = s[i]
  <2>1. i \in 1..Len(f) + Len(g)
    BY <1>1, <1>2
  <2>2. CASE i <= n
    <3>1. i \in 1..n
      BY <1>1, <2>2
    <3> QED
      BY <1>2, <1>4, <2>1, <2>2, <3>1
  <2>3. CASE ~(i <= n)
    <3>1. i - n \in 1..Len(s) - n /\ n + (i - n) = i
      BY <1>1, <2>3
    <3>2. p[i] = g[i - n]
      BY <1>2, <1>4, <2>1, <2>3
    <3> QED
      BY <1>2, <3>1, <3>2
  <2> QED
    BY <2>2, <2>3
<1>7. s = p
  BY <1>4, <1>5, <1>6, SeqEqual
<1> QED
  BY <1>3, <1>7 DEF IsJoin

LEMMA Split ==
    ASSUME NEW S, NEW s \in Seq(S), NEW n \in 0..Len(s),
           NEW f, f = Front(s, n), NEW g, g = Rear(s, n)
    PROVE  Parts(S, s, n, f, g) /\ IsJoin(s, f, g)
BY SplitParts, PartsJoin

(***************************************************************************)
(* The steps, one lemma per conjunct of the invariant.                     *)
(***************************************************************************)
LEMMA InitIInv == Init => IInv
<1> SUFFICES ASSUME Init PROVE IInv
  OBVIOUS
<1>1. /\ fifo = <<>> /\ rx_buf = <<>> /\ rx_stream = <<>> /\ read = <<>>
      /\ line_coding_stream = <<>> /\ lost = {} /\ sent = 0
  BY DEF Init
<1>2. /\ fifo \in Seq(Bytes) /\ rx_buf \in Seq(Bytes) /\ rx_stream \in Seq(Items)
      /\ read \in Seq(Items) /\ line_coding_stream \in Seq(0..coding)
      /\ Len(fifo) = 0 /\ Len(rx_buf) = 0 /\ Len(rx_stream) = 0
      /\ Len(line_coding_stream) = 0
  BY <1>1
<1>3. Types
  <2>1. /\ Len(fifo) <= FifoSize /\ Len(rx_buf) <= FifoSize
        /\ Len(rx_stream) <= StreamSize
    BY <1>2, SizesAssumption
  <2>2. /\ dtr \in BOOLEAN /\ connectedFlag \in BOOLEAN
        /\ opens \in 0..MaxOpens /\ sent \in 0..MaxBytes /\ coding \in 0..MaxCodings
        /\ pc = "wait" /\ bits = {} /\ got = {}
    <3>1. dtr \in BOOLEAN /\ connectedFlag \in BOOLEAN
      BY DEF Init
    <3>2. opens = 0 /\ sent = 0 /\ coding = 0 /\ pc = "wait" /\ bits = {} /\ got = {}
      BY DEF Init
    <3> QED
      BY <3>1, <3>2, SizesAssumption
  <2>3. pc \in {"wait", "coding", "closed", "opened", "read", "send"}
    BY <2>2
  <2> QED
    BY <1>1, <1>2, <2>1, <2>2, <2>3 DEF Types
<1>4. Codings
  BY <1>2, SizesAssumption DEF Codings, Init
<1>5. InOrder
  <2>1. (1..sent) \ lost = {}
    BY <1>1
  <2> QED
    BY <1>1, <2>1, EmptyFacts DEF InOrder, Queued, Ahead
<1>6. Seen
  BY DEF Seen, Init
<1> QED
  BY <1>3, <1>4, <1>5, <1>6 DEF IInv

LEMMA SeenStep ==
    ASSUME IInv, [Next]_vars
    PROVE  Seen'
<1> USE DEF host, task, out, readers
<1>1. Types /\ Seen
  BY DEF IInv
<1>2. CASE tud_cdc_rx_cb
  BY <1>1, <1>2 DEF tud_cdc_rx_cb, Notify, Seen
<1>3. CASE tud_cdc_line_state_cb
  BY <1>1, <1>3 DEF tud_cdc_line_state_cb, Notify, Seen
<1>4. CASE tud_cdc_line_coding_cb
  BY <1>1, <1>4 DEF tud_cdc_line_coding_cb, Notify, Seen
<1>5. CASE NotifyWait
  BY <1>1, <1>5 DEF NotifyWait, Seen
<1>6. CASE LineCoding
  BY <1>1, <1>6 DEF LineCoding, Seen
<1>7. CASE CheckClosed
  BY <1>1, <1>7 DEF CheckClosed, Seen, Types
<1>8. CASE CheckOpened
  BY <1>1, <1>8 DEF CheckOpened, Seen, Types
<1>9. CASE ReadFifo
  BY <1>1, <1>9 DEF ReadFifo, Seen
<1>10. CASE SendToStream
  BY <1>1, <1>10 DEF SendToStream, Seen
<1>11. CASE SendTimeout
  BY <1>1, <1>11 DEF SendTimeout, Seen
<1>12. CASE ReadStream
  BY <1>1, <1>12 DEF ReadStream, Seen
<1>13. CASE ReadCoding
  BY <1>1, <1>13 DEF ReadCoding, Seen
<1>14. CASE UNCHANGED vars
  BY <1>1, <1>14 DEF vars, Seen
<1> QED
  BY <1>2, <1>3, <1>4, <1>5, <1>6, <1>7, <1>8, <1>9, <1>10, <1>11, <1>12, <1>13,
     <1>14 DEF Next, HostStep, TaskStep

LEMMA CodingsStep ==
    ASSUME IInv, [Next]_vars
    PROVE  Codings'
<1> USE DEF host, task, out, readers
<1>1. /\ applied \in 0..coding /\ coding \in Nat
      /\ line_coding_stream \in Seq(0..coding) /\ Len(line_coding_stream) <= CodingRoom
      /\ Len(line_coding_stream) \in Nat /\ CodingRoom \in Nat \ {0}
  BY SizesAssumption DEF IInv, Types, Codings
<1>2. CASE tud_cdc_line_coding_cb
  <2>1. coding' = coding + 1 /\ applied' = applied
        /\ line_coding_stream' = line_coding_stream
    BY <1>2 DEF tud_cdc_line_coding_cb
  <2>2. 0..coding \subseteq 0..coding' /\ applied' \in 0..coding'
    BY <1>1, <2>1
  <2>3. PICK S : S = 0..coding
    OBVIOUS
  <2>4. PICK T : T = 0..coding'
    OBVIOUS
  <2>5. line_coding_stream \in Seq(T)
    <3>1. S \subseteq T /\ line_coding_stream \in Seq(S)
      BY <1>1, <2>2, <2>3, <2>4
    <3> QED
      BY <3>1, SeqOfSubset
  <2> QED
    BY <1>1, <2>1, <2>2, <2>4, <2>5 DEF Codings
<1>3. CASE LineCoding
  <2>1. /\ coding' = coding /\ applied' = applied
        /\ line_coding_stream' = IF "LINE_CODING_UPDATE" \in got THEN CodingsSent
                                 ELSE line_coding_stream
    BY <1>3 DEF LineCoding
  <2>2. coding \in 0..coding
    BY <1>1
  <2>3. <<coding>> \in Seq(0..coding) /\ Len(<<coding>>) = 1
    BY <2>2
  <2>4. Append(line_coding_stream, coding) \in Seq(0..coding)
        /\ Len(Append(line_coding_stream, coding)) = Len(line_coding_stream) + 1
    BY <1>1, <2>2, AppendProperties
  <2>5. CodingsSent \in Seq(0..coding) /\ Len(CodingsSent) <= CodingRoom
    <3>1. CASE Len(line_coding_stream) = CodingRoom
      BY <1>1, <2>3, <3>1 DEF CodingsSent
    <3>2. CASE Len(line_coding_stream) # CodingRoom
      <4>1. PICK longer : longer = Append(line_coding_stream, coding)
        OBVIOUS
      <4>2. longer \in Seq(0..coding) /\ Len(longer) <= CodingRoom
        BY <1>1, <2>4, <3>2, <4>1
      <4>3. CodingsSent = longer
        BY <3>2, <4>1 DEF CodingsSent
      <4> QED
        BY <4>2, <4>3
    <3> QED
      BY <3>1, <3>2
  <2> QED
    BY <1>1, <2>1, <2>5 DEF Codings
<1>4. CASE ReadCoding
  <2>1. /\ line_coding_stream # <<>> /\ coding' = coding
        /\ applied' = Head(line_coding_stream)
        /\ line_coding_stream' = Tail(line_coding_stream)
    BY <1>4 DEF ReadCoding
  <2>2. /\ Head(line_coding_stream) \in 0..coding
        /\ Tail(line_coding_stream) \in Seq(0..coding)
        /\ Len(Tail(line_coding_stream)) = Len(line_coding_stream) - 1
    BY <1>1, <2>1, HeadTailProperties
  <2> QED
    BY <1>1, <2>1, <2>2 DEF Codings
<1>5. ASSUME UNCHANGED <<coding, applied, line_coding_stream>> PROVE Codings'
  BY <1>1, <1>5 DEF Codings
<1>6. CASE tud_cdc_rx_cb \/ tud_cdc_line_state_cb \/ NotifyWait \/ CheckClosed
           \/ CheckOpened
  BY <1>5, <1>6
     DEF tud_cdc_rx_cb, tud_cdc_line_state_cb, NotifyWait, CheckClosed, CheckOpened
<1>7. CASE ReadFifo \/ SendToStream \/ SendTimeout \/ ReadStream \/ UNCHANGED vars
  BY <1>5, <1>7 DEF ReadFifo, SendToStream, SendTimeout, ReadStream, vars
<1> QED
  BY <1>2, <1>3, <1>4, <1>6, <1>7 DEF Next, HostStep, TaskStep


LEMMA ItemFacts ==
    /\ Eot \in Items /\ Eot.kind = "eot"
    /\ \A n \in Nat : Data(n) \in Bytes
    /\ \A x \in Bytes : x \in Items /\ x.kind = "data" /\ x.n \in Nat
BY DEF Items, Bytes, Eot, Data

LEMMA ByteNumbers ==
    ASSUME NEW s \in Seq(Bytes)
    PROVE  Numbers(s) = {s[i].n : i \in 1..Len(s)} /\ Numbers(s) \subseteq Nat
<1>1. \A i \in 1..Len(s) : s[i] \in Bytes
  OBVIOUS
<1>2. \A i \in 1..Len(s) : s[i].kind = "data" /\ s[i].n \in Nat
  BY <1>1, ItemFacts
<1>3. DataIn(s) = 1..Len(s)
  BY <1>2 DEF DataIn
<1> QED
  BY <1>2, <1>3 DEF Numbers

\* One element at the end of a buffer.
LEMMA SingleFacts ==
    /\ \A n \in Nat : <<Data(n)>> \in Seq(Bytes) /\ Numbers(<<Data(n)>>) = {n}
                      /\ Sorted(<<Data(n)>>) /\ Len(<<Data(n)>>) = 1
    /\ <<Eot>> \in Seq(Items) /\ Numbers(<<Eot>>) = {} /\ Sorted(<<Eot>>)
       /\ Len(<<Eot>>) = 1
<1>1. ASSUME NEW n \in Nat
      PROVE  <<Data(n)>> \in Seq(Bytes) /\ Numbers(<<Data(n)>>) = {n}
             /\ Sorted(<<Data(n)>>) /\ Len(<<Data(n)>>) = 1
  <2>1. PICK s : s = <<Data(n)>>
    OBVIOUS
  <2>2. PICK d \in Bytes : d = Data(n) /\ d.n = n
    BY ItemFacts DEF Data
  <2>3. s \in Seq(Bytes) /\ Len(s) = 1 /\ s[1] = d
    BY <2>1, <2>2
  <2>4. Numbers(s) = {n}
    BY <2>2, <2>3, ByteNumbers
  <2>5. Sorted(s)
    BY <2>3 DEF Sorted, DataIn
  <2> QED
    BY <2>1, <2>3, <2>4, <2>5
<1>2. <<Eot>> \in Seq(Items) /\ Len(<<Eot>>) = 1 /\ <<Eot>>[1] = Eot
  BY ItemFacts
<1>3. DataIn(<<Eot>>) = {}
  BY <1>2, ItemFacts DEF DataIn
<1>4. Numbers(<<Eot>>) = {} /\ Sorted(<<Eot>>)
  BY <1>3 DEF Numbers, Sorted
<1> QED
  BY <1>1, <1>2, <1>4

LEMMA AppendJoins ==
    ASSUME NEW S, NEW s \in Seq(S), NEW x \in S
    PROVE  Append(s, x) = s \o <<x>> /\ Append(s, x) \in Seq(S)
           /\ Len(Append(s, x)) = Len(s) + 1 /\ Len(s) \in Nat
<1>1. Append(s, x) \in Seq(S) /\ Len(Append(s, x)) = Len(s) + 1 /\ Len(s) \in Nat
  BY AppendProperties
<1>2. Append(s, x) = s \o <<x>>
  BY AppendIsConcat
<1> QED
  BY <1>1, <1>2


(***************************************************************************)
(* What each move of bytes does to the queue of the four places.           *)
(***************************************************************************)
LEMMA QueueAppend ==
    ASSUME NEW a, NEW b, NEW c, NEW d \in Seq(Items), NEW x \in Nat,
           NEW all \in SUBSET Nat, Queued(a, b, c, d, all), \A y \in all : y < x,
           NEW p, p = d \o <<Data(x)>>
    PROVE  Queued(a, b, c, p, all \cup {x})
<1>1. PICK e : e = <<Data(x)>>
  OBVIOUS
<1>2. e \in Seq(Items) /\ Numbers(e) = {x} /\ Sorted(e)
  BY <1>1, SingleFacts, BytesAreItems
<1>3. p = d \o e
  BY <1>1
<1>4. Numbers(p) = Numbers(d) \cup Numbers(e)
  BY <1>2, <1>3, ConcatNumbers
<1>5. Numbers(a) \subseteq all /\ Numbers(b) \subseteq all /\ Numbers(c) \subseteq all
      /\ Numbers(d) \subseteq all
  BY DEF Queued
<1>6. Ahead(a, e) /\ Ahead(b, e) /\ Ahead(c, e) /\ Ahead(d, e)
  BY <1>2, <1>5 DEF Ahead
<1>7. Sorted(p)
  BY <1>2, <1>3, <1>6, ConcatSorted DEF Queued
<1>8. Ahead(a, p) /\ Ahead(b, p) /\ Ahead(c, p)
  BY <1>4, <1>6 DEF Queued, Ahead
<1> QED
  BY <1>2, <1>4, <1>7, <1>8 DEF Queued

LEMMA QueueEot ==
    ASSUME NEW a, NEW b \in Seq(Items), NEW c, NEW d, NEW all,
           Queued(a, b, c, d, all), NEW p, p = b \o <<Eot>>
    PROVE  Queued(a, p, c, d, all)
<1>1. PICK e : e = <<Eot>>
  OBVIOUS
<1>2. e \in Seq(Items) /\ Numbers(e) = {} /\ Sorted(e) /\ p = b \o e
  BY <1>1, SingleFacts
<1>3. Numbers(p) = Numbers(b) \cup Numbers(e)
  BY <1>2, ConcatNumbers
<1>4. Ahead(b, e)
  BY <1>2 DEF Ahead
<1>5. Sorted(p)
  BY <1>2, <1>4, ConcatSorted DEF Queued
<1> QED
  BY <1>2, <1>3, <1>5 DEF Queued, Ahead

LEMMA QueueFetch ==
    ASSUME NEW a, NEW b, NEW d, NEW all, Queued(a, b, <<>>, d, all)
    PROVE  Queued(a, b, d, <<>>, all)
BY EmptyFacts DEF Queued, Ahead

LEMMA QueueSend ==
    ASSUME NEW a, NEW b \in Seq(Items), NEW c \in Seq(Items), NEW d, NEW all,
           Queued(a, b, c, d, all), NEW p, p = b \o c
    PROVE  Queued(a, p, <<>>, d, all)
<1>1. Numbers(p) = Numbers(b) \cup Numbers(c)
  BY ConcatNumbers
<1>2. Sorted(p)
  BY ConcatSorted DEF Queued
<1>3. Ahead(a, p) /\ Ahead(p, d)
  BY <1>1 DEF Queued, Ahead
<1>4. Ahead(a, <<>>) /\ Ahead(p, <<>>) /\ Ahead(<<>>, d)
  BY EmptyFacts DEF Ahead
<1> QED
  BY <1>1, <1>2, <1>3, <1>4, EmptyFacts DEF Queued

\* The part g of c = f \o g is given up.
LEMMA QueueGiveUp ==
    ASSUME NEW a, NEW b \in Seq(Items), NEW c, NEW d, NEW all \in SUBSET Nat,
           NEW f \in Seq(Items), NEW g \in Seq(Items), c = f \o g,
           Queued(a, b, c, d, all)
    PROVE  Queued(a, b, f, d, all \ Numbers(g))
<1>1. Numbers(c) = Numbers(f) \cup Numbers(g)
  BY ConcatNumbers
<1>2. Sorted(f) /\ Sorted(g) /\ Ahead(f, g)
  BY ConcatSorted DEF Queued
<1>3. /\ Ahead(a, f) /\ Ahead(b, f) /\ Ahead(f, d)
      /\ Ahead(a, g) /\ Ahead(b, g) /\ Ahead(g, d)
  BY <1>1 DEF Queued, Ahead
<1>4. Numbers(a) \cup Numbers(b) \cup Numbers(f) \cup Numbers(g) \cup Numbers(d) = all
  BY <1>1 DEF Queued
<1>5. ASSUME NEW x \in Numbers(g)
      PROVE  x \notin Numbers(a) /\ x \notin Numbers(b) /\ x \notin Numbers(f)
             /\ x \notin Numbers(d)
  <2>1. x \in all
    BY <1>4
  <2>2. x \in Nat
    BY <2>1
  <2>3. ~(x < x)
    BY <2>2
  <2> QED
    BY <1>2, <1>3, <2>3 DEF Ahead
<1>6. Numbers(a) \cup Numbers(b) \cup Numbers(f) \cup Numbers(d) = all \ Numbers(g)
  BY <1>4, <1>5
<1> QED
  BY <1>2, <1>3, <1>6 DEF Queued

LEMMA QueueRead ==
    ASSUME NEW a \in Seq(Items), NEW b, NEW c, NEW d, NEW all,
           NEW f \in Seq(Items), NEW g \in Seq(Items), b = f \o g,
           Queued(a, b, c, d, all), NEW p, p = a \o f
    PROVE  Queued(p, g, c, d, all)
<1>1. Numbers(b) = Numbers(f) \cup Numbers(g)
  BY ConcatNumbers
<1>2. Numbers(p) = Numbers(a) \cup Numbers(f)
  BY ConcatNumbers
<1>3. Sorted(f) /\ Sorted(g) /\ Ahead(f, g)
  BY ConcatSorted DEF Queued
<1>4. /\ Ahead(a, f) /\ Ahead(a, g) /\ Ahead(f, c) /\ Ahead(g, c)
      /\ Ahead(f, d) /\ Ahead(g, d)
  BY <1>1 DEF Queued, Ahead
<1>5. Sorted(p)
  BY <1>3, <1>4, ConcatSorted DEF Queued
<1>6. Ahead(p, g) /\ Ahead(p, c) /\ Ahead(p, d)
  BY <1>2, <1>3, <1>4 DEF Queued, Ahead
<1> QED
  BY <1>1, <1>2, <1>3, <1>4, <1>5, <1>6 DEF Queued


(***************************************************************************)
(* The actions that move bytes.                                            *)
(***************************************************************************)
LEMMA StateFacts ==
    ASSUME IInv
    PROVE  /\ fifo \in Seq(Bytes) /\ fifo \in Seq(Items) /\ Len(fifo) \in Nat
           /\ rx_buf \in Seq(Bytes) /\ rx_buf \in Seq(Items) /\ Len(rx_buf) \in Nat
           /\ rx_stream \in Seq(Items) /\ Len(rx_stream) \in Nat
           /\ read \in Seq(Items)
           /\ sent \in Nat /\ lost \subseteq 1..sent
           /\ (1..sent) \ lost \in SUBSET Nat
           /\ FifoSize \in Nat /\ StreamSize \in Nat
           /\ InOrder
<1>1. fifo \in Seq(Bytes) /\ rx_buf \in Seq(Bytes) /\ rx_stream \in Seq(Items)
      /\ read \in Seq(Items)
  BY DEF IInv, Types
<1>2. fifo \in Seq(Items) /\ rx_buf \in Seq(Items)
  BY <1>1, BytesAreItems
<1>3. Len(fifo) \in Nat /\ Len(rx_buf) \in Nat /\ Len(rx_stream) \in Nat
  BY <1>1
<1>4. sent \in Nat /\ lost \subseteq 1..sent /\ FifoSize \in Nat /\ StreamSize \in Nat
  BY SizesAssumption DEF IInv, Types
<1>5. (1..sent) \ lost \in SUBSET Nat
  BY <1>4
<1> QED
  BY <1>1, <1>2, <1>3, <1>4, <1>5 DEF IInv

LEMMA RxCbStep ==
    ASSUME IInv, tud_cdc_rx_cb
    PROVE  Types' /\ InOrder'
<1>1. /\ sent < MaxBytes /\ Len(fifo) < FifoSize /\ sent' = sent + 1
      /\ fifo' = Append(fifo, Data(sent + 1)) /\ bits' = bits \cup {"DATA_RX"}
      /\ UNCHANGED <<dtr, opens, coding, pc, got, connectedFlag, rx_buf, rx_stream,
                     lost, read>>
  BY DEF tud_cdc_rx_cb, Notify, task, out, readers
<1>2. PICK d \in Bytes : d = Data(sent + 1)
  BY StateFacts, ItemFacts
<1>3. fifo' = fifo \o <<d>> /\ fifo' \in Seq(Bytes) /\ Len(fifo') = Len(fifo) + 1
  BY <1>1, <1>2, StateFacts, AppendJoins
<1>4. Types'
  <2>1. Len(fifo') <= FifoSize
    BY <1>1, <1>3, StateFacts
  <2>2. sent' \in 0..MaxBytes /\ lost' \subseteq 1..sent'
    BY <1>1, StateFacts, SizesAssumption DEF IInv, Types
  <2>3. bits' \subseteq Bits
    BY <1>1 DEF IInv, Types, Bits
  <2> QED
    BY <1>1, <1>3, <2>1, <2>2, <2>3 DEF IInv, Types
<1>5. InOrder'
  <2>1. PICK all : all = (1..sent) \ lost
    OBVIOUS
  <2>2. /\ all \in SUBSET Nat /\ sent + 1 \in Nat /\ \A y \in all : y < sent + 1
        /\ all \cup {sent + 1} = (1..sent') \ lost'
    BY <1>1, <2>1, StateFacts
  <2>3. Queued(read, rx_stream, rx_buf, fifo, all)
    BY <2>1, StateFacts DEF InOrder
  <2>4. fifo \in Seq(Items) /\ fifo' = fifo \o <<Data(sent + 1)>>
    BY <1>2, <1>3, StateFacts
  <2>5. Queued(read, rx_stream, rx_buf, fifo', all \cup {sent + 1})
    BY <2>2, <2>3, <2>4, QueueAppend
  <2> QED
    BY <1>1, <2>2, <2>5 DEF InOrder
<1> QED
  BY <1>4, <1>5

LEMMA CheckClosedStep ==
    ASSUME IInv, CheckClosed
    PROVE  Types' /\ InOrder'
<1>1. /\ UNCHANGED <<dtr, opens, sent, coding, fifo, bits, got, rx_buf, lost, read>>
      /\ pc = "closed" /\ pc' \in {"wait", "opened"}
      /\ \/ rx_stream' = rx_stream
         \/ Len(rx_stream) < StreamSize /\ rx_stream' = Append(rx_stream, Eot)
  BY DEF CheckClosed, host, readers
<1>2. connectedFlag' \in BOOLEAN
  BY DEF CheckClosed, IInv, Types
<1>3. rx_stream' \in Seq(Items) /\ Len(rx_stream') <= StreamSize
      /\ Queued(read, rx_stream', rx_buf, fifo, (1..sent) \ lost)
  <2>1. CASE rx_stream' = rx_stream
    BY <2>1 DEF IInv, Types, InOrder
  <2>2. CASE Len(rx_stream) < StreamSize /\ rx_stream' = Append(rx_stream, Eot)
    <3>1. /\ rx_stream' = rx_stream \o <<Eot>> /\ rx_stream' \in Seq(Items)
          /\ Len(rx_stream') = Len(rx_stream) + 1
      BY <2>2, StateFacts, ItemFacts, AppendJoins
    <3>2. PICK all : all = (1..sent) \ lost
      OBVIOUS
    <3>3. Queued(read, rx_stream, rx_buf, fifo, all)
      BY <3>2, StateFacts DEF InOrder
    <3>4. Queued(read, rx_stream', rx_buf, fifo, all)
      BY <3>1, <3>3, StateFacts, QueueEot
    <3>5. Len(rx_stream') <= StreamSize
      BY <2>2, <3>1, StateFacts
    <3> QED
      BY <3>1, <3>2, <3>4, <3>5
  <2> QED
    BY <1>1, <2>1, <2>2
<1>4. Types'
  <2>1. pc' \in {"wait", "coding", "closed", "opened", "read", "send"} /\ rx_buf' = <<>>
    BY <1>1 DEF IInv, Types
  <2> QED
    BY <1>1, <1>2, <1>3, <2>1 DEF IInv, Types
<1>5. InOrder'
  BY <1>1, <1>3 DEF InOrder
<1> QED
  BY <1>4, <1>5

LEMMA ReadFifoStep ==
    ASSUME IInv, ReadFifo
    PROVE  Types' /\ InOrder'
<1>1. /\ UNCHANGED <<dtr, opens, sent, coding, bits, got, connectedFlag, rx_stream,
                     lost, read>>
      /\ fifo' = <<>> /\ rx_buf = <<>>
      /\ \/ fifo = <<>> /\ pc' = "wait" /\ rx_buf' = <<>>
         \/ pc' = "send" /\ rx_buf' = fifo
  BY DEF ReadFifo, host, out, readers, IInv, Types
<1>2. rx_buf' = fifo
  BY <1>1
<1>3. Types'
  <2>1. fifo' \in Seq(Bytes) /\ Len(fifo') = 0 /\ Len(fifo') <= FifoSize
    BY <1>1, StateFacts
  <2>2. rx_buf' \in Seq(Bytes) /\ Len(rx_buf') <= FifoSize
    BY <1>2 DEF IInv, Types
  <2>3. pc' \in {"wait", "coding", "closed", "opened", "read", "send"}
        /\ (pc' # "send" => rx_buf' = <<>>)
    BY <1>1
  <2> QED
    BY <1>1, <2>1, <2>2, <2>3 DEF IInv, Types
<1>4. InOrder'
  <2>1. PICK all : all = (1..sent) \ lost
    OBVIOUS
  <2>2. Queued(read, rx_stream, <<>>, fifo, all)
    BY <1>1, <2>1, StateFacts DEF InOrder
  <2>3. Queued(read, rx_stream, fifo, <<>>, all)
    BY <2>2, QueueFetch
  <2> QED
    BY <1>1, <1>2, <2>1, <2>3 DEF InOrder
<1> QED
  BY <1>3, <1>4

LEMMA SendToStreamStep ==
    ASSUME IInv, SendToStream
    PROVE  Types' /\ InOrder'
<1>1. /\ UNCHANGED <<dtr, opens, sent, coding, fifo, bits, got, connectedFlag, lost,
                     read>>
      /\ Len(rx_stream) + Len(rx_buf) <= StreamSize
      /\ rx_stream' = rx_stream \o rx_buf /\ rx_buf' = <<>> /\ pc' = "read"
  BY DEF SendToStream, host, readers
<1>2. rx_stream' \in Seq(Items) /\ Len(rx_stream') = Len(rx_stream) + Len(rx_buf)
  <2>1. Joins(rx_stream', rx_stream, rx_buf)
    BY <1>1, StateFacts, ConcatIndexes
  <2> QED
    BY <2>1 DEF Joins
<1>3. Types'
  <2>1. rx_buf' \in Seq(Bytes) /\ Len(rx_buf') = 0 /\ Len(rx_buf') <= FifoSize
    BY <1>1, StateFacts
  <2>2. pc' \in {"wait", "coding", "closed", "opened", "read", "send"}
    BY <1>1
  <2> QED
    BY <1>1, <1>2, <2>1, <2>2 DEF IInv, Types
<1>4. InOrder'
  <2>1. PICK all : all = (1..sent) \ lost
    OBVIOUS
  <2>2. Queued(read, rx_stream, rx_buf, fifo, all)
    BY <2>1, StateFacts DEF InOrder
  <2>3. Queued(read, rx_stream', <<>>, fifo, all)
    BY <1>1, <2>2, StateFacts, QueueSend
  <2> QED
    BY <1>1, <2>1, <2>3 DEF InOrder
<1> QED
  BY <1>3, <1>4

LEMMA SendTimeoutStep ==
    ASSUME IInv, SendTimeout
    PROVE  Types' /\ InOrder'
<1>1. PICK k : k = Fitting
  OBVIOUS
<1>2. /\ UNCHANGED <<dtr, opens, sent, coding, fifo, bits, got, connectedFlag, read>>
      /\ Len(rx_stream) + Len(rx_buf) > StreamSize
      /\ rx_stream' = rx_stream \o SubSeq(rx_buf, 1, k)
      /\ lost' = lost \cup {rx_buf[i].n : i \in k + 1 .. Len(rx_buf)}
      /\ rx_buf' = <<>> /\ pc' = "read"
  BY <1>1 DEF SendTimeout, host, readers
<1>3. k \in 0..Len(rx_buf) /\ k = StreamSize - Len(rx_stream)
  BY <1>1, <1>2, StateFacts DEF Fitting, IInv, Types
<1>4. PICK f : f = Front(rx_buf, k)
  OBVIOUS
<1>5. PICK g : g = Rear(rx_buf, k)
  OBVIOUS
<1>6. /\ f \in Seq(Bytes) /\ g \in Seq(Bytes) /\ rx_buf = f \o g
      /\ Len(f) = k /\ Len(g) = Len(rx_buf) - k
      /\ \A i \in 1..Len(rx_buf) - k : g[i] = rx_buf[k + i]
  <2>1. Parts(Bytes, rx_buf, k, f, g) /\ IsJoin(rx_buf, f, g)
    BY <1>3, <1>4, <1>5, StateFacts, Split
  <2>2. rx_buf = f \o g
    BY <2>1 DEF IsJoin
  <2> QED
    BY <2>1, <2>2 DEF Parts
<1>7. f \in Seq(Items) /\ g \in Seq(Items)
  BY <1>6, BytesAreItems
<1>8. Numbers(g) = {rx_buf[i].n : i \in k + 1 .. Len(rx_buf)}
  <2>1. Numbers(g) = {g[i].n : i \in 1..Len(g)}
    BY <1>6, ByteNumbers
  <2>2. ASSUME NEW i \in 1..Len(g)
        PROVE  k + i \in k + 1 .. Len(rx_buf) /\ g[i].n = rx_buf[k + i].n
    <3>1. k \in Nat /\ Len(rx_buf) \in Nat /\ i \in 1..Len(rx_buf) - k
      BY <1>3, <1>6, StateFacts
    <3> QED
      BY <1>6, <3>1
  <2>3. ASSUME NEW j \in k + 1 .. Len(rx_buf)
        PROVE  j - k \in 1..Len(g) /\ g[j - k].n = rx_buf[j].n
    <3>1. k \in Nat /\ Len(rx_buf) \in Nat
      BY <1>3, StateFacts
    <3>2. j - k \in 1..Len(rx_buf) - k /\ k + (j - k) = j
      BY <3>1
    <3> QED
      BY <1>6, <3>2
  <2>4. {g[i].n : i \in 1..Len(g)} \subseteq {rx_buf[i].n : i \in k + 1 .. Len(rx_buf)}
    BY <2>2
  <2>5. {rx_buf[i].n : i \in k + 1 .. Len(rx_buf)} \subseteq {g[i].n : i \in 1..Len(g)}
    BY <2>3
  <2> QED
    BY <2>1, <2>4, <2>5
<1>9. PICK all : all = (1..sent) \ lost
  OBVIOUS
<1>10. Queued(read, rx_stream, rx_buf, fifo, all) /\ all \in SUBSET Nat
  BY <1>9, StateFacts DEF InOrder
<1>11. Queued(read, rx_stream, f, fifo, all \ Numbers(g))
  BY <1>6, <1>7, <1>10, StateFacts, QueueGiveUp
<1>12. rx_stream' = rx_stream \o f
  BY <1>2, <1>4 DEF Front
<1>13. Queued(read, rx_stream', <<>>, fifo, all \ Numbers(g))
  <2>1. PICK left : left = all \ Numbers(g)
    OBVIOUS
  <2>2. Queued(read, rx_stream, f, fifo, left)
    BY <1>11, <2>1
  <2>3. Queued(read, rx_stream', <<>>, fifo, left)
    BY <1>7, <1>12, <2>2, StateFacts, QueueSend
  <2> QED
    BY <2>1, <2>3
<1>14. all \ Numbers(g) = (1..sent') \ lost'
  BY <1>2, <1>8, <1>9
<1>15. InOrder'
  BY <1>2, <1>13, <1>14 DEF InOrder
<1>16. Types'
  <2>1. rx_stream' \in Seq(Items) /\ Len(rx_stream') = Len(rx_stream) + Len(f)
    <3>1. Joins(rx_stream', rx_stream, f)
      BY <1>7, <1>12, StateFacts, ConcatIndexes
    <3> QED
      BY <3>1 DEF Joins
  <2>2. Len(rx_stream') <= StreamSize
    BY <1>3, <1>6, <2>1, StateFacts
  <2>3. rx_buf' \in Seq(Bytes) /\ Len(rx_buf') = 0 /\ Len(rx_buf') <= FifoSize
    BY <1>2, StateFacts
  <2>4. Numbers(g) \subseteq all
    <3>1. Numbers(rx_buf) = Numbers(f) \cup Numbers(g)
      BY <1>6, <1>7, ConcatNumbers
    <3>2. Numbers(rx_buf) \subseteq all
      BY <1>10 DEF Queued
    <3> QED
      BY <3>1, <3>2
  <2>5. lost' \subseteq 1..sent'
    BY <1>2, <1>8, <1>9, <2>4, StateFacts
  <2>6. pc' \in {"wait", "coding", "closed", "opened", "read", "send"}
    BY <1>2
  <2> QED
    BY <1>2, <2>1, <2>2, <2>3, <2>5, <2>6 DEF IInv, Types
<1> QED
  BY <1>15, <1>16

LEMMA ReadStreamStep ==
    ASSUME IInv, ReadStream
    PROVE  Types' /\ InOrder'
<1>1. PICK n \in 1..Len(rx_stream) :
         /\ read' = read \o SubSeq(rx_stream, 1, n)
         /\ rx_stream' = SubSeq(rx_stream, n + 1, Len(rx_stream))
  BY DEF ReadStream
<1>2. UNCHANGED <<dtr, opens, sent, coding, fifo, bits, pc, got, connectedFlag,
                  rx_buf, lost>>
  BY DEF ReadStream, host, task
<1>3. PICK f : f = Front(rx_stream, n)
  OBVIOUS
<1>4. n \in 0..Len(rx_stream)
  BY StateFacts
<1>5. /\ f \in Seq(Items) /\ rx_stream' \in Seq(Items) /\ rx_stream = f \o rx_stream'
      /\ Len(rx_stream') = Len(rx_stream) - n
  <2>1. rx_stream' = Rear(rx_stream, n)
    BY <1>1 DEF Rear
  <2>2. Parts(Items, rx_stream, n, f, rx_stream') /\ IsJoin(rx_stream, f, rx_stream')
    BY <1>3, <1>4, <2>1, StateFacts, Split
  <2>3. rx_stream = f \o rx_stream'
    BY <2>2 DEF IsJoin
  <2> QED
    BY <2>2, <2>3 DEF Parts
<1>6. read' = read \o f
  BY <1>1, <1>3 DEF Front
<1>7. read' \in Seq(Items)
  <2>1. Joins(read', read, f)
    BY <1>5, <1>6, StateFacts, ConcatIndexes
  <2> QED
    BY <2>1 DEF Joins
<1>8. Types'
  <2>1. Len(rx_stream') <= StreamSize
    BY <1>4, <1>5, StateFacts DEF IInv, Types
  <2> QED
    BY <1>2, <1>5, <1>7, <2>1 DEF IInv, Types
<1>9. InOrder'
  <2>1. PICK all : all = (1..sent) \ lost
    OBVIOUS
  <2>2. Queued(read, rx_stream, rx_buf, fifo, all)
    BY <2>1, StateFacts DEF InOrder
  <2>3. Queued(read', rx_stream', rx_buf, fifo, all)
    BY <1>5, <1>6, <2>2, StateFacts, QueueRead
  <2> QED
    BY <1>2, <2>1, <2>3 DEF InOrder
<1> QED
  BY <1>8, <1>9


\* The other actions leave every byte where it is.
LEMMA StillStep ==
    ASSUME IInv, UNCHANGED <<sent, fifo, rx_buf, rx_stream, lost, read>>,
           dtr' \in BOOLEAN, connectedFlag' \in BOOLEAN, opens' \in 0..MaxOpens,
           coding' \in 0..MaxCodings, bits' \subseteq Bits, got' \subseteq Bits,
           pc' \in {"wait", "coding", "closed", "opened", "read"} \/ pc' = pc,
           pc' = pc \/ pc # "send"
    PROVE  Types' /\ InOrder'
<1>1. pc' \in {"wait", "coding", "closed", "opened", "read", "send"}
      /\ (pc' # "send" => rx_buf' = <<>>)
  BY DEF IInv, Types
<1>2. Types'
  BY <1>1 DEF IInv, Types
<1>3. InOrder'
  BY DEF IInv, InOrder
<1> QED
  BY <1>2, <1>3

LEMMA NextIInv == IInv /\ [Next]_vars => IInv'
<1> SUFFICES ASSUME IInv, [Next]_vars PROVE Types' /\ InOrder'
  BY SeenStep, CodingsStep DEF IInv
<1> USE DEF host, task, out, readers
<1>1. /\ dtr \in BOOLEAN /\ connectedFlag \in BOOLEAN /\ opens \in 0..MaxOpens
      /\ coding \in 0..MaxCodings /\ bits \subseteq Bits /\ got \subseteq Bits
      /\ MaxOpens \in Nat /\ MaxCodings \in Nat
  BY SizesAssumption DEF IInv, Types
<1>2. CASE tud_cdc_line_state_cb
  <2>1. /\ UNCHANGED <<sent, fifo, rx_buf, rx_stream, lost, read, pc, got, coding,
                       connectedFlag>>
        /\ dtr \/ opens < MaxOpens
        /\ dtr' = ~dtr /\ opens' = IF dtr THEN opens ELSE opens + 1
        /\ bits' = bits \cup {"CONNECTION_UPDATE"}
    BY <1>2 DEF tud_cdc_line_state_cb, Notify
  <2>2. dtr' \in BOOLEAN /\ opens' \in 0..MaxOpens /\ bits' \subseteq Bits
    BY <1>1, <2>1 DEF Bits
  <2> QED
    BY <1>1, <2>1, <2>2, StillStep
<1>3. CASE tud_cdc_line_coding_cb
  <2>1. /\ UNCHANGED <<sent, fifo, rx_buf, rx_stream, lost, read, pc, got, opens, dtr,
                       connectedFlag>>
        /\ coding < MaxCodings /\ coding' = coding + 1
        /\ bits' = bits \cup {"LINE_CODING_UPDATE"}
    BY <1>3 DEF tud_cdc_line_coding_cb, Notify
  <2>2. coding' \in 0..MaxCodings /\ bits' \subseteq Bits
    BY <1>1, <2>1 DEF Bits
  <2> QED
    BY <1>1, <2>1, <2>2, StillStep
<1>4. CASE NotifyWait
  BY <1>1, <1>4, StillStep DEF NotifyWait
<1>5. CASE LineCoding
  BY <1>1, <1>5, StillStep DEF LineCoding
<1>6. CASE CheckOpened
  <2>1. connectedFlag' \in BOOLEAN
    BY <1>1, <1>6 DEF CheckOpened
  <2>2. /\ UNCHANGED <<sent, fifo, rx_buf, rx_stream, lost, read, got, opens, dtr,
                       coding, bits>>
        /\ pc = "opened" /\ pc' = "read"
    BY <1>6 DEF CheckOpened
  <2> QED
    BY <1>1, <2>1, <2>2, StillStep
<1>7. CASE ReadCoding
  BY <1>1, <1>7, StillStep DEF ReadCoding
<1>8. CASE UNCHANGED vars
  BY <1>1, <1>8, StillStep DEF vars
<1>9. CASE tud_cdc_rx_cb
  BY <1>9, RxCbStep
<1>10. CASE CheckClosed
  BY <1>10, CheckClosedStep
<1>11. CASE ReadFifo
  BY <1>11, ReadFifoStep
<1>12. CASE SendToStream
  BY <1>12, SendToStreamStep
<1>13. CASE SendTimeout
  BY <1>13, SendTimeoutStep
<1>14. CASE ReadStream
  BY <1>14, ReadStreamStep
<1> QED
  BY <1>2, <1>3, <1>4, <1>5, <1>6, <1>7, <1>8, <1>9, <1>10, <1>11, <1>12, <1>13,
     <1>14 DEF Next, HostStep, TaskStep

LEMMA SpecIInv == Spec => []IInv
BY InitIInv, NextIInv, PTL DEF Spec

(***************************************************************************)
(* The buffers of the receive path keep to their sizes, and a byte that is *)
(* given up is one the host sent.                                          *)
(***************************************************************************)
THEOREM RxTypeOK == Spec => []TypeOK
<1>1. IInv => TypeOK
  BY DEF IInv, Types, Codings, TypeOK
<1> QED
  BY <1>1, SpecIInv, PTL

(***************************************************************************)
(* The notification word merges the callbacks of tinyusb into bits and     *)
(* cdc_rx_task_thread clears them before it looks: it still never sleeps   *)
(* on a change of the line state or on bytes of an open connection.        *)
(***************************************************************************)
THEOREM WakeupsAreKept == Spec => []NoLostWakeup
<1>1. IInv => NoLostWakeup
  BY DEF IInv, Seen, NoLostWakeup
<1> QED
  BY <1>1, SpecIInv, PTL

(***************************************************************************)
(* Through FIFO, local buffer and stream, with the EOT of a close pushed   *)
(* between them and the timeout cutting a block, the bytes stay in order,  *)
(* none is duplicated, and none is missing but those given up.             *)
(***************************************************************************)
THEOREM BytesInOrder == Spec => []InOrderExactlyOnce
<1>1. ASSUME IInv PROVE InOrderExactlyOnce
  <2>1. PICK p : p = read \o rx_stream
    OBVIOUS
  <2>2. PICK q : q = p \o rx_buf
    OBVIOUS
  <2>3. PICK l : l = q \o fifo
    OBVIOUS
  <2>4. p \in Seq(Items) /\ q \in Seq(Items) /\ l \in Seq(Items)
    <3>1. Joins(p, read, rx_stream)
      BY <1>1, <2>1, StateFacts, ConcatIndexes
    <3>2. p \in Seq(Items)
      BY <3>1 DEF Joins
    <3>3. Joins(q, p, rx_buf)
      BY <1>1, <2>2, <3>2, StateFacts, ConcatIndexes
    <3>4. q \in Seq(Items)
      BY <3>3 DEF Joins
    <3>5. Joins(l, q, fifo)
      BY <1>1, <2>3, <3>4, StateFacts, ConcatIndexes
    <3> QED
      BY <3>2, <3>4, <3>5 DEF Joins
  <2>5. Queued(read, rx_stream, rx_buf, fifo, (1..sent) \ lost)
    BY <1>1, StateFacts DEF InOrder
  <2>6. Numbers(p) = Numbers(read) \cup Numbers(rx_stream)
    BY <1>1, <2>1, StateFacts, ConcatNumbers
  <2>7. Numbers(q) = Numbers(p) \cup Numbers(rx_buf)
    BY <1>1, <2>2, <2>4, StateFacts, ConcatNumbers
  <2>8. Numbers(l) = Numbers(q) \cup Numbers(fifo)
    BY <1>1, <2>3, <2>4, StateFacts, ConcatNumbers
  <2>9. Sorted(p)
    BY <1>1, <2>1, <2>5, StateFacts, ConcatSorted DEF Queued
  <2>10. Sorted(q)
    <3>1. Ahead(p, rx_buf)
      BY <2>5, <2>6 DEF Queued, Ahead
    <3>2. Sorted(rx_buf)
      BY <2>5 DEF Queued
    <3> QED
      BY <1>1, <2>2, <2>4, <2>9, <3>1, <3>2, StateFacts, ConcatSorted
  <2>11. Sorted(l)
    <3>1. Ahead(q, fifo)
      BY <2>5, <2>6, <2>7 DEF Queued, Ahead
    <3>2. Sorted(fifo)
      BY <2>5 DEF Queued
    <3> QED
      BY <1>1, <2>3, <2>4, <2>10, <3>1, <3>2, StateFacts, ConcatSorted
  <2>12. Numbers(l) = (1..sent) \ lost
    BY <2>5, <2>6, <2>7, <2>8 DEF Queued
  <2>13. l = Pipeline
    BY <2>1, <2>2, <2>3 DEF Pipeline
  <2>14. DataAt = DataIn(l)
    BY <2>13 DEF DataAt, DataIn
  <2> QED
    BY <2>11, <2>12, <2>13, <2>14 DEF InOrderExactlyOnce, Sorted, Numbers
<1> QED
  BY <1>1, SpecIInv, PTL
=============================================================================
