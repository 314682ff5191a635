--------------------------- MODULE UsbUartProofs ----------------------------
(***************************************************************************)
(* Proofs about the USB-UART bridge, for buffers, FIFO and stream of any   *)
(* size and any number of bytes and line codings.                          *)
(***************************************************************************)
EXTENDS UsbUart, SequenceTheorems, TLAPS

\* The flags, switches and counts.
Flags ==
    /\ enabled \in BOOLEAN /\ uart_irq \in BOOLEAN
    /\ rxdmae \in BOOLEAN /\ txdmae \in BOOLEAN
    /\ dma_occured \in BOOLEAN
    /\ raced \in BOOLEAN /\ recoded \in BOOLEAN /\ cut \in BOOLEAN
    /\ undefined \in BOOLEAN
    /\ codings \in 0..MaxCodings
    /\ arrived \in 0..MaxBytes /\ queued \in 0..MaxBytes
    /\ lc_pc \in {"receive", "stop_rx", "stop_tx", "reset", "init", "enable"}

(***************************************************************************)
(* The receive channels: a channel has something left to do exactly while  *)
(* it transfers.                                                           *)
(***************************************************************************)
Channels ==
    /\ busy \in [Chan -> BOOLEAN] /\ flag \in [Chan -> BOOLEAN]
    /\ irq0 \in [Chan -> BOOLEAN] /\ count \in [Chan -> 0..BufSize]
    /\ timers \in Nat
    /\ \A i \in Chan : busy[i] <=> count[i] > 0

(***************************************************************************)
(* A reception that no line coding disturbed: it has the one timer, and    *)
(* without a timer nothing of it is left; the channels take turns, and one *)
(* that has completed waits for its interrupt before it runs again.        *)
(***************************************************************************)
Reception == ~recoded =>
    /\ ~undefined
    /\ timers <= 1
    /\ timers = 0 => \A i \in Chan : ~busy[i] /\ ~irq0[i]
    /\ timers = 1 => ~uart_irq /\ lc_pc = "receive" /\ \A i \in Chan : irq0[i]
    /\ ~(busy[0] /\ busy[1])
    /\ Status(0) => ~busy[0]
    /\ Status(1) => ~busy[0] /\ ~busy[1]

(***************************************************************************)
(* The transmission, disturbed or not: its buffer is in use from the start *)
(* of the channel to the notification, which comes once and with nothing   *)
(* left to send.                                                           *)
(***************************************************************************)
Transmission ==
    /\ tx_busy \in BOOLEAN /\ tx_flag \in BOOLEAN /\ tx_irq0 \in BOOLEAN
    /\ notified \in BOOLEAN
    /\ tx_pc \in {"receive", "start", "enable", "request", "wait"}
    /\ tx_buffer \in Seq(Nat) /\ Len(tx_buffer) <= BufSize
    /\ tx_count \in 0..Len(tx_buffer)
    /\ tx_busy <=> tx_count > 0
    /\ tx_pc \in {"receive", "start"} => tx_count = 0
    /\ tx_pc = "start" => Len(tx_buffer) > 0
    /\ tx_pc \in {"receive", "start", "enable"} => ~tx_irq0 /\ ~notified
    /\ tx_pc \in {"enable", "request", "wait"} /\ tx_flag => tx_count = 0
    /\ notified => ~tx_irq0 /\ tx_count = 0

(***************************************************************************)
(* Bytes are numbers.  A byte in the receive path has arrived, one in the  *)
(* transmit path has come from the host.                                   *)
(***************************************************************************)
Numbers(s) == {s[i] : i \in 1..Len(s)}
Ahead(s, t) == \A x \in Numbers(s), y \in Numbers(t) : x < y

RxContents ==
    /\ fifo \in Seq(Nat) /\ Len(fifo) <= FifoSize
    /\ rx_stream \in Seq(Nat) /\ Len(rx_stream) <= StreamSize
    /\ taken \in Seq(Nat)
    /\ Numbers(fifo) \subseteq 1..arrived /\ Numbers(rx_stream) \subseteq 1..arrived
    /\ Numbers(taken) \subseteq 1..arrived /\ dropped \subseteq 1..arrived

\* The part of a buffer that its channel has filled holds bytes, and all of it
\* does when its completion is signalled.
Filled ==
    /\ rx_buffer \in [Chan -> [1..BufSize -> 0..arrived]]
    /\ \A i \in Chan : \A k \in 1..BufSize :
          Status(i) \/ (busy[i] /\ k <= BufSize - count[i]) => rx_buffer[i][k] > 0

TxContents ==
    /\ wire \in Seq(Nat) /\ tx_stream \in Seq(Nat)
    /\ Numbers(tx_stream) \subseteq 1..queued /\ tx_dropped \subseteq 1..queued

-----------------------------------------------------------------------------
(***************************************************************************)
(* The switches, the channels and the timer.                               *)
(***************************************************************************)
LEMMA InitSwitches == Init => Flags /\ Channels /\ Reception
<1> SUFFICES ASSUME Init PROVE Flags /\ Channels /\ Reception
  OBVIOUS
<1>1. Flags
  <2>1. /\ enabled = FALSE /\ uart_irq = FALSE /\ rxdmae = FALSE /\ txdmae = FALSE
        /\ dma_occured = FALSE /\ raced = FALSE /\ recoded = FALSE /\ cut = FALSE
        /\ undefined = FALSE /\ codings = 0 /\ arrived = 0 /\ queued = 0
        /\ lc_pc = "receive"
    BY DEF Init
  <2>2. codings \in 0..MaxCodings /\ arrived \in 0..MaxBytes /\ queued \in 0..MaxBytes
    BY <2>1, SizesAssumption
  <2> QED
    BY <2>1, <2>2 DEF Flags
<1>2. /\ busy = [i \in Chan |-> FALSE] /\ count = [i \in Chan |-> 0]
      /\ flag = [i \in Chan |-> FALSE] /\ irq0 = [i \in Chan |-> FALSE]
      /\ timers = 0 /\ ~undefined
  BY DEF Init
<1>3. Channels
  BY <1>2, SizesAssumption DEF Channels
<1>4. Reception
  BY <1>2 DEF Reception, Status, Chan
<1> QED
  BY <1>1, <1>3, <1>4

LEMMA FlagsStep ==
    ASSUME Flags, [Next]_vars
    PROVE  Flags'
<1> USE DEF uart, line, rx_dma, tx_dma, rx_soft, tx_soft, lc, history
<1>1. CASE Arrive
  BY <1>1, SizesAssumption DEF Arrive, Flags
<1>2. CASE MoveSomeRx
  BY <1>2 DEF MoveSomeRx, MoveRx, Flags
<1>3. CASE MoveTx
  BY <1>3 DEF MoveTx, Flags
<1>4. CASE usb_uart_rx_callback
  BY <1>4 DEF usb_uart_rx_callback, ConfigureRx, Flags
<1>5. CASE DmaIrq
  <2>1. CASE usb_uart_dma_handler_0
    BY <2>1 DEF usb_uart_dma_handler_0, Flags
  <2>2. CASE usb_uart_dma_handler_1
    BY <2>2 DEF usb_uart_dma_handler_1, ConfigureRx, Flags
  <2>3. CASE usb_uart_dma_handler_tx
    BY <2>3 DEF usb_uart_dma_handler_tx, Flags
  <2> QED
    BY <1>5, <2>1, <2>2, <2>3 DEF DmaIrq
<1>6. CASE TimerIrq
  <2>1. CASE TimeoutWaits
    BY <2>1 DEF TimeoutWaits, Flags
  <2>2. CASE TimeoutFlushes
    BY <2>2 DEF TimeoutFlushes, Flags
  <2> QED
    BY <1>6, <2>1, <2>2 DEF TimerIrq
<1>7. CASE TxThread
  <2>1. CASE RequestTx
    BY <2>1 DEF RequestTx, Flags
  <2>2. CASE Receive \/ StartTx \/ EnableTxIrq \/ WaitTx
    <3>1. UNCHANGED <<enabled, uart_irq, rxdmae, txdmae, dma_occured, raced, recoded, cut,
                      undefined, codings, arrived, queued, lc_pc>>
      BY <2>2 DEF Receive, StartTx, EnableTxIrq, WaitTx
    <3> QED
      BY <3>1 DEF Flags
  <2> QED
    BY <1>7, <2>1, <2>2 DEF TxThread
<1>8. CASE LineCodingThread
  <2>1. CASE StopRx \/ StopRxSecond
    <3>1. /\ lc_pc' \in {"stop_rx", "stop_tx"}
          /\ codings' = codings \/ (codings < MaxCodings /\ codings' = codings + 1)
          /\ recoded' = (recoded \/ timers > 0) /\ cut' = (cut \/ tx_pc # "receive")
          /\ UNCHANGED <<enabled, uart_irq, rxdmae, txdmae, dma_occured, raced, undefined,
                         arrived, queued>>
      BY <2>1 DEF StopRx, StopRxSecond, StopChannel, Cuts
    <3>2. codings' \in 0..MaxCodings
      BY <3>1, SizesAssumption DEF Flags
    <3>3. recoded' \in BOOLEAN /\ cut' \in BOOLEAN
      BY <3>1
    <3> QED
      BY <3>1, <3>2, <3>3 DEF Flags
  <2>2. CASE StopTx
    BY <2>2 DEF StopTx, Cuts, Flags
  <2>3. CASE ResetUart \/ InitUart
    BY <2>3 DEF ResetUart, InitUart, Cuts, Flags
  <2>4. CASE EnableUart
    BY <2>4 DEF EnableUart, Cuts, Flags
  <2> QED
    BY <1>8, <2>1, <2>2, <2>3, <2>4 DEF LineCodingThread
<1>9. CASE HostSends
  BY <1>9, SizesAssumption DEF HostSends, Flags
<1>10. CASE TakeStream
  BY <1>10 DEF TakeStream, Flags
<1>11. CASE UNCHANGED vars
  BY <1>11 DEF vars, Flags
<1> QED
  BY <1>1, <1>2, <1>3, <1>4, <1>5, <1>6, <1>7, <1>8, <1>9, <1>10, <1>11 DEF Next

(***************************************************************************)
(* The actions that do not touch the channels, the timer or the UART       *)
(* interrupt.                                                              *)
(***************************************************************************)
Bystander == UNCHANGED <<busy, count, flag, irq0, timers, uart_irq, lc_pc, recoded, undefined>>

LEMMA Bystanders ==
    ASSUME \/ Arrive \/ MoveTx \/ usb_uart_dma_handler_tx \/ TimeoutWaits
           \/ TxThread \/ HostSends \/ TakeStream \/ UNCHANGED vars
    PROVE  Bystander
<1> USE DEF uart, line, rx_dma, tx_dma, rx_soft, tx_soft, lc, history
<1>1. CASE Arrive
  BY <1>1 DEF Arrive, Bystander
<1>2. CASE MoveTx
  BY <1>2 DEF MoveTx, Bystander
<1>3. CASE usb_uart_dma_handler_tx
  BY <1>3 DEF usb_uart_dma_handler_tx, Bystander
<1>4. CASE TimeoutWaits
  BY <1>4 DEF TimeoutWaits, Bystander
<1>5. CASE TxThread
  BY <1>5 DEF TxThread, Receive, StartTx, EnableTxIrq, RequestTx, WaitTx, Bystander
<1>6. CASE HostSends
  BY <1>6 DEF HostSends, Bystander
<1>7. CASE TakeStream
  BY <1>7 DEF TakeStream, Bystander
<1>8. CASE UNCHANGED vars
  BY <1>8 DEF vars, Bystander
<1> QED
  BY <1>1, <1>2, <1>3, <1>4, <1>5, <1>6, <1>7, <1>8

LEMMA ReceptionStep ==
    ASSUME Flags, Channels, Reception, [Next]_vars
    PROVE  Channels' /\ Reception'
<1> USE DEF uart, line, rx_dma, tx_dma, rx_soft, tx_soft, lc, history
<1>1. BufSize \in Nat \ {0} /\ Chan = {0, 1}
  BY SizesAssumption DEF Chan
<1>2. CASE Bystander
  BY <1>2 DEF Bystander, Channels, Reception, Status
<1>3. ASSUME NEW i \in Chan, MoveRx(i) PROVE Channels' /\ Reception'
  <2>1. /\ busy[i]
        /\ flag' = [flag EXCEPT ![i] = @ \/ count[i] = 1]
        /\ busy' = [j \in Chan |-> IF j = i THEN count[i] # 1
                                   ELSE busy[j] \/ (count[i] = 1 /\ i = 0)]
        /\ count' = [j \in Chan |-> IF j = i THEN count[i] - 1
                                    ELSE IF count[i] = 1 /\ i = 0 THEN BufSize ELSE count[j]]
        /\ UNCHANGED <<irq0, timers, uart_irq, lc_pc, recoded, undefined>>
    BY <1>3 DEF MoveRx
  <2>2. Channels'
    <3>1. /\ busy \in [Chan -> BOOLEAN] /\ flag \in [Chan -> BOOLEAN]
          /\ irq0 \in [Chan -> BOOLEAN] /\ timers \in Nat
          /\ \A j \in Chan : count[j] \in 0..BufSize /\ (busy[j] <=> count[j] > 0)
      BY DEF Channels
    <3>2. /\ busy' \in [Chan -> BOOLEAN] /\ flag' \in [Chan -> BOOLEAN]
          /\ irq0' \in [Chan -> BOOLEAN] /\ timers' \in Nat
      BY <2>1, <3>1
    <3>3. ASSUME NEW j \in Chan
          PROVE  count'[j] \in 0..BufSize /\ (busy'[j] <=> count'[j] > 0)
      <4>1. CASE j = i
        <5>1. PICK c \in 1..BufSize : c = count[i]
          BY <1>1, <2>1, <3>1
        <5>2. count'[j] = c - 1 /\ busy'[j] = (c # 1)
          BY <2>1, <4>1, <5>1
        <5>3. c - 1 \in 0..BufSize /\ (c # 1 <=> c - 1 > 0)
          BY <1>1
        <5>4. busy'[j] <=> c - 1 > 0
          BY <5>2, <5>3
        <5> QED
          BY <5>2, <5>3, <5>4
      <4>2. CASE j # i
        BY <1>1, <2>1, <3>1, <4>2
      <4> QED
        BY <4>1, <4>2
    <3>4. count' \in [Chan -> 0..BufSize]
      BY <2>1, <3>3
    <3> QED
      BY <3>2, <3>3, <3>4 DEF Channels
  <2>3. Reception'
    BY <1>1, <2>1 DEF Channels, Reception, Status
  <2> QED
    BY <2>2, <2>3
<1>4. CASE usb_uart_rx_callback
  <2>1. /\ uart_irq /\ uart_irq' = FALSE /\ timers' = timers + 1
        /\ undefined' = (undefined \/ \E i \in Chan : busy[i])
        /\ busy' = [busy EXCEPT ![0] = TRUE]
        /\ count' = [count EXCEPT ![0] = BufSize]
        /\ flag' = [i \in Chan |-> FALSE] /\ irq0' = [i \in Chan |-> TRUE]
        /\ recoded' = (recoded \/ lc_pc # "receive") /\ UNCHANGED lc_pc
    BY <1>4 DEF usb_uart_rx_callback, ConfigureRx
  <2>2. Channels'
    BY <1>1, <2>1 DEF Channels
  <2>3. ASSUME ~recoded' PROVE Reception'
    <3>1. ~recoded /\ lc_pc = "receive" /\ lc_pc' = "receive"
      BY <2>1, <2>3
    <3>2. timers \in Nat /\ timers <= 1 /\ timers # 1 /\ ~undefined
      BY <2>1, <3>1 DEF Reception, Channels
    <3>3. timers = 0
      BY <3>2
    <3>4. ~busy[0] /\ ~busy[1]
      BY <1>1, <3>1, <3>3 DEF Reception
    <3>5. ~busy'[1] /\ ~flag'[0] /\ ~flag'[1] /\ irq0'[0] /\ irq0'[1] /\ timers' = 1
      BY <1>1, <2>1, <3>3, <3>4 DEF Channels
    <3>6. ~undefined'
      BY <1>1, <2>1, <3>2, <3>4
    <3> QED
      BY <1>1, <2>1, <3>1, <3>5, <3>6 DEF Reception, Status
  <2> QED
    BY <2>2, <2>3 DEF Reception
<1>5. CASE usb_uart_dma_handler_0
  <2>1. /\ flag' = [flag EXCEPT ![0] = FALSE]
        /\ UNCHANGED <<busy, count, irq0, timers, uart_irq, lc_pc, recoded, undefined>>
    BY <1>5 DEF usb_uart_dma_handler_0
  <2> QED
    BY <1>1, <2>1 DEF Channels, Reception, Status
<1>6. CASE usb_uart_dma_handler_1
  <2>1. /\ Status(1) /\ ~Status(0) /\ flag' = [flag EXCEPT ![1] = FALSE]
        /\ undefined' = (undefined \/ \E i \in Chan : busy[i])
        /\ busy' = [busy EXCEPT ![0] = TRUE]
        /\ count' = [count EXCEPT ![0] = BufSize]
        /\ UNCHANGED <<irq0, timers, uart_irq, lc_pc, recoded>>
    BY <1>6 DEF usb_uart_dma_handler_1, ConfigureRx
  <2>2. Channels'
    BY <1>1, <2>1 DEF Channels
  <2>3. Reception'
    BY <1>1, <2>1 DEF Channels, Reception, Status
  <2> QED
    BY <2>2, <2>3
<1>7. CASE TimeoutFlushes
  <2>1. /\ timers > 0 /\ timers' = timers - 1 /\ uart_irq' = TRUE
        /\ busy' = [i \in Chan |-> FALSE] /\ count' = [i \in Chan |-> 0]
        /\ irq0' = [i \in Chan |-> FALSE] /\ flag' \in [Chan -> BOOLEAN]
        /\ UNCHANGED <<lc_pc, recoded, undefined>>
    BY <1>7 DEF TimeoutFlushes, AbortRx, Spurious
  <2>2. Channels'
    BY <1>1, <2>1 DEF Channels
  <2>3. Reception'
    BY <1>1, <2>1 DEF Channels, Reception, Status
  <2> QED
    BY <2>2, <2>3
<1>8. CASE StopRx \/ StopRxSecond
  <2>1. PICK i \in Chan :
              /\ busy' = [busy EXCEPT ![i] = FALSE] /\ count' = [count EXCEPT ![i] = 0]
              /\ irq0' = [irq0 EXCEPT ![i] = FALSE]
              /\ flag' \in {flag, [flag EXCEPT ![i] = @ \/ busy[i]]}
              /\ recoded' = (recoded \/ timers > 0)
              /\ UNCHANGED <<timers, uart_irq, undefined>>
    BY <1>8 DEF StopRx, StopRxSecond, StopChannel, Chan
  <2>2. Channels'
    <3>1. flag' \in [Chan -> BOOLEAN]
      BY <2>1 DEF Channels
    <3> QED
      BY <1>1, <2>1, <3>1 DEF Channels
  <2>3. ASSUME ~recoded' PROVE Reception'
    <3>1. ~recoded /\ ~(timers > 0)
      BY <2>1, <2>3
    <3>2. timers = 0
      BY <3>1 DEF Channels
    <3> QED
      BY <3>2, <1>1, <2>1, <3>1 DEF Reception, Status
  <2> QED
    BY <2>2, <2>3 DEF Reception
<1>9. CASE StopTx
  <2>1. /\ lc_pc = "stop_tx" /\ lc_pc' = "reset"
        /\ UNCHANGED <<busy, count, flag, irq0, timers, uart_irq, recoded, undefined>>
    BY <1>9 DEF StopTx
  <2> QED
    BY <2>1 DEF Channels, Reception, Status
<1>10. CASE ResetUart \/ InitUart
  <2>1. /\ lc_pc # "receive" /\ lc_pc' # "receive" /\ uart_irq' = FALSE
        /\ UNCHANGED <<busy, count, flag, irq0, timers, recoded, undefined>>
    BY <1>10 DEF ResetUart, InitUart
  <2> QED
    BY <2>1 DEF Channels, Reception, Status
<1>11. CASE EnableUart
  <2>1. /\ lc_pc = "enable" /\ lc_pc' = "receive" /\ uart_irq' = TRUE
        /\ UNCHANGED <<busy, count, flag, irq0, timers, recoded, undefined>>
    BY <1>11 DEF EnableUart
  <2> QED
    BY <2>1 DEF Channels, Reception, Status
<1> QED
  BY <1>2, <1>3, <1>4, <1>5, <1>6, <1>7, <1>8, <1>9, <1>10, <1>11, Bystanders
     DEF Next, MoveSomeRx, DmaIrq, TimerIrq, LineCodingThread

-----------------------------------------------------------------------------
(***************************************************************************)
(* Sequences of bytes: what they hold and whether they are in order        *)
(* follows from their parts.                                               *)
(***************************************************************************)
IsJoin(p, s, t) == p = s \o t
Single(x) == <<x>>

\* The first n elements of s, and the others.
FirstPart(s, n) == SubSeq(s, 1, n)
LastPart(s, n) == SubSeq(s, n + 1, Len(s))

Joins(p, s, t) ==
    /\ p \in Seq(Nat) /\ Len(p) = Len(s) + Len(t)
    /\ Len(s) \in Nat /\ Len(t) \in Nat
    /\ \A i \in 1..Len(s) : i \in 1..Len(p) /\ p[i] = s[i]
    /\ \A i \in 1..Len(t) : Len(s) + i \in 1..Len(p) /\ p[Len(s) + i] = t[i]
    /\ \A k \in 1..Len(p) :
          k \in 1..Len(s) \/ \E i \in 1..Len(t) : k = Len(s) + i

LEMMA JoinIndexes ==
    ASSUME NEW s \in Seq(Nat), NEW t \in Seq(Nat), NEW p, IsJoin(p, s, t)
    PROVE  Joins(p, s, t)
<1>1. Len(s) \in Nat /\ Len(t) \in Nat
  OBVIOUS
<1>2. /\ p \in Seq(Nat) /\ Len(p) = Len(s) + Len(t)
      /\ \A i \in 1..Len(s) + Len(t) :
            p[i] = IF i <= Len(s) THEN s[i] ELSE t[i - Len(s)]
  BY ConcatProperties DEF IsJoin
<1>3. \A i \in 1..Len(s) : i \in 1..Len(p) /\ p[i] = s[i]
  BY <1>1, <1>2
<1>4. ASSUME NEW i \in 1..Len(t)
      PROVE  Len(s) + i \in 1..Len(p) /\ p[Len(s) + i] = t[i]
  <2>1. /\ Len(s) + i \in 1..Len(s) + Len(t) /\ ~(Len(s) + i <= Len(s))
        /\ (Len(s) + i) - Len(s) = i
    BY <1>1
  <2> QED
    BY <1>2, <2>1
<1>5. ASSUME NEW k \in 1..Len(p), k \notin 1..Len(s)
      PROVE  \E i \in 1..Len(t) : k = Len(s) + i
  <2>1. k - Len(s) \in 1..Len(t) /\ k = Len(s) + (k - Len(s))
    BY <1>1, <1>2, <1>5
  <2> QED
    BY <2>1
<1> QED
  BY <1>1, <1>2, <1>3, <1>4, <1>5 DEF Joins

LEMMA JoinNumbers ==
    ASSUME NEW s \in Seq(Nat), NEW t \in Seq(Nat), NEW p, IsJoin(p, s, t)
    PROVE  Numbers(p) = Numbers(s) \cup Numbers(t)
<1>1. /\ \A i \in 1..Len(s) : i \in 1..Len(p) /\ p[i] = s[i]
      /\ \A i \in 1..Len(t) : Len(s) + i \in 1..Len(p) /\ p[Len(s) + i] = t[i]
      /\ \A k \in 1..Len(p) :
            k \in 1..Len(s) \/ \E i \in 1..Len(t) : k = Len(s) + i
  <2>1. Joins(p, s, t)
    BY JoinIndexes
  <2> QED
    BY <2>1 DEF Joins
<1>2. ASSUME NEW k \in 1..Len(p) PROVE p[k] \in Numbers(s) \cup Numbers(t)
  <2>1. CASE k \in 1..Len(s)
    BY <1>1, <2>1 DEF Numbers
  <2>2. CASE \E i \in 1..Len(t) : k = Len(s) + i
    <3>1. PICK i \in 1..Len(t) : k = Len(s) + i
      BY <2>2
    <3>2. p[k] = t[i]
      BY <1>1, <3>1
    <3> QED
      BY <3>2 DEF Numbers
  <2> QED
    BY <1>1, <2>1, <2>2
<1>3. ASSUME NEW i \in 1..Len(s) PROVE s[i] \in Numbers(p)
  BY <1>1 DEF Numbers
<1>4. ASSUME NEW i \in 1..Len(t) PROVE t[i] \in Numbers(p)
  <2>1. Len(s) + i \in 1..Len(p) /\ p[Len(s) + i] = t[i]
    BY <1>1
  <2> QED
    BY <2>1 DEF Numbers
<1>5. Numbers(p) \subseteq Numbers(s) \cup Numbers(t)
  BY <1>2 DEF Numbers
<1>6. Numbers(s) \subseteq Numbers(p) /\ Numbers(t) \subseteq Numbers(p)
  BY <1>3, <1>4 DEF Numbers
<1> QED
  BY <1>5, <1>6

LEMMA JoinIncreasing ==
    ASSUME NEW s \in Seq(Nat), NEW t \in Seq(Nat), NEW p, IsJoin(p, s, t)
    PROVE  Increasing(p) <=> Increasing(s) /\ Increasing(t) /\ Ahead(s, t)
<1>1. /\ \A i \in 1..Len(s) : i \in 1..Len(p) /\ p[i] = s[i]
      /\ \A i \in 1..Len(t) : Len(s) + i \in 1..Len(p) /\ p[Len(s) + i] = t[i]
      /\ \A k \in 1..Len(p) :
            k \in 1..Len(s) \/ \E i \in 1..Len(t) : k = Len(s) + i
      /\ Len(s) \in Nat /\ Len(t) \in Nat
  <2>1. Joins(p, s, t)
    BY JoinIndexes
  <2> QED
    BY <2>1 DEF Joins
<1>2. ASSUME Increasing(p) PROVE Increasing(s) /\ Increasing(t) /\ Ahead(s, t)
  <2>1. Increasing(s)
    BY <1>1, <1>2 DEF Increasing
  <2>2. ASSUME NEW i \in 1..Len(t), NEW j \in 1..Len(t), i < j
        PROVE  t[i] < t[j]
    <3>1. Len(s) + i < Len(s) + j
      BY <1>1, <2>2
    <3> QED
      BY <1>1, <1>2, <3>1 DEF Increasing
  <2>3. ASSUME NEW i \in 1..Len(s), NEW j \in 1..Len(t) PROVE s[i] < t[j]
    <3>1. i < Len(s) + j
      BY <1>1
    <3> QED
      BY <1>1, <1>2, <3>1 DEF Increasing
  <2> QED
    BY <2>1, <2>2, <2>3 DEF Increasing, Ahead, Numbers
<1>3. ASSUME Increasing(s), Increasing(t), Ahead(s, t) PROVE Increasing(p)
  <2> SUFFICES ASSUME NEW i \in 1..Len(p), NEW j \in 1..Len(p), i < j
               PROVE  p[i] < p[j]
    BY DEF Increasing
  <2>1. CASE i \in 1..Len(s) /\ j \in 1..Len(s)
    BY <1>1, <1>3, <2>1 DEF Increasing
  <2>2. ASSUME i \in 1..Len(s), NEW k \in 1..Len(t), j = Len(s) + k
        PROVE  p[i] < p[j]
    BY <1>1, <1>3, <2>2 DEF Ahead, Numbers
  <2>3. ASSUME NEW l \in 1..Len(t), i = Len(s) + l, j \in 1..Len(s)
        PROVE  FALSE
    BY <1>1, <2>3
  <2>4. ASSUME NEW l \in 1..Len(t), i = Len(s) + l, NEW k \in 1..Len(t), j = Len(s) + k
        PROVE  p[i] < p[j]
    <3>1. l < k
      BY <1>1, <2>4
    <3> QED
      BY <1>1, <1>3, <2>4, <3>1 DEF Increasing
  <2> QED
    BY <1>1, <2>1, <2>2, <2>3, <2>4
<1> QED
  BY <1>2, <1>3

LEMMA JoinFacts ==
    ASSUME NEW s \in Seq(Nat), NEW t \in Seq(Nat), NEW p, IsJoin(p, s, t)
    PROVE  /\ p \in Seq(Nat) /\ Len(p) = Len(s) + Len(t)
           /\ Numbers(p) = Numbers(s) \cup Numbers(t)
           /\ Increasing(p) <=> Increasing(s) /\ Increasing(t) /\ Ahead(s, t)
<1>1. p \in Seq(Nat) /\ Len(p) = Len(s) + Len(t)
  BY JoinIndexes DEF Joins
<1> QED
  BY <1>1, JoinNumbers, JoinIncreasing

LEMMA EmptyFacts ==
    /\ <<>> \in Seq(Nat) /\ Len(<<>>) = 0 /\ Numbers(<<>>) = {} /\ Increasing(<<>>)
    /\ \A s \in Seq(Nat) : IsJoin(s, <<>>, s) /\ IsJoin(s, s, <<>>)
<1>1. <<>> \in Seq(Nat) /\ Len(<<>>) = 0
  OBVIOUS
<1>2. Numbers(<<>>) = {} /\ Increasing(<<>>)
  BY <1>1 DEF Numbers, Increasing
<1>3. ASSUME NEW s \in Seq(Nat) PROVE IsJoin(s, <<>>, s) /\ IsJoin(s, s, <<>>)
  BY DEF IsJoin
<1> QED
  BY <1>1, <1>2, <1>3

LEMMA SingleFacts ==
    ASSUME NEW x \in Nat
    PROVE  /\ Single(x) \in Seq(Nat) /\ Len(Single(x)) = 1
           /\ Numbers(Single(x)) = {x} /\ Increasing(Single(x))
<1>1. PICK s : s = Single(x)
  OBVIOUS
<1>2. s \in Seq(Nat) /\ Len(s) = 1 /\ s[1] = x
  BY <1>1 DEF Single
<1>3. 1..Len(s) = {1}
  BY <1>2
<1>4. Numbers(s) = {x}
  BY <1>2, <1>3 DEF Numbers
<1>5. Increasing(s)
  BY <1>2, <1>3 DEF Increasing
<1> QED
  BY <1>1, <1>2, <1>4, <1>5

LEMMA AppendJoins ==
    ASSUME NEW s \in Seq(Nat), NEW x \in Nat
    PROVE  /\ IsJoin(Append(s, x), s, Single(x)) /\ Append(s, x) \in Seq(Nat)
           /\ Len(Append(s, x)) = Len(s) + 1 /\ Len(s) \in Nat
<1>1. Append(s, x) \in Seq(Nat) /\ Len(Append(s, x)) = Len(s) + 1 /\ Len(s) \in Nat
  BY AppendProperties
<1>2. Append(s, x) = s \o <<x>>
  BY AppendIsConcat
<1> QED
  BY <1>1, <1>2 DEF IsJoin, Single

Parts(s, n, f, g) ==
    /\ f \in Seq(Nat) /\ Len(f) = n /\ \A i \in 1..n : f[i] = s[i]
    /\ g \in Seq(Nat) /\ Len(g) = Len(s) - n
    /\ \A i \in 1..Len(s) - n : g[i] = s[n + i]

LEMMA SplitParts ==
    ASSUME NEW s \in Seq(Nat), NEW n \in 0..Len(s)
    PROVE  Parts(s, n, FirstPart(s, n), LastPart(s, n))
<1>1. Len(s) \in Nat /\ n \in Nat /\ n <= Len(s) /\ \A i \in 1..Len(s) : s[i] \in Nat
  OBVIOUS
<1>2. /\ FirstPart(s, n) \in Seq(Nat) /\ Len(FirstPart(s, n)) = n
      /\ \A i \in 1..n : FirstPart(s, n)[i] = s[i]
  BY <1>1, SubSeqProperties DEF FirstPart
<1>3. /\ LastPart(s, n) \in Seq(Nat) /\ Len(LastPart(s, n)) = Len(s) - n
      /\ \A i \in 1..Len(s) - n : LastPart(s, n)[i] = s[n + i]
  BY <1>1, SubSeqProperties DEF LastPart
<1> QED
  BY <1>2, <1>3 DEF Parts

LEMMA PartsJoin ==
    ASSUME NEW s \in Seq(Nat), NEW n \in 0..Len(s), NEW f, NEW g, Parts(s, n, f, g)
    PROVE  IsJoin(s, f, g)
<1>1. Len(s) \in Nat /\ n \in Nat /\ n <= Len(s)
  OBVIOUS
<1>2. /\ f \in Seq(Nat) /\ Len(f) = n /\ \A i \in 1..n : f[i] = s[i]
      /\ g \in Seq(Nat) /\ Len(g) = Len(s) - n
      /\ \A i \in 1..Len(s) - n : g[i] = s[n + i]
  BY DEF Parts
<1>3. PICK p : IsJoin(p, f, g)
  BY DEF IsJoin
<1>4. /\ p \in Seq(Nat) /\ Len(p) = Len(f) + Len(g)
      /\ \A i \in 1..Len(f) + Len(g) :
            p[i] = IF i <= Len(f) THEN f[i] ELSE g[i - Len(f)]
  BY <1>2, <1>3, ConcatProperties DEF IsJoin
<1>5. Len(p) = Len(s)
  BY <1>1, <1>2, <1>4
<1>6. ASSUME NEW i \in 1..Len(s) PROVE p[i] = s[i]
  <2>1. i \in 1..Len(f) + Len(g)
    BY <1>1, <1>2
  <2>2. CASE i <= n
    <3>1. i \in 1..n
      BY <1>1, <2>2
    <3> QED
      BY <1>2, <1>4, <2>1, <2>2, <3>1
  <2>3. CASE ~(i <= n)
    <3>1. i - n \in 1..Len(s) - n /\ n + (i - n) = i
      BY <1>1, <2>3
    <3>2. p[i] = g[i - n]
      BY <1>2, <1>4, <2>1, <2>3
    <3> QED
      BY <1>2, <3>1, <3>2
  <2> QED
    BY <2>2, <2>3
<1>7. s = p
  BY <1>4, <1>5, <1>6, SeqEqual
<1> QED
  BY <1>3, <1>7

LEMMA Split ==
    ASSUME NEW s \in Seq(Nat), NEW n \in 0..Len(s),
           NEW f, f = FirstPart(s, n), NEW g, g = LastPart(s, n)
    PROVE  /\ Parts(s, n, f, g) /\ IsJoin(s, f, g)
           /\ f \in Seq(Nat) /\ g \in Seq(Nat) /\ Len(f) = n /\ Len(g) = Len(s) - n
BY SplitParts, PartsJoin DEF Parts

(***************************************************************************)
(* Four places, each in order and each ahead of those after it, and what   *)
(* moving, appending and dropping bytes does to them.                      *)
(***************************************************************************)
Queued(a, b, c, d) ==
    /\ a \in Seq(Nat) /\ b \in Seq(Nat) /\ c \in Seq(Nat) /\ d \in Seq(Nat)
    /\ Increasing(a) /\ Increasing(b) /\ Increasing(c) /\ Increasing(d)
    /\ Ahead(a, b) /\ Ahead(a, c) /\ Ahead(a, d)
    /\ Ahead(b, c) /\ Ahead(b, d) /\ Ahead(c, d)

AllOf(a, b, c, d) == Numbers(a) \cup Numbers(b) \cup Numbers(c) \cup Numbers(d)

\* A byte with a new number comes in at the end.
LEMMA QueueAppend ==
    ASSUME NEW a, NEW b, NEW c, NEW d, Queued(a, b, c, d), NEW x \in Nat,
           \A y \in AllOf(a, b, c, d) : y < x, NEW p, IsJoin(p, d, Single(x))
    PROVE  Queued(a, b, c, p) /\ AllOf(a, b, c, p) = AllOf(a, b, c, d) \cup {x}
<1>1. PICK e \in Seq(Nat) : e = Single(x) /\ Numbers(e) = {x} /\ Increasing(e)
  BY SingleFacts
<1>2. d \in Seq(Nat) /\ IsJoin(p, d, e)
  BY <1>1 DEF Queued
<1>3. Ahead(d, e)
  BY <1>1 DEF Ahead, AllOf
<1>4. p \in Seq(Nat) /\ Numbers(p) = Numbers(d) \cup {x} /\ Increasing(p)
  BY <1>1, <1>2, <1>3, JoinFacts DEF Queued
<1>5. Ahead(a, p) /\ Ahead(b, p) /\ Ahead(c, p)
  BY <1>4 DEF Ahead, AllOf, Queued
<1> QED
  BY <1>4, <1>5 DEF Queued, AllOf

\* The first bytes of the last place move to the end of the one before it.
LEMMA QueueMove ==
    ASSUME NEW a, NEW b, NEW c, NEW d, Queued(a, b, c, d),
           NEW f \in Seq(Nat), NEW g \in Seq(Nat), IsJoin(d, f, g),
           NEW p, IsJoin(p, c, f)
    PROVE  Queued(a, b, p, g) /\ AllOf(a, b, p, g) = AllOf(a, b, c, d)
<1>1. c \in Seq(Nat)
  BY DEF Queued
<1>2. Numbers(d) = Numbers(f) \cup Numbers(g)
      /\ Increasing(f) /\ Increasing(g) /\ Ahead(f, g)
  BY JoinFacts DEF Queued
<1>3. Ahead(c, f)
  BY <1>2 DEF Queued, Ahead
<1>4. p \in Seq(Nat) /\ Numbers(p) = Numbers(c) \cup Numbers(f) /\ Increasing(p)
  BY <1>1, <1>2, <1>3, JoinFacts DEF Queued
<1>5. Ahead(a, p) /\ Ahead(b, p) /\ Ahead(a, g) /\ Ahead(b, g) /\ Ahead(p, g)
  BY <1>2, <1>4 DEF Queued, Ahead
<1> QED
  BY <1>2, <1>4, <1>5 DEF Queued, AllOf

\* The first bytes of the third place move to the end of the second.
LEMMA QueueSend ==
    ASSUME NEW a, NEW b, NEW c, NEW d, Queued(a, b, c, d),
           NEW f \in Seq(Nat), NEW g \in Seq(Nat), IsJoin(c, f, g),
           NEW p, IsJoin(p, b, f)
    PROVE  Queued(a, p, g, d) /\ AllOf(a, p, g, d) = AllOf(a, b, c, d)
<1>1. b \in Seq(Nat)
  BY DEF Queued
<1>2. Numbers(c) = Numbers(f) \cup Numbers(g)
      /\ Increasing(f) /\ Increasing(g) /\ Ahead(f, g)
  BY JoinFacts DEF Queued
<1>3. Ahead(b, f)
  BY <1>2 DEF Queued, Ahead
<1>4. p \in Seq(Nat) /\ Numbers(p) = Numbers(b) \cup Numbers(f) /\ Increasing(p)
  BY <1>1, <1>2, <1>3, JoinFacts DEF Queued
<1>5. /\ Ahead(a, p) /\ Ahead(a, g) /\ Ahead(p, g) /\ Ahead(p, d) /\ Ahead(g, d)
  BY <1>2, <1>4 DEF Queued, Ahead
<1> QED
  BY <1>2, <1>4, <1>5 DEF Queued, AllOf

\* The first bytes of the third place are given up.
LEMMA QueueDrop ==
    ASSUME NEW a, NEW b, NEW c, NEW d, Queued(a, b, c, d),
           NEW f \in Seq(Nat), NEW g \in Seq(Nat), IsJoin(c, f, g)
    PROVE  Queued(a, b, g, d) /\ AllOf(a, b, g, d) \cup Numbers(f) = AllOf(a, b, c, d)
<1>1. Numbers(c) = Numbers(f) \cup Numbers(g)
      /\ Increasing(f) /\ Increasing(g) /\ Ahead(f, g)
  BY JoinFacts DEF Queued
<1>2. Ahead(a, g) /\ Ahead(b, g) /\ Ahead(g, d)
  BY <1>1 DEF Queued, Ahead
<1> QED
  BY <1>1, <1>2 DEF Queued, AllOf

\* The reader takes the second place.
LEMMA QueueTake ==
    ASSUME NEW a, NEW b, NEW c, NEW d, Queued(a, b, c, d), NEW p, IsJoin(p, a, b)
    PROVE  Queued(p, <<>>, c, d) /\ AllOf(p, <<>>, c, d) = AllOf(a, b, c, d)
<1>1. /\ p \in Seq(Nat) /\ Numbers(p) = Numbers(a) \cup Numbers(b) /\ Increasing(p)
  BY JoinFacts DEF Queued
<1>2. Ahead(p, c) /\ Ahead(p, d)
  BY <1>1 DEF Queued, Ahead
<1>3. Ahead(p, <<>>) /\ Ahead(<<>>, c) /\ Ahead(<<>>, d)
  BY EmptyFacts DEF Ahead
<1> QED
  BY <1>1, <1>2, <1>3, EmptyFacts DEF Queued, AllOf

\* The last place is emptied.
LEMMA QueueReset ==
    ASSUME NEW a, NEW b, NEW c, NEW d, Queued(a, b, c, d)
    PROVE  Queued(a, b, c, <<>>)
           /\ AllOf(a, b, c, <<>>) \cup Numbers(d) = AllOf(a, b, c, d)
<1>1. Ahead(a, <<>>) /\ Ahead(b, <<>>) /\ Ahead(c, <<>>)
  BY EmptyFacts DEF Ahead
<1> QED
  BY <1>1, EmptyFacts DEF Queued, AllOf

-----------------------------------------------------------------------------
(***************************************************************************)
(* The transmission.                                                       *)
(***************************************************************************)
LEMMA InitTransmission == Init => Transmission /\ TxContents
<1> SUFFICES ASSUME Init PROVE Transmission /\ TxContents
  OBVIOUS
<1>1. /\ tx_busy = FALSE /\ tx_count = 0 /\ tx_flag = FALSE /\ tx_irq0 = FALSE
      /\ notified = FALSE /\ tx_pc = "receive" /\ tx_buffer = <<>>
      /\ wire = <<>> /\ tx_stream = <<>> /\ tx_dropped = {}
  BY DEF Init
<1>2. tx_buffer \in Seq(Nat) /\ Len(tx_buffer) = 0 /\ BufSize \in Nat
  BY <1>1, EmptyFacts, SizesAssumption
<1>3. Transmission
  <2>1. Len(tx_buffer) <= BufSize /\ tx_count \in 0..Len(tx_buffer) /\ ~(tx_count > 0)
    BY <1>1, <1>2
  <2> QED
    BY <1>1, <1>2, <2>1 DEF Transmission
<1>4. TxContents
  BY <1>1, EmptyFacts DEF TxContents
<1> QED
  BY <1>3, <1>4

TxState == <<tx_busy, tx_count, tx_flag, tx_irq0, tx_pc, notified, tx_buffer>>

LEMMA TransmissionStep ==
    ASSUME Transmission, TxContents, [Next]_vars
    PROVE  Transmission'
<1> USE DEF uart, line, rx_dma, tx_dma, rx_soft, tx_soft, lc, history
<1>1. Len(tx_buffer) \in Nat /\ BufSize \in Nat \ {0} /\ tx_count \in Nat
  BY SizesAssumption DEF Transmission
<1>2. CASE UNCHANGED TxState
  BY <1>2 DEF TxState, Transmission
<1>3. CASE MoveTx
  <2>1. /\ tx_busy /\ tx_count' = tx_count - 1 /\ tx_busy' = (tx_count > 1)
        /\ tx_flag' = (tx_flag \/ tx_count = 1)
        /\ UNCHANGED <<tx_irq0, tx_pc, notified, tx_buffer>>
    BY <1>3 DEF MoveTx
  <2>2. tx_count > 0 /\ tx_count <= Len(tx_buffer)
    BY <2>1 DEF Transmission
  <2>3. tx_pc \notin {"receive", "start"} /\ ~notified
    BY <2>2 DEF Transmission
  <2>4. tx_count' \in 0..Len(tx_buffer') /\ (tx_count > 1 <=> tx_count' > 0)
        /\ (tx_count = 1 => tx_count' = 0)
    BY <1>1, <2>1, <2>2
  <2>5. tx_flag' => tx_count' = 0
    BY <2>1, <2>2, <2>3, <2>4 DEF Transmission
  <2>6. tx_busy' \in BOOLEAN /\ tx_flag' \in BOOLEAN
    BY <2>1
  <2>7. tx_busy' <=> tx_count > 1
    BY <2>1
  <2>8. tx_busy' <=> tx_count' > 0
    BY <2>4, <2>7
  <2> QED
    BY <2>1, <2>3, <2>4, <2>5, <2>6, <2>8 DEF Transmission
<1>4. CASE usb_uart_dma_handler_tx
  <2>1. /\ tx_flag /\ tx_irq0 /\ tx_flag' = FALSE /\ tx_irq0' = FALSE
        /\ notified' = TRUE /\ UNCHANGED <<tx_busy, tx_count, tx_pc, tx_buffer>>
    BY <1>4 DEF usb_uart_dma_handler_tx
  <2>2. tx_pc \in {"request", "wait"} /\ tx_count = 0
    BY <2>1 DEF Transmission
  <2> QED
    BY <2>1, <2>2 DEF Transmission
<1>5. CASE Receive
  <2>1. /\ tx_pc = "receive" /\ tx_stream # <<>>
        /\ tx_buffer' = FirstPart(tx_stream, IF Len(tx_stream) < BufSize THEN Len(tx_stream)
                                         ELSE BufSize)
        /\ tx_pc' \in {"receive", "start"}
        /\ UNCHANGED <<tx_busy, tx_count, tx_flag, tx_irq0, notified>>
    BY <1>5 DEF Receive, FirstPart
  <2>2. PICK n : n = IF Len(tx_stream) < BufSize THEN Len(tx_stream) ELSE BufSize
    OBVIOUS
  <2>3. /\ n \in 0..Len(tx_stream) /\ n <= BufSize /\ tx_stream \in Seq(Nat)
        /\ n > 0
    BY <1>1, <2>1, <2>2 DEF TxContents
  <2>4. tx_buffer' \in Seq(Nat) /\ Len(tx_buffer') = n
    BY <2>1, <2>2, <2>3, Split
  <2>5. tx_count = 0 /\ ~tx_irq0 /\ ~notified
    BY <2>1 DEF Transmission
  <2>6. tx_count' \in 0..Len(tx_buffer') /\ Len(tx_buffer') <= BufSize
        /\ Len(tx_buffer') > 0
    BY <2>1, <2>3, <2>4, <2>5
  <2> QED
    BY <2>1, <2>4, <2>5, <2>6 DEF Transmission
<1>6. CASE StartTx
  <2>1. /\ tx_pc = "start" /\ tx_busy' = TRUE /\ tx_count' = Len(tx_buffer)
        /\ tx_flag' = FALSE /\ tx_pc' = "enable"
        /\ UNCHANGED <<tx_irq0, tx_buffer, notified>>
    BY <1>6 DEF StartTx
  <2>2. Len(tx_buffer) > 0 /\ tx_count' \in 0..Len(tx_buffer') /\ ~tx_irq0 /\ ~notified
    BY <1>1, <2>1 DEF Transmission
  <2>3. tx_busy' <=> tx_count' > 0
    BY <2>1, <2>2
  <2> QED
    BY <2>1, <2>2, <2>3 DEF Transmission
<1>7. CASE EnableTxIrq
  <2>1. /\ tx_pc = "enable" /\ tx_irq0' = TRUE /\ tx_pc' = "request"
        /\ UNCHANGED <<tx_busy, tx_count, tx_flag, tx_buffer, notified>>
    BY <1>7 DEF EnableTxIrq
  <2> QED
    BY <2>1 DEF Transmission
<1>8. CASE RequestTx
  <2>1. /\ tx_pc = "request" /\ tx_pc' = "wait"
        /\ UNCHANGED <<tx_busy, tx_count, tx_flag, tx_irq0, tx_buffer, notified>>
    BY <1>8 DEF RequestTx
  <2> QED
    BY <2>1 DEF Transmission
<1>9. CASE WaitTx
  <2>1. /\ tx_pc = "wait" /\ notified /\ notified' = FALSE /\ tx_pc' = "receive"
        /\ UNCHANGED <<tx_busy, tx_count, tx_flag, tx_irq0, tx_buffer>>
    BY <1>9 DEF WaitTx
  <2> QED
    BY <2>1 DEF Transmission
<1>10. CASE StopTx
  <2>1. /\ tx_irq0' = FALSE /\ tx_busy' = FALSE /\ tx_count' = 0
        /\ tx_flag' \in {tx_flag, tx_flag \/ tx_busy}
        /\ UNCHANGED <<tx_pc, tx_buffer, notified>>
    BY <1>10 DEF StopTx
  <2>2. tx_flag' \in BOOLEAN
    BY <2>1 DEF Transmission
  <2>3. tx_count' \in 0..Len(tx_buffer') /\ ~(tx_count' > 0)
    BY <1>1, <2>1
  <2> QED
    BY <2>1, <2>2, <2>3 DEF Transmission
<1>11. ASSUME \/ Arrive \/ MoveSomeRx \/ usb_uart_rx_callback \/ usb_uart_dma_handler_0
              \/ usb_uart_dma_handler_1 \/ TimerIrq \/ HostSends \/ TakeStream
              \/ StopRx \/ StopRxSecond \/ ResetUart \/ InitUart \/ EnableUart
              \/ UNCHANGED vars
       PROVE  UNCHANGED TxState
  <2>1. CASE Arrive \/ HostSends \/ TakeStream \/ UNCHANGED vars
    BY <2>1 DEF Arrive, HostSends, TakeStream, vars, TxState
  <2>2. CASE MoveSomeRx
    BY <2>2 DEF MoveSomeRx, MoveRx, TxState
  <2>3. CASE usb_uart_rx_callback
    BY <2>3 DEF usb_uart_rx_callback, TxState
  <2>4. CASE usb_uart_dma_handler_0
    BY <2>4 DEF usb_uart_dma_handler_0, TxState
  <2>5. CASE usb_uart_dma_handler_1
    BY <2>5 DEF usb_uart_dma_handler_1, TxState
  <2>6. CASE TimerIrq
    BY <2>6 DEF TimerIrq, TimeoutWaits, TimeoutFlushes, TxState
  <2>7. CASE StopRx \/ StopRxSecond \/ ResetUart \/ InitUart \/ EnableUart
    BY <2>7 DEF StopRx, StopRxSecond, StopChannel, ResetUart, InitUart, EnableUart, TxState
  <2> QED
    BY <1>11, <2>1, <2>2, <2>3, <2>4, <2>5, <2>6, <2>7
<1> QED
  BY <1>2, <1>3, <1>4, <1>5, <1>6, <1>7, <1>8, <1>9, <1>10, <1>11
     DEF Next, DmaIrq, TxThread, LineCodingThread

(***************************************************************************)
(* The bytes of the host: what was sent, what the channel still has to     *)
(* send and what waits in the stream are in order, and together with what  *)
(* was discarded they are all there were.                                  *)
(***************************************************************************)
SendOrder == ~cut =>
    /\ Queued(<<>>, wire, Sending, tx_stream)
    /\ AllOf(<<>>, wire, Sending, tx_stream) \cup tx_dropped = 1..queued

LEMMA ToSetNumbers ==
    ASSUME NEW s \in Seq(Nat)
    PROVE  ToSet(s) = Numbers(s)
<1>1. DOMAIN s = 1..Len(s)
  OBVIOUS
<1> QED
  BY <1>1 DEF ToSet, Numbers

LEMMA RearFacts ==
    ASSUME NEW s \in Seq(Nat)
    PROVE  /\ LastPart(s, Len(s)) = <<>> /\ LastPart(s, 0) = s
           /\ \A n \in 0..Len(s) - 1 :
                 /\ s[n + 1] \in Nat /\ LastPart(s, n + 1) \in Seq(Nat)
                 /\ IsJoin(LastPart(s, n), Single(s[n + 1]), LastPart(s, n + 1))
<1>1. Len(s) \in Nat /\ \A i \in 1..Len(s) : s[i] \in Nat
  OBVIOUS
<1>2. LastPart(s, Len(s)) = <<>>
  <2>1. PICK r : r = LastPart(s, Len(s))
    OBVIOUS
  <2>2. r \in Seq(Nat) /\ Len(r) = 0
    BY <1>1, <2>1, Split
  <2> QED
    BY <2>1, <2>2, EmptySeq
<1>3. LastPart(s, 0) = s
  <2>1. PICK r : r = LastPart(s, 0)
    OBVIOUS
  <2>2. Parts(s, 0, FirstPart(s, 0), r)
    BY <1>1, <2>1, Split
  <2>3. r \in Seq(Nat) /\ Len(r) = Len(s) /\ \A i \in 1..Len(s) : r[i] = s[i]
    BY <1>1, <2>2 DEF Parts
  <2> QED
    BY <2>1, <2>3, SeqEqual
<1>4. ASSUME NEW n \in 0..Len(s) - 1
      PROVE  /\ s[n + 1] \in Nat /\ LastPart(s, n + 1) \in Seq(Nat)
             /\ IsJoin(LastPart(s, n), Single(s[n + 1]), LastPart(s, n + 1))
  <2>1. n \in 0..Len(s) /\ n + 1 \in 0..Len(s) /\ n + 1 \in 1..Len(s) /\ n \in Nat
    BY <1>1
  <2>2. PICK r : r = LastPart(s, n)
    OBVIOUS
  <2>3. PICK g : g = LastPart(s, n + 1)
    OBVIOUS
  <2>4. PICK x \in Nat : x = s[n + 1]
    BY <1>1, <2>1
  <2>5. /\ r \in Seq(Nat) /\ Len(r) = Len(s) - n
        /\ \A i \in 1..Len(s) - n : r[i] = s[n + i]
    BY <2>1, <2>2, Split DEF Parts
  <2>6. /\ g \in Seq(Nat) /\ Len(g) = Len(s) - (n + 1)
        /\ \A i \in 1..Len(s) - (n + 1) : g[i] = s[(n + 1) + i]
    <3>1. PICK m \in 0..Len(s) : m = n + 1
      BY <2>1
    <3>2. Parts(s, m, FirstPart(s, m), g)
      BY <2>3, <3>1, SplitParts
    <3>3. /\ g \in Seq(Nat) /\ Len(g) = Len(s) - m
          /\ \A i \in 1..Len(s) - m : g[i] = s[m + i]
      BY <3>2 DEF Parts
    <3> QED
      BY <3>1, <3>3
  <2>7. Single(x) \in Seq(Nat) /\ Len(Single(x)) = 1 /\ Single(x)[1] = x
    BY SingleFacts DEF Single
  <2>8. \A i \in 1..1 : Single(x)[i] = r[i]
    <3>1. r[1] = x
      BY <1>1, <2>1, <2>4, <2>5
    <3> QED
      BY <2>7, <3>1
  <2>9. \A i \in 1..Len(r) - 1 : g[i] = r[1 + i]
    <3> SUFFICES ASSUME NEW i \in 1..Len(r) - 1 PROVE g[i] = r[1 + i]
      OBVIOUS
    <3>1. i \in 1..Len(s) - (n + 1) /\ 1 + i \in 1..Len(s) - n /\ n + (1 + i) = (n + 1) + i
      BY <1>1, <2>1, <2>5
    <3> QED
      BY <2>5, <2>6, <3>1
  <2>10. Len(g) = Len(r) - 1 /\ 1 \in 0..Len(r)
    BY <1>1, <2>1, <2>5, <2>6
  <2>11. Parts(r, 1, Single(x), g)
    BY <2>6, <2>7, <2>8, <2>9, <2>10 DEF Parts
  <2>12. IsJoin(r, Single(x), g)
    BY <2>5, <2>10, <2>11, PartsJoin
  <2> QED
    BY <2>2, <2>3, <2>4, <2>6, <2>12
<1> QED
  BY <1>2, <1>3, <1>4

LEMMA SendingIsRear ==
    ASSUME Transmission
    PROVE  /\ tx_pc = "start" => Sending = tx_buffer
           /\ tx_pc # "start" => Sending = LastPart(tx_buffer, Len(tx_buffer) - tx_count)
           /\ tx_pc # "start" /\ tx_count = 0 => Sending = <<>>
           /\ tx_count = Len(tx_buffer) => Sending = tx_buffer
<1>1. /\ tx_buffer \in Seq(Nat) /\ tx_count \in 0..Len(tx_buffer) /\ Len(tx_buffer) \in Nat
  BY DEF Transmission
<1>2. tx_pc # "start" => Sending = LastPart(tx_buffer, Len(tx_buffer) - tx_count)
  BY DEF Sending, LastPart
<1>3. tx_pc = "start" => Sending = tx_buffer
  BY DEF Sending
<1>4. tx_count = 0 => Len(tx_buffer) - tx_count = Len(tx_buffer)
  BY <1>1
<1>5. tx_count = Len(tx_buffer) => Len(tx_buffer) - tx_count = 0
  BY <1>1
<1> QED
  BY <1>1, <1>2, <1>3, <1>4, <1>5, RearFacts

LEMMA InitSendOrder == Init => SendOrder
<1> SUFFICES ASSUME Init PROVE SendOrder
  OBVIOUS
<1>1. Transmission
  BY InitTransmission
<1>2. tx_pc = "receive" /\ tx_count = 0 /\ wire = <<>> /\ tx_stream = <<>>
      /\ tx_dropped = {} /\ queued = 0
  BY DEF Init
<1>3. Sending = <<>>
  BY <1>1, <1>2, SendingIsRear
<1>4. 1..queued = {}
  BY <1>2
<1>5. Ahead(<<>>, <<>>)
  BY EmptyFacts DEF Ahead
<1> QED
  BY <1>2, <1>3, <1>4, <1>5, EmptyFacts DEF SendOrder, Queued, AllOf

TxData == <<wire, queued, tx_stream, tx_dropped, tx_pc, tx_count, tx_buffer>>

LEMMA TxContentsStep ==
    ASSUME Flags, Transmission, TxContents, [Next]_vars
    PROVE  TxContents'
<1> USE DEF uart, line, rx_dma, tx_dma, rx_soft, tx_soft, lc, history
<1>1. /\ wire \in Seq(Nat) /\ tx_stream \in Seq(Nat) /\ queued \in Nat
      /\ Numbers(tx_stream) \subseteq 1..queued /\ tx_dropped \subseteq 1..queued
      /\ BufSize \in Nat \ {0}
  BY SizesAssumption DEF TxContents, Flags
<1>2. CASE UNCHANGED <<wire, tx_stream, queued, tx_dropped>>
  BY <1>1, <1>2 DEF TxContents
<1>3. CASE MoveTx
  <2>1. /\ tx_busy /\ wire' = Append(wire, tx_buffer[Len(tx_buffer) - tx_count + 1])
        /\ UNCHANGED <<tx_stream, queued, tx_dropped>>
    BY <1>3 DEF MoveTx
  <2>2. Len(tx_buffer) - tx_count + 1 \in 1..Len(tx_buffer) /\ tx_buffer \in Seq(Nat)
    BY <2>1 DEF Transmission
  <2>3. tx_buffer[Len(tx_buffer) - tx_count + 1] \in Nat
    BY <2>2
  <2>4. wire' \in Seq(Nat)
    BY <1>1, <2>1, <2>3, AppendJoins
  <2> QED
    BY <1>1, <2>1, <2>4 DEF TxContents
<1>4. CASE HostSends
  <2>1. /\ queued' = queued + 1 /\ tx_stream' = Append(tx_stream, queued + 1)
        /\ UNCHANGED <<wire, tx_dropped>>
    BY <1>4 DEF HostSends
  <2>2. PICK x \in Nat : x = queued + 1
    BY <1>1
  <2>3. IsJoin(tx_stream', tx_stream, Single(x)) /\ tx_stream' \in Seq(Nat)
    BY <1>1, <2>1, <2>2, AppendJoins
  <2>4. Numbers(tx_stream') = Numbers(tx_stream) \cup {x}
    BY <1>1, <2>3, SingleFacts, JoinFacts
  <2>5. 1..queued \subseteq 1..queued' /\ x \in 1..queued'
    BY <1>1, <2>1, <2>2
  <2> QED
    BY <1>1, <2>1, <2>3, <2>4, <2>5 DEF TxContents
<1>5. CASE Receive
  <2>1. PICK n : n = IF Len(tx_stream) < BufSize THEN Len(tx_stream) ELSE BufSize
    OBVIOUS
  <2>2. /\ tx_buffer' = FirstPart(tx_stream, n) /\ tx_stream' = LastPart(tx_stream, n)
        /\ tx_dropped' = tx_dropped \/ tx_dropped' = tx_dropped \cup ToSet(tx_buffer')
        /\ UNCHANGED <<wire, queued>>
    BY <1>5, <2>1 DEF Receive, FirstPart, LastPart
  <2>3. n \in 0..Len(tx_stream)
    BY <1>1, <2>1
  <2>4. /\ tx_buffer' \in Seq(Nat) /\ tx_stream' \in Seq(Nat)
        /\ IsJoin(tx_stream, tx_buffer', tx_stream')
    BY <1>1, <2>2, <2>3, Split
  <2>5. Numbers(tx_stream) = Numbers(tx_buffer') \cup Numbers(tx_stream')
    BY <2>4, JoinFacts
  <2>6. ToSet(tx_buffer') = Numbers(tx_buffer')
    BY <2>4, ToSetNumbers
  <2> QED
    BY <1>1, <2>2, <2>4, <2>5, <2>6 DEF TxContents
<1>6. ASSUME ~MoveTx, ~HostSends, ~Receive
      PROVE  UNCHANGED <<wire, tx_stream, queued, tx_dropped>>
  <2>1. CASE Arrive \/ TakeStream \/ UNCHANGED vars
    BY <2>1 DEF Arrive, TakeStream, vars
  <2>2. CASE MoveSomeRx
    BY <2>2 DEF MoveSomeRx, MoveRx
  <2>3. CASE usb_uart_rx_callback
    BY <2>3 DEF usb_uart_rx_callback
  <2>4. CASE DmaIrq
    BY <2>4 DEF DmaIrq, usb_uart_dma_handler_0, usb_uart_dma_handler_1,
                usb_uart_dma_handler_tx
  <2>5. CASE TimerIrq
    BY <2>5 DEF TimerIrq, TimeoutWaits, TimeoutFlushes
  <2>6. CASE StartTx \/ EnableTxIrq \/ RequestTx \/ WaitTx
    BY <2>6 DEF StartTx, EnableTxIrq, RequestTx, WaitTx
  <2>7. CASE LineCodingThread
    BY <2>7 DEF LineCodingThread, StopRx, StopRxSecond, StopChannel, StopTx, ResetUart,
                InitUart, EnableUart
  <2> QED
    BY <1>6, <2>1, <2>2, <2>3, <2>4, <2>5, <2>6, <2>7 DEF Next, TxThread
<1> QED
  BY <1>2, <1>3, <1>4, <1>5, <1>6

(***************************************************************************)
(* What the steps of the transmission do to the order of its bytes.        *)
(***************************************************************************)
LEMMA SendOrderStep ==
    ASSUME Flags, Transmission, TxContents, SendOrder, Transmission', [Next]_vars
    PROVE  SendOrder'
<1> USE DEF uart, line, rx_dma, tx_dma, rx_soft, tx_soft, lc, history
<1> SUFFICES ASSUME ~cut'
             PROVE  /\ Queued(<<>>, wire', Sending', tx_stream')
                    /\ AllOf(<<>>, wire', Sending', tx_stream') \cup tx_dropped' = 1..queued'
  BY DEF SendOrder
<1> DEFINE Goal == /\ Queued(<<>>, wire', Sending', tx_stream')
                   /\ AllOf(<<>>, wire', Sending', tx_stream') \cup tx_dropped' = 1..queued'
<1>1. /\ wire \in Seq(Nat) /\ tx_stream \in Seq(Nat) /\ queued \in Nat
      /\ tx_dropped \subseteq 1..queued /\ BufSize \in Nat \ {0}
      /\ tx_buffer \in Seq(Nat) /\ Len(tx_buffer) \in Nat
      /\ tx_count \in 0..Len(tx_buffer)
  BY SizesAssumption DEF TxContents, Flags, Transmission
<1>2. ASSUME ~cut PROVE /\ Queued(<<>>, wire, Sending, tx_stream)
                        /\ AllOf(<<>>, wire, Sending, tx_stream) \cup tx_dropped = 1..queued
  BY <1>2 DEF SendOrder
<1>3. ASSUME ~cut, UNCHANGED <<wire, queued, tx_stream, tx_dropped>>, Sending' = Sending
      PROVE  Goal
  BY <1>2, <1>3
<1>4. CASE MoveTx
  <2>1. /\ tx_busy /\ tx_count' = tx_count - 1
        /\ wire' = Append(wire, tx_buffer[Len(tx_buffer) - tx_count + 1])
        /\ UNCHANGED <<cut, tx_pc, tx_buffer, queued, tx_stream, tx_dropped>>
    BY <1>4 DEF MoveTx
  <2>2. tx_count > 0 /\ tx_pc # "start"
    BY <2>1 DEF Transmission
  <2>3. PICK n : n = Len(tx_buffer) - tx_count
    OBVIOUS
  <2>4. n \in 0..Len(tx_buffer) - 1 /\ Len(tx_buffer) - tx_count' = n + 1
    BY <1>1, <2>1, <2>2, <2>3
  <2>5. Sending = LastPart(tx_buffer, n)
    BY <2>2, <2>3, SendingIsRear
  <2>6. Sending' = LastPart(tx_buffer, n + 1)
    <3>1. Sending' = LastPart(tx_buffer', Len(tx_buffer') - tx_count')
      BY <2>1, <2>2 DEF Sending, LastPart
    <3> QED
      BY <2>1, <2>4, <3>1
  <2>7. PICK x \in Nat : x = tx_buffer[n + 1]
    BY <1>1, <2>4, RearFacts
  <2>8. Sending' \in Seq(Nat) /\ IsJoin(Sending, Single(x), Sending')
    BY <1>1, <2>4, <2>5, <2>6, <2>7, RearFacts
  <2>9. IsJoin(wire', wire, Single(x))
    BY <1>1, <2>1, <2>3, <2>7, AppendJoins
  <2>10. PICK e \in Seq(Nat) : e = Single(x)
    BY SingleFacts
  <2>11. /\ Queued(<<>>, wire', Sending', tx_stream)
         /\ AllOf(<<>>, wire', Sending', tx_stream) = AllOf(<<>>, wire, Sending, tx_stream)
    BY <1>2, <2>1, <2>8, <2>9, <2>10, QueueSend
  <2> QED
    BY <1>2, <2>1, <2>11
<1>5. CASE HostSends
  <2>1. /\ queued' = queued + 1 /\ tx_stream' = Append(tx_stream, queued + 1)
        /\ UNCHANGED <<wire, tx_dropped, cut, tx_pc, tx_count, tx_buffer>>
    BY <1>5 DEF HostSends
  <2>2. Sending' = Sending
    BY <2>1 DEF Sending
  <2>3. PICK x \in Nat : x = queued + 1
    BY <1>1
  <2>4. IsJoin(tx_stream', tx_stream, Single(x))
    BY <1>1, <2>1, <2>3, AppendJoins
  <2>5. \A y \in AllOf(<<>>, wire, Sending, tx_stream) : y < x
    BY <1>1, <1>2, <2>1, <2>3
  <2>6. /\ Queued(<<>>, wire, Sending, tx_stream')
        /\ AllOf(<<>>, wire, Sending, tx_stream')
              = AllOf(<<>>, wire, Sending, tx_stream) \cup {x}
    BY <1>2, <2>1, <2>4, <2>5, QueueAppend
  <2>7. 1..queued' = 1..queued \cup {x}
    BY <1>1, <2>1, <2>3
  <2> QED
    BY <1>2, <2>1, <2>2, <2>6, <2>7
<1>6. CASE Receive
  <2>1. PICK n : n = IF Len(tx_stream) < BufSize THEN Len(tx_stream) ELSE BufSize
    OBVIOUS
  <2>2. /\ tx_pc = "receive"
        /\ tx_buffer' = FirstPart(tx_stream, n) /\ tx_stream' = LastPart(tx_stream, n)
        /\ \/ tx_pc' = "start" /\ tx_dropped' = tx_dropped
           \/ tx_pc' = "receive" /\ tx_dropped' = tx_dropped \cup ToSet(tx_buffer')
        /\ UNCHANGED <<wire, queued, cut, tx_count>>
    BY <1>6, <2>1 DEF Receive, FirstPart, LastPart
  <2>3. n \in 0..Len(tx_stream)
    BY <1>1, <2>1
  <2>4. /\ tx_buffer' \in Seq(Nat) /\ tx_stream' \in Seq(Nat)
        /\ IsJoin(tx_stream, tx_buffer', tx_stream')
    BY <1>1, <2>2, <2>3, Split
  <2>5. tx_count = 0 /\ Sending = <<>>
    BY <2>2, SendingIsRear DEF Transmission
  <2>6. /\ Queued(<<>>, wire, tx_buffer', tx_stream')
        /\ AllOf(<<>>, wire, tx_buffer', tx_stream') = AllOf(<<>>, wire, Sending, tx_stream)
    <3>1. IsJoin(tx_buffer', Sending, tx_buffer')
      BY <2>4, <2>5, EmptyFacts
    <3> QED
      BY <1>2, <2>2, <2>4, <3>1, QueueMove
  <2>7. CASE tx_pc' = "start" /\ tx_dropped' = tx_dropped
    <3>1. Sending' = tx_buffer'
      BY <2>7 DEF Sending
    <3> QED
      BY <1>2, <2>2, <2>6, <2>7, <3>1
  <2>8. CASE tx_pc' = "receive" /\ tx_dropped' = tx_dropped \cup ToSet(tx_buffer')
    <3>1. Sending' = <<>>
      <4>1. Sending' = LastPart(tx_buffer', Len(tx_buffer') - tx_count')
        BY <2>8 DEF Sending, LastPart
      <4>2. Len(tx_buffer') - tx_count' = Len(tx_buffer')
        BY <2>2, <2>4, <2>5
      <4> QED
        BY <2>4, <4>1, <4>2, RearFacts
    <3>2. tx_dropped' = tx_dropped \cup Numbers(tx_buffer')
      BY <2>4, <2>8, ToSetNumbers
    <3>3. IsJoin(tx_buffer', tx_buffer', <<>>) /\ <<>> \in Seq(Nat)
      BY <2>4, EmptyFacts
    <3>4. /\ Queued(<<>>, wire, <<>>, tx_stream')
          /\ AllOf(<<>>, wire, <<>>, tx_stream') \cup Numbers(tx_buffer')
                = AllOf(<<>>, wire, tx_buffer', tx_stream')
      <4>1. PICK f \in Seq(Nat) : f = tx_buffer'
        BY <2>4
      <4>2. PICK g \in Seq(Nat) : g = <<>>
        BY <3>3
      <4>3. PICK d : d = tx_stream'
        OBVIOUS
      <4>4. Queued(<<>>, wire, f, d) /\ IsJoin(f, f, g)
        BY <2>6, <3>3, <4>1, <4>2, <4>3
      <4>5. /\ Queued(<<>>, wire, g, d)
            /\ AllOf(<<>>, wire, g, d) \cup Numbers(f) = AllOf(<<>>, wire, f, d)
        BY <4>4, QueueDrop
      <4> QED
        BY <4>1, <4>2, <4>3, <4>5
    <3> QED
      BY <1>2, <2>2, <2>6, <3>1, <3>2, <3>4
  <2> QED
    BY <2>2, <2>7, <2>8
<1>7. CASE StartTx
  <2>1. /\ tx_pc = "start" /\ tx_count' = Len(tx_buffer) /\ tx_pc' = "enable"
        /\ UNCHANGED <<wire, queued, tx_stream, tx_dropped, tx_buffer, cut>>
    BY <1>7 DEF StartTx
  <2>2. Sending = tx_buffer
    BY <2>1 DEF Sending
  <2>3. Sending' = LastPart(tx_buffer', Len(tx_buffer') - tx_count')
    BY <2>1 DEF Sending, LastPart
  <2>4. Len(tx_buffer') - tx_count' = 0
    BY <1>1, <2>1
  <2>5. Sending' = Sending
    BY <1>1, <2>1, <2>2, <2>3, <2>4, RearFacts
  <2> QED
    BY <1>3, <2>1, <2>5
<1>8. CASE EnableTxIrq \/ RequestTx \/ WaitTx
  <2>1. /\ tx_pc # "start" /\ tx_pc' # "start"
        /\ UNCHANGED <<wire, queued, tx_stream, tx_dropped, tx_buffer, tx_count, cut>>
    BY <1>8 DEF EnableTxIrq, RequestTx, WaitTx
  <2>2. Sending' = Sending
    BY <2>1 DEF Sending
  <2> QED
    BY <1>3, <2>1, <2>2
<1>9. CASE StopTx
  <2>1. /\ tx_pc = "receive" /\ ~cut /\ tx_count' = 0
        /\ UNCHANGED <<wire, queued, tx_stream, tx_dropped, tx_buffer, tx_pc>>
    BY <1>9 DEF StopTx, Cuts
  <2>2. tx_count = 0
    BY <2>1 DEF Transmission
  <2>3. Sending' = Sending
    BY <2>1, <2>2 DEF Sending
  <2> QED
    BY <1>3, <2>1, <2>3
<1>10. ASSUME \/ Arrive \/ MoveSomeRx \/ usb_uart_rx_callback \/ DmaIrq
              \/ TimerIrq \/ TakeStream
              \/ StopRx \/ StopRxSecond \/ ResetUart \/ InitUart \/ EnableUart
              \/ UNCHANGED vars
       PROVE  UNCHANGED TxData /\ ~cut
  <2>1. CASE Arrive \/ TakeStream \/ UNCHANGED vars
    BY <2>1 DEF Arrive, TakeStream, vars, TxData
  <2>2. CASE MoveSomeRx
    BY <2>2 DEF MoveSomeRx, MoveRx, TxData
  <2>3. CASE usb_uart_rx_callback
    BY <2>3 DEF usb_uart_rx_callback, TxData
  <2>4. CASE DmaIrq
    <3>1. CASE usb_uart_dma_handler_0
      BY <3>1 DEF usb_uart_dma_handler_0, TxData
    <3>2. CASE usb_uart_dma_handler_1
      BY <3>2 DEF usb_uart_dma_handler_1, TxData
    <3>3. CASE usb_uart_dma_handler_tx
      BY <3>3 DEF usb_uart_dma_handler_tx, TxData
    <3> QED
      BY <2>4, <3>1, <3>2, <3>3 DEF DmaIrq
  <2>5. CASE TimerIrq
    BY <2>5 DEF TimerIrq, TimeoutWaits, TimeoutFlushes, TxData
  <2>6. CASE StopRx \/ StopRxSecond
    BY <2>6 DEF StopRx, StopRxSecond, StopChannel, Cuts, TxData
  <2>7. CASE ResetUart \/ InitUart \/ EnableUart
    BY <2>7 DEF ResetUart, InitUart, EnableUart, Cuts, TxData
  <2> QED
    BY <1>10, <2>1, <2>2, <2>3, <2>4, <2>5, <2>6, <2>7
<1>11. ASSUME UNCHANGED TxData, ~cut PROVE Goal
  <2>1. Sending' = Sending
    BY <1>11 DEF TxData, Sending
  <2> QED
    BY <1>3, <1>11, <2>1 DEF TxData
<1> QED
  BY <1>4, <1>5, <1>6, <1>7, <1>8, <1>9, <1>10, <1>11
     DEF Next, TxThread, LineCodingThread

-----------------------------------------------------------------------------
(***************************************************************************)
(* The reception.                                                          *)
(***************************************************************************)
LEMMA QueueFlush ==
    ASSUME NEW a, NEW b, NEW c, NEW d, Queued(a, b, c, d),
           NEW x \in Seq(Nat), NEW y \in Seq(Nat), IsJoin(c, x, y),
           NEW f \in Seq(Nat), NEW g \in Seq(Nat), IsJoin(x, f, g),
           NEW p, IsJoin(p, b, f)
    PROVE  Queued(a, p, y, d) /\ AllOf(a, p, y, d) \cup Numbers(g) = AllOf(a, b, c, d)
<1>1. b \in Seq(Nat)
  BY DEF Queued
<1>2. Numbers(c) = Numbers(x) \cup Numbers(y)
      /\ Increasing(x) /\ Increasing(y) /\ Ahead(x, y)
  BY JoinFacts DEF Queued
<1>3. Numbers(x) = Numbers(f) \cup Numbers(g) /\ Increasing(f)
  BY <1>2, JoinFacts
<1>4. Ahead(b, f)
  BY <1>2, <1>3 DEF Queued, Ahead
<1>5. p \in Seq(Nat) /\ Numbers(p) = Numbers(b) \cup Numbers(f) /\ Increasing(p)
  BY <1>1, <1>3, <1>4, JoinFacts DEF Queued
<1>6. Ahead(a, p) /\ Ahead(a, y) /\ Ahead(p, y) /\ Ahead(p, d) /\ Ahead(y, d)
  BY <1>2, <1>3, <1>5 DEF Queued, Ahead
<1> QED
  BY <1>2, <1>3, <1>5, <1>6 DEF Queued, AllOf

\* The first byte of a FIFO, and the rest.
LEMMA HeadTail ==
    ASSUME NEW s \in Seq(Nat), s # <<>>
    PROVE  /\ Head(s) \in Nat /\ Head(s) \in Numbers(s) /\ Tail(s) \in Seq(Nat)
           /\ Len(Tail(s)) = Len(s) - 1 /\ IsJoin(s, Single(Head(s)), Tail(s))
<1>1. Len(s) \in Nat /\ Len(s) > 0 /\ Head(s) = s[1] /\ s[1] \in Nat
  OBVIOUS
<1>2. /\ Tail(s) \in Seq(Nat) /\ Len(Tail(s)) = Len(s) - 1
      /\ \A i \in 1..Len(s) - 1 : Tail(s)[i] = s[1 + i]
  OBVIOUS
<1>3. PICK x \in Nat : x = s[1]
  BY <1>1
<1>4. Single(x) \in Seq(Nat) /\ Len(Single(x)) = 1 /\ \A i \in 1..1 : Single(x)[i] = s[i]
  BY <1>3, SingleFacts DEF Single
<1>5. Parts(s, 1, Single(x), Tail(s)) /\ 1 \in 0..Len(s)
  BY <1>1, <1>2, <1>4 DEF Parts
<1>6. IsJoin(s, Single(x), Tail(s))
  BY <1>5, PartsJoin
<1> QED
  BY <1>1, <1>2, <1>3, <1>6 DEF Numbers

\* xStreamBufferSendFromISR splits what it is given.
LEMMA SendSplits ==
    ASSUME RxContents, NEW bytes \in Seq(Nat), SendFromISR(bytes)
    PROVE  \E f, g \in Seq(Nat) :
              /\ IsJoin(bytes, f, g) /\ IsJoin(rx_stream', rx_stream, f)
              /\ dropped' = dropped \cup Numbers(g)
              /\ rx_stream' \in Seq(Nat) /\ Len(rx_stream') <= StreamSize
              /\ Numbers(rx_stream') \subseteq Numbers(rx_stream) \cup Numbers(bytes)
              /\ Numbers(g) \subseteq Numbers(bytes)
<1>1. /\ rx_stream \in Seq(Nat) /\ Len(rx_stream) \in Nat /\ Len(rx_stream) <= StreamSize
      /\ StreamSize \in Nat /\ Len(bytes) \in Nat
  BY SizesAssumption DEF RxContents
<1>2. PICK n : n = IF Len(bytes) < StreamSize - Len(rx_stream) THEN Len(bytes)
                   ELSE StreamSize - Len(rx_stream)
  OBVIOUS
<1>3. n \in 0..Len(bytes) /\ Len(rx_stream) + n <= StreamSize
  BY <1>1, <1>2
<1>4. PICK f : f = FirstPart(bytes, n)
  OBVIOUS
<1>5. PICK g : g = LastPart(bytes, n)
  OBVIOUS
<1>6. /\ rx_stream' = rx_stream \o f
      /\ dropped' = dropped \cup {bytes[k] : k \in n + 1 .. Len(bytes)}
  BY <1>2, <1>4 DEF SendFromISR, FirstPart
<1>7. /\ IsJoin(bytes, f, g) /\ f \in Seq(Nat) /\ g \in Seq(Nat) /\ Len(f) = n
      /\ Len(g) = Len(bytes) - n /\ Parts(bytes, n, f, g)
  BY <1>3, <1>4, <1>5, Split
<1>8. Numbers(g) = {bytes[k] : k \in n + 1 .. Len(bytes)}
  <2>1. \A i \in 1..Len(g) : g[i] = bytes[n + i] /\ n + i \in n + 1 .. Len(bytes)
    <3>1. \A i \in 1..Len(bytes) - n : g[i] = bytes[n + i]
      BY <1>7 DEF Parts
    <3>2. \A i \in 1..Len(g) : i \in 1..Len(bytes) - n /\ n + i \in n + 1 .. Len(bytes)
      BY <1>1, <1>3, <1>7
    <3> QED
      BY <3>1, <3>2
  <2>2. ASSUME NEW k \in n + 1 .. Len(bytes) PROVE bytes[k] \in Numbers(g)
    <3>1. k - n \in 1..Len(g) /\ n + (k - n) = k
      BY <1>1, <1>3, <1>7
    <3>2. g[k - n] = bytes[k]
      BY <2>1, <3>1
    <3> QED
      BY <3>1, <3>2 DEF Numbers
  <2> QED
    BY <2>1, <2>2 DEF Numbers
<1>9. IsJoin(rx_stream', rx_stream, f)
  BY <1>6 DEF IsJoin
<1>10. /\ rx_stream' \in Seq(Nat) /\ Len(rx_stream') = Len(rx_stream) + Len(f)
       /\ Numbers(rx_stream') = Numbers(rx_stream) \cup Numbers(f)
  BY <1>1, <1>7, <1>9, JoinFacts
<1>11. Numbers(bytes) = Numbers(f) \cup Numbers(g)
  BY <1>7, JoinFacts
<1>12. Len(rx_stream') <= StreamSize
  BY <1>3, <1>7, <1>10
<1> QED
  BY <1>6, <1>7, <1>8, <1>9, <1>10, <1>11, <1>12

\* What the buffers hold.
LEMMA BufferFacts ==
    ASSUME Flags, Channels, Filled, NEW i \in Chan
    PROVE  /\ rx_buffer[i] \in Seq(Nat) /\ Len(rx_buffer[i]) = BufSize
           /\ Status(i) => Numbers(rx_buffer[i]) \subseteq 1..arrived
           /\ Unsent(i) \in Seq(Nat) /\ Numbers(Unsent(i)) \subseteq 1..arrived
           /\ Partial(i) \in Seq(Nat) /\ Numbers(Partial(i)) \subseteq 1..arrived
<1>1. /\ BufSize \in Nat \ {0} /\ arrived \in Nat
      /\ count[i] \in 0..BufSize /\ (busy[i] <=> count[i] > 0)
  BY SizesAssumption DEF Flags, Channels
<1>2. PICK b : b = rx_buffer[i]
  OBVIOUS
<1>3. b \in [1..BufSize -> 0..arrived]
  BY <1>2 DEF Filled
<1>4. \A k \in 1..BufSize : b[k] \in Nat /\ b[k] <= arrived
  BY <1>1, <1>3
<1>5. b \in [1..BufSize -> Nat]
  BY <1>3, <1>4
<1>6. b \in Seq(Nat) /\ Len(b) = BufSize
  BY <1>1, <1>5
<1>7. Status(i) => Numbers(b) \subseteq 1..arrived
  BY <1>1, <1>2, <1>4, <1>6 DEF Filled, Numbers
<1>8. PICK n : n = BufSize - count[i]
  OBVIOUS
<1>9. n \in 0..BufSize
  BY <1>1, <1>8
<1>10. PICK f : f = FirstPart(b, n)
  OBVIOUS
<1>11. f \in Seq(Nat) /\ Len(f) = n /\ \A k \in 1..n : f[k] = b[k]
  <2>1. Parts(b, n, f, LastPart(b, n))
    BY <1>6, <1>9, <1>10, SplitParts
  <2> QED
    BY <2>1 DEF Parts
<1>12. ASSUME busy[i] PROVE Numbers(f) \subseteq 1..arrived
  <2> SUFFICES ASSUME NEW k \in 1..n PROVE f[k] \in 1..arrived
    BY <1>11 DEF Numbers
  <2>1. k \in 1..BufSize /\ k <= BufSize - count[i]
    BY <1>1, <1>8, <1>9
  <2>2. b[k] > 0
    BY <1>2, <1>12, <2>1 DEF Filled
  <2> QED
    BY <1>1, <1>4, <1>11, <2>1, <2>2
<1>13. Unsent(i) \in Seq(Nat) /\ Numbers(Unsent(i)) \subseteq 1..arrived
  <2>1. CASE Status(i)
    BY <1>2, <1>6, <1>7, <2>1 DEF Unsent
  <2>2. CASE ~Status(i) /\ busy[i]
    <3>1. Unsent(i) = f
      BY <1>2, <1>8, <1>10, <2>2 DEF Unsent, FirstPart
    <3> QED
      BY <1>11, <1>12, <2>2, <3>1
  <2>3. CASE ~Status(i) /\ ~busy[i]
    <3>1. Unsent(i) = <<>>
      BY <2>3 DEF Unsent
    <3> QED
      BY <3>1, EmptyFacts
  <2> QED
    BY <2>1, <2>2, <2>3
<1>14. Partial(i) \in Seq(Nat) /\ Numbers(Partial(i)) \subseteq 1..arrived
  <2>1. CASE n > 0 /\ n < BufSize
    <3>1. Partial(i) = f
      BY <1>2, <1>8, <1>10, <2>1 DEF Partial, FirstPart
    <3>2. count[i] > 0
      BY <1>1, <1>8, <2>1
    <3> QED
      BY <1>1, <1>11, <1>12, <3>1, <3>2
  <2>2. CASE ~(n > 0 /\ n < BufSize)
    <3>1. Partial(i) = <<>>
      BY <1>8, <2>2 DEF Partial
    <3> QED
      BY <3>1, EmptyFacts
  <2> QED
    BY <2>1, <2>2
<1> QED
  BY <1>2, <1>6, <1>7, <1>13, <1>14

LEMMA InitReception == Init => RxContents /\ Filled
<1> SUFFICES ASSUME Init PROVE RxContents /\ Filled
  OBVIOUS
<1>1. /\ fifo = <<>> /\ rx_stream = <<>> /\ taken = <<>> /\ dropped = {} /\ arrived = 0
      /\ rx_buffer = [i \in Chan |-> [k \in 1..BufSize |-> 0]]
      /\ busy = [i \in Chan |-> FALSE] /\ irq0 = [i \in Chan |-> FALSE]
  BY DEF Init
<1>2. Len(fifo) <= FifoSize /\ Len(rx_stream) <= StreamSize
  BY <1>1, EmptyFacts, SizesAssumption
<1>3. RxContents
  BY <1>1, <1>2, EmptyFacts DEF RxContents
<1>4. Filled
  BY <1>1 DEF Filled, Status
<1> QED
  BY <1>3, <1>4

RxData == <<fifo, arrived, rx_stream, taken, rx_buffer, dropped, busy, count, flag, irq0>>

\* The actions that leave the receive path alone.
LEMMA RxBystanders ==
    ASSUME \/ MoveTx \/ usb_uart_dma_handler_tx \/ TimeoutWaits \/ TxThread
           \/ StopTx \/ EnableUart \/ HostSends \/ UNCHANGED vars
    PROVE  UNCHANGED RxData
<1> USE DEF uart, line, rx_dma, tx_dma, rx_soft, tx_soft, lc, history, RxData
<1>1. CASE MoveTx \/ usb_uart_dma_handler_tx
  BY <1>1 DEF MoveTx, usb_uart_dma_handler_tx
<1>2. CASE TimeoutWaits \/ HostSends \/ UNCHANGED vars
  BY <1>2 DEF TimeoutWaits, HostSends, vars
<1>3. CASE TxThread
  BY <1>3 DEF TxThread, Receive, StartTx, EnableTxIrq, RequestTx, WaitTx
<1>4. CASE StopTx \/ EnableUart
  BY <1>4 DEF StopTx, EnableUart
<1> QED
  BY <1>1, <1>2, <1>3, <1>4

LEMMA FilledStep ==
    ASSUME Flags, Channels, RxContents, Filled, [Next]_vars
    PROVE  Filled'
<1> USE DEF uart, line, rx_dma, tx_dma, rx_soft, tx_soft, lc, history
<1>1. /\ BufSize \in Nat \ {0} /\ Chan = {0, 1} /\ arrived \in Nat
      /\ \A i \in Chan : count[i] \in 0..BufSize /\ (busy[i] <=> count[i] > 0)
      /\ busy \in [Chan -> BOOLEAN] /\ flag \in [Chan -> BOOLEAN]
      /\ irq0 \in [Chan -> BOOLEAN] /\ count \in [Chan -> 0..BufSize]
  BY SizesAssumption DEF Flags, Channels, Chan
<1>2. /\ rx_buffer \in [Chan -> [1..BufSize -> 0..arrived]]
      /\ \A i \in Chan : \A k \in 1..BufSize :
            Status(i) \/ (busy[i] /\ k <= BufSize - count[i]) => rx_buffer[i][k] > 0
  BY DEF Filled
<1>3. CASE UNCHANGED RxData
  BY <1>2, <1>3 DEF RxData, Filled, Status
<1>4. CASE Arrive
  <2>1. arrived' = arrived + 1 /\ UNCHANGED <<rx_buffer, busy, count, flag, irq0>>
    BY <1>4 DEF Arrive
  <2>2. 0..arrived \subseteq 0..arrived'
    BY <1>1, <2>1
  <2>3. rx_buffer' \in [Chan -> [1..BufSize -> 0..arrived']]
    BY <1>2, <2>1, <2>2
  <2> QED
    BY <1>2, <2>1, <2>3 DEF Filled, Status
<1>5. ASSUME NEW i \in Chan, MoveRx(i) PROVE Filled'
  <2>1. PICK x : x = Head(fifo)
    OBVIOUS
  <2>2. PICK c : c = count[i]
    OBVIOUS
  <2>3. PICK m : m = BufSize - c + 1
    OBVIOUS
  <2>4. /\ busy[i] /\ fifo # <<>>
        /\ rx_buffer' = [rx_buffer EXCEPT ![i][m] = x]
        /\ flag' = [flag EXCEPT ![i] = @ \/ c = 1]
        /\ busy' = [j \in Chan |-> IF j = i THEN c # 1
                                   ELSE busy[j] \/ (c = 1 /\ i = 0)]
        /\ count' = [j \in Chan |-> IF j = i THEN c - 1
                                    ELSE IF c = 1 /\ i = 0 THEN BufSize ELSE count[j]]
        /\ UNCHANGED <<irq0, arrived>>
    BY <1>5, <2>1, <2>2, <2>3 DEF MoveRx
  <2>5. c \in 1..BufSize /\ m \in 1..BufSize
    BY <1>1, <2>2, <2>3, <2>4
  <2>6. x \in 1..arrived
    BY <2>1, <2>4, HeadTail DEF RxContents
  <2>7. /\ rx_buffer'[i] = [rx_buffer[i] EXCEPT ![m] = x]
        /\ \A j \in Chan : j # i => rx_buffer'[j] = rx_buffer[j]
        /\ rx_buffer' \in [Chan -> [1..BufSize -> 0..arrived']]
    <3>1. rx_buffer[i] \in [1..BufSize -> 0..arrived] /\ x \in 0..arrived
      <4>1. x \in 0..arrived
        BY <1>1, <2>6
      <4> QED
        BY <1>2, <4>1
    <3>2. [rx_buffer[i] EXCEPT ![m] = x] \in [1..BufSize -> 0..arrived]
      BY <3>1
    <3>3. rx_buffer' = [rx_buffer EXCEPT ![i] = [rx_buffer[i] EXCEPT ![m] = x]]
      BY <2>4
    <3> QED
      BY <1>2, <2>4, <3>2, <3>3
  <2>8. ASSUME NEW k \in 1..BufSize, Status(i)' \/ (busy'[i] /\ k <= BufSize - count'[i])
        PROVE  rx_buffer'[i][k] > 0
    <3>1. CASE k = m
      <4>1. rx_buffer'[i][k] = x
        BY <1>2, <2>5, <2>7, <3>1
      <4> QED
        BY <1>1, <2>6, <4>1
    <3>2. CASE k # m
      <4>1. rx_buffer'[i][k] = rx_buffer[i][k]
        BY <1>2, <2>7, <3>2
      <4>2. CASE k <= BufSize - c
        BY <1>2, <2>2, <2>4, <4>1, <4>2
      <4>3. CASE ~(k <= BufSize - c)
        <5>1. k > m
          BY <1>1, <2>3, <2>5, <3>2, <4>3
        <5>2. c # 1 /\ count'[i] = c - 1
          BY <1>1, <2>3, <2>4, <2>5, <5>1
        <5>3. ~(k <= BufSize - count'[i])
          BY <1>1, <2>3, <2>5, <5>1, <5>2
        <5>4. Status(i)
          BY <1>1, <2>4, <2>8, <5>2, <5>3 DEF Status
        <5> QED
          BY <1>2, <4>1, <5>4
      <4> QED
        BY <4>2, <4>3
    <3> QED
      BY <3>1, <3>2
  <2>9. ASSUME NEW j \in Chan, j # i, NEW k \in 1..BufSize,
               Status(j)' \/ (busy'[j] /\ k <= BufSize - count'[j])
        PROVE  rx_buffer'[j][k] > 0
    <3>1. Status(j)' = Status(j) /\ rx_buffer'[j][k] = rx_buffer[j][k]
      BY <1>1, <2>4, <2>7, <2>9 DEF Status
    <3>2. CASE c = 1 /\ i = 0
      <4>1. count'[j] = BufSize
        BY <2>4, <2>9, <3>2
      <4>2. ~(k <= BufSize - count'[j])
        BY <1>1, <4>1
      <4> QED
        BY <1>2, <2>9, <3>1, <4>2
    <3>3. CASE ~(c = 1 /\ i = 0)
      <4>1. count'[j] = count[j] /\ busy'[j] = busy[j]
        BY <1>1, <2>4, <2>9, <3>3
      <4> QED
        BY <1>2, <2>9, <3>1, <4>1
    <3> QED
      BY <3>2, <3>3
  <2> QED
    BY <2>7, <2>8, <2>9 DEF Filled
<1>6. ASSUME UNCHANGED <<rx_buffer, arrived>>,
             busy' = [busy EXCEPT ![0] = TRUE], count' = [count EXCEPT ![0] = BufSize],
             \A i \in Chan : Status(i)' => Status(i)
      PROVE  Filled'
  <2>1. ASSUME NEW i \in Chan, NEW k \in 1..BufSize,
               Status(i)' \/ (busy'[i] /\ k <= BufSize - count'[i])
        PROVE  rx_buffer'[i][k] > 0
    <3>1. CASE i = 0
      <4>1. ~(k <= BufSize - count'[i])
        BY <1>1, <1>6, <3>1
      <4> QED
        BY <1>2, <1>6, <2>1, <4>1
    <3>2. CASE i # 0
      BY <1>1, <1>2, <1>6, <2>1, <3>2
    <3> QED
      BY <3>1, <3>2
  <2> QED
    BY <1>2, <1>6, <2>1 DEF Filled
<1>7. CASE usb_uart_rx_callback
  <2>1. /\ UNCHANGED <<rx_buffer, arrived>> /\ flag' = [i \in Chan |-> FALSE]
        /\ busy' = [busy EXCEPT ![0] = TRUE] /\ count' = [count EXCEPT ![0] = BufSize]
    BY <1>7 DEF usb_uart_rx_callback, ConfigureRx
  <2>2. \A i \in Chan : ~Status(i)'
    BY <2>1 DEF Status
  <2> QED
    BY <1>6, <2>1, <2>2
<1>8. CASE usb_uart_dma_handler_1
  <2>1. /\ UNCHANGED <<rx_buffer, arrived, irq0>> /\ flag' = [flag EXCEPT ![1] = FALSE]
        /\ busy' = [busy EXCEPT ![0] = TRUE] /\ count' = [count EXCEPT ![0] = BufSize]
    BY <1>8 DEF usb_uart_dma_handler_1, ConfigureRx
  <2>2. \A i \in Chan : Status(i)' => Status(i)
    BY <1>1, <2>1 DEF Status
  <2> QED
    BY <1>6, <2>1, <2>2
<1>9. CASE usb_uart_dma_handler_0
  <2>1. /\ UNCHANGED <<rx_buffer, arrived, irq0, busy, count>>
        /\ flag' = [flag EXCEPT ![0] = FALSE]
    BY <1>9 DEF usb_uart_dma_handler_0
  <2>2. \A i \in Chan : Status(i)' => Status(i)
    BY <1>1, <2>1 DEF Status
  <2> QED
    BY <1>2, <2>1, <2>2 DEF Filled
<1>10. CASE TimeoutFlushes \/ StopRx \/ StopRxSecond
  <2>1. CASE TimeoutFlushes
    <3>1. /\ UNCHANGED <<rx_buffer, arrived>> /\ busy' = [i \in Chan |-> FALSE]
          /\ irq0' = [i \in Chan |-> FALSE]
      BY <2>1 DEF TimeoutFlushes, AbortRx
    <3>2. \A i \in Chan : ~Status(i)' /\ ~busy'[i]
      BY <3>1 DEF Status
    <3> QED
      BY <1>2, <3>1, <3>2 DEF Filled
  <2>2. CASE StopRx \/ StopRxSecond
    <3>1. PICK i \in Chan :
                /\ busy' = [busy EXCEPT ![i] = FALSE] /\ count' = [count EXCEPT ![i] = 0]
                /\ irq0' = [irq0 EXCEPT ![i] = FALSE]
                /\ flag' \in {flag, [flag EXCEPT ![i] = @ \/ busy[i]]}
                /\ UNCHANGED <<rx_buffer, arrived>>
      BY <2>2 DEF StopRx, StopRxSecond, StopChannel, Chan
    <3>2. ~Status(i)' /\ ~busy'[i]
      BY <1>1, <3>1 DEF Status
    <3>3. \A j \in Chan \ {i} :
            Status(j)' = Status(j) /\ busy'[j] = busy[j] /\ count'[j] = count[j]
      BY <1>1, <3>1 DEF Status
    <3> QED
      BY <1>2, <3>1, <3>2, <3>3 DEF Filled
  <2> QED
    BY <1>10, <2>1, <2>2
<1>11. CASE ResetUart \/ InitUart \/ TakeStream
  <2>1. UNCHANGED <<rx_buffer, arrived, irq0, busy, count, flag>>
    BY <1>11 DEF ResetUart, InitUart, TakeStream
  <2> QED
    BY <1>2, <2>1 DEF Filled, Status
<1> QED
  BY <1>3, <1>4, <1>5, <1>7, <1>8, <1>9, <1>10, <1>11, RxBystanders
     DEF Next, MoveSomeRx, DmaIrq, TimerIrq, LineCodingThread

LEMMA RxContentsStep ==
    ASSUME Flags, Channels, RxContents, Filled, [Next]_vars
    PROVE  RxContents'
<1> USE DEF uart, line, rx_dma, tx_dma, rx_soft, tx_soft, lc, history
<1>1. /\ fifo \in Seq(Nat) /\ Len(fifo) <= FifoSize /\ Len(fifo) \in Nat
      /\ rx_stream \in Seq(Nat) /\ Len(rx_stream) <= StreamSize
      /\ taken \in Seq(Nat)
      /\ Numbers(fifo) \subseteq 1..arrived /\ Numbers(rx_stream) \subseteq 1..arrived
      /\ Numbers(taken) \subseteq 1..arrived /\ dropped \subseteq 1..arrived
      /\ arrived \in Nat /\ FifoSize \in Nat /\ StreamSize \in Nat
  BY SizesAssumption DEF RxContents, Flags
<1>2. CASE UNCHANGED <<fifo, arrived, rx_stream, taken, dropped>>
  BY <1>1, <1>2 DEF RxContents
<1>3. CASE Arrive
  <2>1. /\ arrived' = arrived + 1 /\ UNCHANGED <<rx_stream, taken>>
        /\ \/ /\ Len(fifo) < FifoSize /\ fifo' = Append(fifo, arrived + 1)
              /\ dropped' = dropped
           \/ dropped' = dropped \cup {arrived + 1} /\ fifo' = fifo
    BY <1>3 DEF Arrive
  <2>2. PICK x \in Nat : x = arrived + 1
    BY <1>1
  <2>3. 1..arrived \subseteq 1..arrived' /\ x \in 1..arrived'
    BY <1>1, <2>1, <2>2
  <2>4. CASE Len(fifo) < FifoSize /\ fifo' = Append(fifo, x) /\ dropped' = dropped
    <3>1. IsJoin(fifo', fifo, Single(x)) /\ fifo' \in Seq(Nat) /\ Len(fifo') = Len(fifo) + 1
      BY <1>1, <2>4, AppendJoins
    <3>2. Numbers(fifo') = Numbers(fifo) \cup {x}
      <4>1. PICK e \in Seq(Nat) : e = Single(x) /\ Numbers(e) = {x}
        BY SingleFacts
      <4>2. IsJoin(fifo', fifo, e)
        BY <3>1, <4>1
      <4>3. Numbers(fifo') = Numbers(fifo) \cup Numbers(e)
        BY <1>1, <4>2, JoinFacts
      <4> QED
        BY <4>1, <4>3
    <3>3. Len(fifo') <= FifoSize
      BY <1>1, <2>4, <3>1
    <3> QED
      BY <1>1, <2>1, <2>3, <2>4, <3>1, <3>2, <3>3 DEF RxContents
  <2>5. CASE dropped' = dropped \cup {x} /\ fifo' = fifo
    BY <1>1, <2>1, <2>3, <2>5 DEF RxContents
  <2> QED
    BY <2>1, <2>2, <2>4, <2>5
<1>4. CASE MoveSomeRx
  <2>1. fifo # <<>> /\ fifo' = Tail(fifo) /\ UNCHANGED <<arrived, rx_stream, taken, dropped>>
    BY <1>4 DEF MoveSomeRx, MoveRx
  <2>2. PICK e \in Seq(Nat) : e = Single(Head(fifo))
    BY <1>1, <2>1, HeadTail, SingleFacts
  <2>3. /\ fifo' \in Seq(Nat) /\ Len(fifo') = Len(fifo) - 1 /\ IsJoin(fifo, e, fifo')
    BY <1>1, <2>1, <2>2, HeadTail
  <2>4. Numbers(fifo) = Numbers(e) \cup Numbers(fifo')
    BY <2>3, JoinFacts
  <2>5. Len(fifo') <= FifoSize
    BY <1>1, <2>3
  <2> QED
    BY <1>1, <2>1, <2>3, <2>4, <2>5 DEF RxContents
<1>5. ASSUME NEW bytes \in Seq(Nat), Numbers(bytes) \subseteq 1..arrived, SendFromISR(bytes),
             UNCHANGED <<fifo, arrived, taken>>
      PROVE  RxContents'
  <2>1. PICK f, g \in Seq(Nat) :
              /\ dropped' = dropped \cup Numbers(g)
              /\ rx_stream' \in Seq(Nat) /\ Len(rx_stream') <= StreamSize
              /\ Numbers(rx_stream') \subseteq Numbers(rx_stream) \cup Numbers(bytes)
              /\ Numbers(g) \subseteq Numbers(bytes)
    BY <1>5, SendSplits
  <2> QED
    BY <1>1, <1>5, <2>1 DEF RxContents
<1>6. CASE usb_uart_dma_handler_0
  <2>1. PICK b : b = rx_buffer[0]
    OBVIOUS
  <2>2. Status(0) /\ SendFromISR(b) /\ UNCHANGED <<fifo, arrived, taken>>
    BY <1>6, <2>1 DEF usb_uart_dma_handler_0
  <2>3. b \in Seq(Nat) /\ Numbers(b) \subseteq 1..arrived
    BY <2>1, <2>2, BufferFacts DEF Chan
  <2> QED
    BY <1>5, <2>2, <2>3
<1>7. CASE usb_uart_dma_handler_1
  <2>1. PICK b : b = rx_buffer[1]
    OBVIOUS
  <2>2. Status(1) /\ SendFromISR(b) /\ UNCHANGED <<fifo, arrived, taken>>
    BY <1>7, <2>1 DEF usb_uart_dma_handler_1
  <2>3. b \in Seq(Nat) /\ Numbers(b) \subseteq 1..arrived
    BY <2>1, <2>2, BufferFacts DEF Chan
  <2> QED
    BY <1>5, <2>2, <2>3
<1>8. CASE TimeoutFlushes
  <2>1. PICK b : b = Partial(0) \o Partial(1)
    OBVIOUS
  <2>2. SendFromISR(b) /\ UNCHANGED <<fifo, arrived, taken>>
    BY <1>8, <2>1 DEF TimeoutFlushes
  <2>3. /\ Partial(0) \in Seq(Nat) /\ Numbers(Partial(0)) \subseteq 1..arrived
        /\ Partial(1) \in Seq(Nat) /\ Numbers(Partial(1)) \subseteq 1..arrived
    BY BufferFacts DEF Chan
  <2>4. IsJoin(b, Partial(0), Partial(1))
    BY <2>1 DEF IsJoin
  <2>5. b \in Seq(Nat) /\ Numbers(b) \subseteq 1..arrived
    BY <2>3, <2>4, JoinFacts
  <2> QED
    BY <1>5, <2>2, <2>5
<1>9. CASE ResetUart
  <2>1. fifo' = <<>> /\ dropped' = dropped \cup ToSet(fifo)
        /\ UNCHANGED <<arrived, rx_stream, taken>>
    BY <1>9 DEF ResetUart
  <2>2. ToSet(fifo) = Numbers(fifo) /\ Len(fifo') <= FifoSize
    BY <1>1, <2>1, ToSetNumbers, EmptyFacts
  <2> QED
    BY <1>1, <2>1, <2>2, EmptyFacts DEF RxContents
<1>10. CASE TakeStream
  <2>1. /\ rx_stream' = <<>> /\ IsJoin(taken', taken, rx_stream)
        /\ UNCHANGED <<fifo, arrived, dropped>>
    BY <1>10 DEF TakeStream, IsJoin
  <2>2. taken' \in Seq(Nat) /\ Numbers(taken') = Numbers(taken) \cup Numbers(rx_stream)
    BY <1>1, <2>1, JoinFacts
  <2>3. Len(rx_stream') <= StreamSize
    BY <1>1, <2>1, EmptyFacts
  <2> QED
    BY <1>1, <2>1, <2>2, <2>3, EmptyFacts DEF RxContents
<1>11. CASE usb_uart_rx_callback \/ StopRx \/ StopRxSecond \/ InitUart \/ UNCHANGED RxData
  <2>1. UNCHANGED <<fifo, arrived, rx_stream, taken, dropped>>
    BY <1>11 DEF usb_uart_rx_callback, StopRx, StopRxSecond, StopChannel, InitUart, RxData
  <2> QED
    BY <1>2, <2>1
<1> QED
  BY <1>3, <1>4, <1>6, <1>7, <1>8, <1>9, <1>10, <1>11, RxBystanders
     DEF Next, DmaIrq, TimerIrq, LineCodingThread

(***************************************************************************)
(* The bytes of the UART: what the reader took, the stream, what is in the *)
(* buffers of the channels and the FIFO are in order and, unless the timer *)
(* raced with an interrupt, together with what was dropped all there were. *)
(***************************************************************************)
Held == Unsent(0) \o Unsent(1)

ReceiveOrder == ~recoded =>
    /\ Queued(taken, rx_stream, Held, fifo)
    /\ ~raced => AllOf(taken, rx_stream, Held, fifo) \cup dropped = 1..arrived

LEMMA FrontFacts ==
    ASSUME NEW s \in Seq(Nat)
    PROVE  FirstPart(s, 0) = <<>> /\ FirstPart(s, Len(s)) = s
<1>1. Len(s) \in Nat
  OBVIOUS
<1>2. PICK z : z = FirstPart(s, 0)
  OBVIOUS
<1>3. z \in Seq(Nat) /\ Len(z) = 0
  BY <1>1, <1>2, Split
<1>4. z = <<>>
  BY <1>3, EmptySeq
<1>5. PICK r : r = FirstPart(s, Len(s))
  OBVIOUS
<1>6. Parts(s, Len(s), r, LastPart(s, Len(s)))
  BY <1>1, <1>5, SplitParts
<1>7. r \in Seq(Nat) /\ Len(r) = Len(s) /\ \A i \in 1..Len(s) : r[i] = s[i]
  BY <1>6 DEF Parts
<1>8. r = s
  BY <1>7, SeqEqual
<1> QED
  BY <1>2, <1>4, <1>5, <1>8

\* A byte written behind the first n elements of a buffer.
LEMMA FrontGrows ==
    ASSUME NEW s \in Seq(Nat), NEW t \in Seq(Nat), Len(t) = Len(s),
           NEW n \in 0..Len(s) - 1, NEW x \in Nat, t[n + 1] = x,
           \A k \in 1..n : t[k] = s[k]
    PROVE  IsJoin(FirstPart(t, n + 1), FirstPart(s, n), Single(x))
<1>1. Len(s) \in Nat /\ n \in Nat /\ n \in 0..Len(s) /\ n + 1 \in 0..Len(t)
  OBVIOUS
<1>2. PICK m : m = n + 1
  OBVIOUS
<1>3. PICK f : f = FirstPart(s, n)
  OBVIOUS
<1>4. PICK h : h = FirstPart(t, m)
  OBVIOUS
<1>5. f \in Seq(Nat) /\ Len(f) = n /\ \A k \in 1..n : f[k] = s[k]
  <2>1. Parts(s, n, f, LastPart(s, n))
    BY <1>1, <1>3, SplitParts
  <2> QED
    BY <2>1 DEF Parts
<1>6. h \in Seq(Nat) /\ Len(h) = m /\ \A k \in 1..m : h[k] = t[k]
  <2>1. Parts(t, m, h, LastPart(t, m))
    BY <1>1, <1>2, <1>4, SplitParts
  <2> QED
    BY <2>1 DEF Parts
<1>7. Single(x) \in Seq(Nat) /\ Len(Single(x)) = 1 /\ Single(x)[1] = x
  BY SingleFacts DEF Single
<1>8. \A k \in 1..n : f[k] = h[k]
  <2>1. \A k \in 1..n : k \in 1..m
    BY <1>1, <1>2
  <2> QED
    BY <1>5, <1>6, <2>1
<1>9. \A i \in 1..Len(h) - n : Single(x)[i] = h[n + i]
  <2>1. Len(h) - n = 1 /\ h[n + 1] = x
    BY <1>1, <1>2, <1>6
  <2>2. \A i \in 1..Len(h) - n : i = 1
    BY <2>1
  <2> QED
    BY <1>7, <2>1, <2>2
<1>10. Len(Single(x)) = Len(h) - n /\ n \in 0..Len(h)
  BY <1>1, <1>2, <1>6, <1>7
<1>11. Parts(h, n, f, Single(x))
  BY <1>5, <1>7, <1>8, <1>9, <1>10 DEF Parts
<1>12. IsJoin(h, f, Single(x))
  BY <1>6, <1>10, <1>11, PartsJoin
<1> QED
  BY <1>2, <1>3, <1>4, <1>12

LEMMA HeldFacts ==
    ASSUME Flags, Channels, Filled
    PROVE  /\ IsJoin(Held, Unsent(0), Unsent(1)) /\ Held \in Seq(Nat)
           /\ Unsent(0) \in Seq(Nat) /\ Unsent(1) \in Seq(Nat)
           /\ Numbers(Held) \subseteq 1..arrived
<1>1. /\ Unsent(0) \in Seq(Nat) /\ Unsent(1) \in Seq(Nat)
      /\ Numbers(Unsent(0)) \subseteq 1..arrived /\ Numbers(Unsent(1)) \subseteq 1..arrived
  BY BufferFacts DEF Chan
<1>2. IsJoin(Held, Unsent(0), Unsent(1))
  BY DEF Held, IsJoin
<1> QED
  BY <1>1, <1>2, JoinFacts

\* Unsent and Partial, by the state of the channel.
LEMMA UnsentCases ==
    ASSUME Flags, Channels, Filled, NEW i \in Chan
    PROVE  /\ ~busy[i] /\ ~Status(i) => Unsent(i) = <<>>
           /\ Status(i) => Unsent(i) = rx_buffer[i]
           /\ ~busy[i] => Partial(i) = <<>>
           /\ ~Status(i) => Partial(i) = Unsent(i)
           /\ ~Status(i) /\ count[i] = BufSize => Unsent(i) = <<>>
<1>1. /\ BufSize \in Nat \ {0} /\ count[i] \in 0..BufSize /\ (busy[i] <=> count[i] > 0)
  BY SizesAssumption DEF Channels
<1>2. PICK b \in Seq(Nat) : b = rx_buffer[i]
  BY BufferFacts
<1>3. PICK n : n = BufSize - count[i]
  OBVIOUS
<1>4. /\ Partial(i) = IF n > 0 /\ n < BufSize THEN FirstPart(b, n) ELSE <<>>
      /\ Unsent(i) = IF Status(i) THEN b ELSE IF busy[i] THEN FirstPart(b, n) ELSE <<>>
  BY <1>2, <1>3 DEF Partial, Unsent, FirstPart
<1>5. ASSUME ~busy[i] PROVE Partial(i) = <<>>
  <2>1. n = BufSize
    BY <1>1, <1>3, <1>5
  <2>2. ~(n < BufSize)
    BY <1>1, <2>1
  <2> QED
    BY <1>4, <2>2
<1>6. ASSUME busy[i], n = 0 PROVE FirstPart(b, n) = <<>> /\ Partial(i) = <<>>
  <2>1. FirstPart(b, n) = <<>>
    BY <1>6, FrontFacts
  <2>2. ~(n > 0)
    BY <1>6
  <2> QED
    BY <1>4, <2>1, <2>2
<1>7. ASSUME busy[i], n # 0 PROVE n > 0 /\ n < BufSize
  BY <1>1, <1>3, <1>7
<1>8. ASSUME count[i] = BufSize PROVE n = 0 /\ busy[i]
  BY <1>1, <1>3, <1>8
<1> QED
  BY <1>2, <1>4, <1>5, <1>6, <1>7, <1>8

LEMMA InitReceiveOrder == Init => ReceiveOrder
<1> SUFFICES ASSUME Init PROVE ReceiveOrder
  OBVIOUS
<1>1. Flags /\ Channels /\ Filled
  BY InitSwitches, InitReception
<1>2. /\ fifo = <<>> /\ rx_stream = <<>> /\ taken = <<>> /\ dropped = {} /\ arrived = 0
      /\ busy = [i \in Chan |-> FALSE] /\ irq0 = [i \in Chan |-> FALSE]
  BY DEF Init
<1>3. ~busy[0] /\ ~busy[1] /\ ~Status(0) /\ ~Status(1)
  BY <1>2 DEF Status, Chan
<1>4. Unsent(0) = <<>> /\ Unsent(1) = <<>>
  BY <1>3 DEF Unsent
<1>5. Held = <<>>
  BY <1>4 DEF Held
<1>6. 1..arrived = {} /\ Ahead(<<>>, <<>>)
  BY <1>2, EmptyFacts DEF Ahead
<1> QED
  BY <1>2, <1>5, <1>6, EmptyFacts DEF ReceiveOrder, Queued, AllOf

\* A channel that moves a byte appends it to what is held.
LEMMA MoveAppends ==
    ASSUME Flags, Channels, Reception, RxContents, Filled, ~recoded,
           NEW i \in Chan, MoveRx(i)
    PROVE  IsJoin(Held', Held, Single(Head(fifo)))
<1>1. /\ BufSize \in Nat \ {0} /\ Chan = {0, 1}
      /\ \A j \in Chan : count[j] \in 0..BufSize /\ (busy[j] <=> count[j] > 0)
      /\ busy \in [Chan -> BOOLEAN] /\ flag \in [Chan -> BOOLEAN]
      /\ irq0 \in [Chan -> BOOLEAN] /\ timers \in Nat
  BY SizesAssumption DEF Channels, Chan
<1>2. PICK x : x = Head(fifo)
  OBVIOUS
<1>3. PICK c : c = count[i]
  OBVIOUS
<1>4. PICK n : n = BufSize - c
  OBVIOUS
<1>5. /\ busy[i] /\ fifo # <<>>
      /\ rx_buffer' = [rx_buffer EXCEPT ![i][n + 1] = x]
      /\ flag' = [flag EXCEPT ![i] = @ \/ c = 1]
      /\ busy' = [j \in Chan |-> IF j = i THEN c # 1
                                 ELSE busy[j] \/ (c = 1 /\ i = 0)]
      /\ count' = [j \in Chan |-> IF j = i THEN c - 1
                                  ELSE IF c = 1 /\ i = 0 THEN BufSize ELSE count[j]]
      /\ irq0' = irq0
  BY <1>2, <1>3, <1>4 DEF MoveRx, rx_dma
<1>6. c \in 1..BufSize /\ n \in 0..BufSize - 1
  BY <1>1, <1>3, <1>4, <1>5
<1>7. x \in Nat
  BY <1>2, <1>5, HeadTail DEF RxContents
<1>8. PICK b : b = rx_buffer[i]
  OBVIOUS
<1>9. PICK b2 : b2 = [b EXCEPT ![n + 1] = x]
  OBVIOUS
<1>10. b \in Seq(Nat) /\ Len(b) = BufSize
  BY <1>8, BufferFacts
<1>11. /\ b2 \in Seq(Nat) /\ Len(b2) = BufSize /\ b2[n + 1] = x
       /\ \A k \in 1..n : b2[k] = b[k]
  <2>1. n + 1 \in 1..BufSize
    BY <1>1, <1>6
  <2>2. b \in [1..BufSize -> Nat]
    BY <1>10
  <2>3. b2 \in [1..BufSize -> Nat] /\ b2[n + 1] = x /\ \A k \in 1..BufSize : k # n + 1 => b2[k] = b[k]
    BY <1>7, <1>9, <2>1, <2>2
  <2>4. b2 \in Seq(Nat) /\ Len(b2) = BufSize
    BY <1>1, <2>3
  <2>5. \A k \in 1..n : k \in 1..BufSize /\ k # n + 1
    BY <1>1, <1>6
  <2> QED
    BY <2>3, <2>4, <2>5
<1>12. rx_buffer'[i] = b2 /\ \A j \in Chan : j # i => rx_buffer'[j] = rx_buffer[j]
  <2>1. rx_buffer' = [rx_buffer EXCEPT ![i] = b2]
    BY <1>5, <1>8, <1>9
  <2> QED
    BY <2>1 DEF Filled
<1>13. /\ ~Status(i) /\ irq0[i] /\ ~(busy[0] /\ busy[1])
       /\ Status(1) => ~busy[0]
  <2>1. timers # 0
    BY <1>5 DEF Reception
  <2>2. timers = 1
    BY <1>1, <2>1 DEF Reception
  <2> QED
    BY <1>1, <1>5, <2>2 DEF Reception
<1>14. Unsent(i) = FirstPart(b, n)
  BY <1>3, <1>4, <1>5, <1>8, <1>13 DEF Unsent, FirstPart
<1>15. Unsent(i)' = FirstPart(b2, n + 1)
  <2>1. CASE c = 1
    <3>1. Status(i)'
      BY <1>1, <1>5, <1>13, <2>1 DEF Status
    <3>2. Unsent(i)' = b2
      BY <1>12, <3>1 DEF Unsent
    <3>3. n + 1 = Len(b2)
      BY <1>1, <1>4, <1>11, <2>1
    <3> QED
      BY <1>11, <3>2, <3>3, FrontFacts
  <2>2. CASE c # 1
    <3>1. ~Status(i)' /\ busy'[i] /\ count'[i] = c - 1
      BY <1>1, <1>5, <1>13, <2>2 DEF Status
    <3>2. Unsent(i)' = FirstPart(b2, BufSize - (c - 1))
      BY <1>12, <3>1 DEF Unsent, FirstPart
    <3>3. BufSize - (c - 1) = n + 1
      BY <1>1, <1>4, <1>6
    <3> QED
      BY <3>2, <3>3
  <2> QED
    BY <2>1, <2>2
<1>16. IsJoin(Unsent(i)', Unsent(i), Single(x))
  BY <1>6, <1>7, <1>10, <1>11, <1>14, <1>15, FrontGrows
<1>17. /\ Unsent(0) \in Seq(Nat) /\ Unsent(1) \in Seq(Nat)
  BY HeldFacts
<1>18. CASE i = 0
  <2>1. ~busy[1] /\ ~Status(1)
    BY <1>5, <1>13, <1>18
  <2>2. Unsent(1) = <<>>
    BY <2>1 DEF Unsent
  <2>3. ~Status(1)'
    BY <1>1, <1>5, <1>18, <2>1 DEF Status
  <2>4. Unsent(1)' = <<>>
    <3>1. CASE c = 1
      <4>1. busy'[1] /\ count'[1] = BufSize
        BY <1>1, <1>5, <1>18, <3>1
      <4>2. BufSize - count'[1] = 0
        BY <1>1, <4>1
      <4>3. Unsent(1)' = FirstPart(rx_buffer'[1], 0)
        BY <2>3, <4>1, <4>2 DEF Unsent, FirstPart
      <4>4. rx_buffer'[1] = rx_buffer[1] /\ rx_buffer[1] \in Seq(Nat)
        BY <1>1, <1>12, <1>18, BufferFacts
      <4> QED
        BY <4>3, <4>4, FrontFacts
    <3>2. CASE c # 1
      <4>1. ~busy'[1]
        BY <1>1, <1>5, <1>18, <2>1, <3>2
      <4> QED
        BY <2>3, <4>1 DEF Unsent
    <3> QED
      BY <3>1, <3>2
  <2>5. Unsent(0)' \in Seq(Nat)
    BY <1>7, <1>16, <1>17, <1>18, JoinFacts, SingleFacts
  <2>6. Held = Unsent(0) /\ Held' = Unsent(0)'
    <3>1. Held = Unsent(0) \o <<>> /\ Held' = Unsent(0)' \o <<>>
      BY <2>2, <2>4 DEF Held
    <3> QED
      BY <1>17, <2>5, <3>1, ConcatEmptySeq
  <2> QED
    BY <1>2, <1>16, <1>18, <2>6
<1>19. CASE i = 1
  <2>1. /\ busy'[0] = busy[0] /\ count'[0] = count[0] /\ flag'[0] = flag[0]
        /\ rx_buffer'[0] = rx_buffer[0]
    BY <1>1, <1>5, <1>12, <1>19
  <2>2. Unsent(0)' = Unsent(0)
    BY <1>5, <2>1 DEF Unsent, Status
  <2>3. PICK e \in Seq(Nat) : e = Single(x)
    BY <1>7, SingleFacts
  <2>4. Unsent(1)' = Unsent(1) \o e
    BY <1>16, <1>19, <2>3 DEF IsJoin
  <2>5. Held' = Unsent(0) \o (Unsent(1) \o e)
    BY <2>2, <2>4 DEF Held
  <2>6. Held' = Held \o e
    <3>1. PICK u \in Seq(Nat) : u = Unsent(0)
      BY <1>17
    <3>2. PICK v \in Seq(Nat) : v = Unsent(1)
      BY <1>17
    <3>3. (u \o v) \o e = u \o (v \o e)
      BY ConcatAssociative
    <3>4. Held = u \o v
      BY <3>1, <3>2 DEF Held
    <3> QED
      BY <2>5, <3>1, <3>2, <3>3, <3>4
  <2> QED
    BY <1>2, <2>3, <2>6 DEF IsJoin
<1> QED
  BY <1>1, <1>18, <1>19

\* With its interrupt served and no channel running, nothing is held; nor is
\* it after the channels were stopped, or set up without a byte moved.
LEMMA NothingHeld ==
    ASSUME Flags, Channels, Filled
    PROVE  /\ (\A i \in Chan : ~busy[i] /\ ~Status(i)) => Held = <<>>
           /\ (\A i \in Chan : ~busy'[i] /\ ~Status(i)') => Held' = <<>>
           /\ /\ ~Status(0)' /\ ~Status(1)' /\ ~busy'[1]
              /\ count'[0] = BufSize /\ rx_buffer' = rx_buffer
              => Held' = <<>>
<1>1. Chan = {0, 1} /\ BufSize \in Nat
  BY SizesAssumption DEF Chan
<1>2. ASSUME \A i \in Chan : ~busy[i] /\ ~Status(i) PROVE Held = <<>>
  <2>1. Unsent(0) = <<>> /\ Unsent(1) = <<>>
    BY <1>1, <1>2 DEF Unsent
  <2> QED
    BY <2>1 DEF Held
<1>3. ASSUME \A i \in Chan : ~busy'[i] /\ ~Status(i)' PROVE Held' = <<>>
  <2>1. Unsent(0)' = <<>> /\ Unsent(1)' = <<>>
    BY <1>1, <1>3 DEF Unsent
  <2> QED
    BY <2>1 DEF Held
<1>4. ASSUME ~Status(0)', ~Status(1)', ~busy'[1], count'[0] = BufSize, rx_buffer' = rx_buffer
      PROVE  Held' = <<>>
  <2>1. Unsent(1)' = <<>>
    BY <1>4 DEF Unsent
  <2>2. BufSize - count'[0] = 0
    BY <1>1, <1>4
  <2>3. Unsent(0)' = <<>> \/ Unsent(0)' = FirstPart(rx_buffer[0], 0)
    BY <1>4, <2>2 DEF Unsent, FirstPart
  <2>4. rx_buffer[0] \in Seq(Nat)
    BY <1>1, BufferFacts
  <2>5. Unsent(0)' = <<>>
    BY <2>3, <2>4, FrontFacts
  <2> QED
    BY <2>1, <2>5 DEF Held
<1> QED
  BY <1>2, <1>3, <1>4

LEMMA ReceiveOrderStep ==
    ASSUME Flags, Channels, Reception, RxContents, Filled, ReceiveOrder, [Next]_vars
    PROVE  ReceiveOrder'
<1> USE DEF uart, line, rx_dma, tx_dma, rx_soft, tx_soft, lc, history
<1> DEFINE Goal == /\ Queued(taken', rx_stream', Held', fifo')
                   /\ ~raced' => AllOf(taken', rx_stream', Held', fifo') \cup dropped'
                                    = 1..arrived'
<1> SUFFICES ASSUME ~recoded' PROVE Goal
  BY DEF ReceiveOrder
<1>1. ASSUME ~recoded
      PROVE  /\ Queued(taken, rx_stream, Held, fifo)
             /\ ~raced => AllOf(taken, rx_stream, Held, fifo) \cup dropped = 1..arrived
  BY <1>1 DEF ReceiveOrder
<1>2. /\ Chan = {0, 1} /\ fifo \in Seq(Nat) /\ rx_stream \in Seq(Nat) /\ taken \in Seq(Nat)
      /\ arrived \in Nat /\ timers \in Nat
      /\ busy \in [Chan -> BOOLEAN] /\ flag \in [Chan -> BOOLEAN]
      /\ irq0 \in [Chan -> BOOLEAN] /\ count \in [Chan -> 0..BufSize]
      /\ AllOf(taken, rx_stream, Held, fifo) \subseteq 1..arrived
  BY HeldFacts DEF Chan, RxContents, Flags, Channels, AllOf
<1>3. ASSUME ~recoded, UNCHANGED <<fifo, arrived, rx_stream, taken, dropped, raced>>,
             Held' = Held
      PROVE  Goal
  BY <1>1, <1>3
<1>4. CASE Arrive
  <2>1. /\ arrived' = arrived + 1
        /\ \/ fifo' = Append(fifo, arrived + 1) /\ dropped' = dropped
           \/ dropped' = dropped \cup {arrived + 1} /\ fifo' = fifo
        /\ UNCHANGED <<rx_stream, taken, raced, recoded, busy, count, flag, irq0, rx_buffer>>
    BY <1>4 DEF Arrive
  <2>2. Held' = Held
    BY <2>1 DEF Held, Unsent, Status
  <2>3. PICK x \in Nat : x = arrived + 1
    BY <1>2
  <2>4. 1..arrived' = 1..arrived \cup {x} /\ \A y \in 1..arrived : y < x
    BY <1>2, <2>1, <2>3
  <2>5. CASE fifo' = Append(fifo, x) /\ dropped' = dropped
    <3>1. IsJoin(fifo', fifo, Single(x))
      BY <1>2, <2>5, AppendJoins
    <3>2. /\ Queued(taken, rx_stream, Held, fifo')
          /\ AllOf(taken, rx_stream, Held, fifo')
                = AllOf(taken, rx_stream, Held, fifo) \cup {x}
      <4>1. Queued(taken, rx_stream, Held, fifo)
        BY <1>1, <2>1
      <4>2. \A y \in AllOf(taken, rx_stream, Held, fifo) : y < x
        BY <1>2, <2>4
      <4> QED
        BY <3>1, <4>1, <4>2, QueueAppend
    <3> QED
      BY <1>1, <2>1, <2>2, <2>4, <2>5, <3>2
  <2>6. CASE dropped' = dropped \cup {x} /\ fifo' = fifo
    BY <1>1, <2>1, <2>2, <2>4, <2>6
  <2> QED
    BY <2>1, <2>3, <2>5, <2>6
<1>5. ASSUME NEW i \in Chan, MoveRx(i) PROVE Goal
  <2>1. /\ fifo # <<>> /\ fifo' = Tail(fifo)
        /\ UNCHANGED <<arrived, rx_stream, taken, dropped, raced, recoded>>
    BY <1>5 DEF MoveRx
  <2>2. PICK e \in Seq(Nat) : e = Single(Head(fifo))
    BY <1>2, <2>1, HeadTail, SingleFacts
  <2>3. fifo' \in Seq(Nat) /\ IsJoin(fifo, e, fifo')
    BY <1>2, <2>1, <2>2, HeadTail
  <2>4. IsJoin(Held', Held, e)
    BY <1>5, <2>1, <2>2, MoveAppends
  <2>5. /\ Queued(taken, rx_stream, Held', fifo')
        /\ AllOf(taken, rx_stream, Held', fifo') = AllOf(taken, rx_stream, Held, fifo)
    <3>1. Queued(taken, rx_stream, Held, fifo)
      BY <1>1, <2>1
    <3>2. PICK h : h = Held'
      OBVIOUS
    <3>3. PICK g \in Seq(Nat) : g = fifo'
      BY <2>3
    <3>4. IsJoin(fifo, e, g) /\ IsJoin(h, Held, e)
      BY <2>3, <2>4, <3>2, <3>3
    <3>5. /\ Queued(taken, rx_stream, h, g)
          /\ AllOf(taken, rx_stream, h, g) = AllOf(taken, rx_stream, Held, fifo)
      BY <3>1, <3>4, QueueMove
    <3> QED
      BY <3>2, <3>3, <3>5
  <2> QED
    BY <1>1, <2>1, <2>5
<1>6. CASE usb_uart_rx_callback
  <2>1. /\ uart_irq /\ lc_pc = "receive" /\ ~recoded
        /\ flag' = [i \in Chan |-> FALSE] /\ rx_buffer' = rx_buffer
        /\ busy' = [busy EXCEPT ![0] = TRUE] /\ count' = [count EXCEPT ![0] = BufSize]
        /\ UNCHANGED <<fifo, arrived, rx_stream, taken, dropped, raced>>
    BY <1>6 DEF usb_uart_rx_callback, ConfigureRx
  <2>2. timers = 0
    BY <1>2, <2>1 DEF Reception
  <2>3. \A i \in Chan : ~busy[i] /\ ~Status(i)
    BY <2>1, <2>2 DEF Reception, Status
  <2>4. ~Status(0)' /\ ~Status(1)' /\ ~busy'[1] /\ count'[0] = BufSize
    BY <1>2, <2>1, <2>3 DEF Status
  <2>5. Held = <<>> /\ Held' = <<>>
    BY <2>1, <2>3, <2>4, NothingHeld
  <2> QED
    BY <1>3, <2>1, <2>5
<1>7. ASSUME ~recoded, NEW y \in Seq(Nat), y = Held',
             NEW bytes \in Seq(Nat), SendFromISR(bytes),
             IsJoin(Held, bytes, y), UNCHANGED <<fifo, arrived, taken>>, ~raced' => ~raced
      PROVE  Goal
  <2>1. PICK f, g \in Seq(Nat) :
              /\ IsJoin(bytes, f, g) /\ IsJoin(rx_stream', rx_stream, f)
              /\ dropped' = dropped \cup Numbers(g)
    BY <1>7, SendSplits
  <2>2. PICK p : p = rx_stream'
    OBVIOUS
  <2>3. /\ Queued(taken, p, y, fifo)
        /\ AllOf(taken, p, y, fifo) \cup Numbers(g) = AllOf(taken, rx_stream, Held, fifo)
    BY <1>1, <1>7, <2>1, <2>2, QueueFlush
  <2> QED
    BY <1>1, <1>7, <2>1, <2>2, <2>3
<1>8. CASE usb_uart_dma_handler_0
  <2>1. PICK b : b = rx_buffer[0]
    OBVIOUS
  <2>2. /\ Status(0) /\ SendFromISR(b) /\ flag' = [flag EXCEPT ![0] = FALSE]
        /\ UNCHANGED <<fifo, arrived, taken, raced, recoded, busy, count, irq0, rx_buffer>>
    BY <1>8, <2>1 DEF usb_uart_dma_handler_0
  <2>3. ~busy[0] /\ b \in Seq(Nat) /\ Unsent(0) = b
    BY <1>2, <2>1, <2>2, BufferFacts DEF Reception, Unsent
  <2>4. ~busy'[0] /\ ~Status(0)'
    BY <1>2, <2>2, <2>3 DEF Status
  <2>5. Unsent(0)' = <<>>
    BY <2>4 DEF Unsent
  <2>6. flag'[1] = flag[1]
    BY <1>2, <2>2
  <2>7. Unsent(1)' = Unsent(1)
    BY <2>2, <2>6 DEF Unsent, Status
  <2>8. PICK y \in Seq(Nat) : y = Unsent(1)
    BY HeldFacts
  <2>9. Held' = y
    <3>1. Held' = <<>> \o y
      BY <2>5, <2>7, <2>8 DEF Held
    <3> QED
      BY <3>1
  <2>10. IsJoin(Held, b, y)
    BY <2>3, <2>8, HeldFacts
  <2> QED
    BY <1>7, <2>2, <2>3, <2>9, <2>10
<1>9. CASE usb_uart_dma_handler_1
  <2>1. PICK b : b = rx_buffer[1]
    OBVIOUS
  <2>2. /\ Status(1) /\ ~Status(0) /\ SendFromISR(b)
        /\ flag' = [flag EXCEPT ![1] = FALSE]
        /\ busy' = [busy EXCEPT ![0] = TRUE] /\ count' = [count EXCEPT ![0] = BufSize]
        /\ UNCHANGED <<fifo, arrived, taken, raced, recoded, irq0, rx_buffer>>
    BY <1>9, <2>1 DEF usb_uart_dma_handler_1, ConfigureRx
  <2>3. ~busy[0] /\ ~busy[1] /\ b \in Seq(Nat) /\ Unsent(1) = b
    BY <1>2, <2>1, <2>2, BufferFacts DEF Reception, Unsent
  <2>4. Unsent(0) = <<>>
    BY <2>2, <2>3 DEF Unsent
  <2>5. IsJoin(Held, b, <<>>)
    <3>1. Held = <<>> \o b
      BY <2>3, <2>4 DEF Held
    <3>2. Held = b
      BY <2>3, <3>1
    <3> QED
      BY <2>3, <3>2, EmptyFacts
  <2>6. ~Status(0)' /\ ~Status(1)' /\ ~busy'[1] /\ count'[0] = BufSize
    BY <1>2, <2>2, <2>3 DEF Status
  <2>7. Held' = <<>>
    BY <2>2, <2>6, NothingHeld
  <2>8. PICK y \in Seq(Nat) : y = <<>>
    BY EmptyFacts
  <2> QED
    BY <1>7, <2>2, <2>3, <2>5, <2>7, <2>8
<1>10. CASE TimeoutFlushes
  <2>1. PICK b : b = Partial(0) \o Partial(1)
    OBVIOUS
  <2>2. /\ SendFromISR(b) /\ busy' = [i \in Chan |-> FALSE] /\ irq0' = [i \in Chan |-> FALSE]
        /\ UNCHANGED <<fifo, arrived, taken, recoded>>
        /\ raced' = (raced \/ \E i \in Chan : Status(i))
    BY <1>10, <2>1 DEF TimeoutFlushes, AbortRx
  <2>3. \A i \in Chan : ~busy'[i] /\ ~Status(i)'
    BY <2>2 DEF Status
  <2>4. Held' = <<>>
    BY <2>3, NothingHeld
  <2>5. PICK y \in Seq(Nat) : y = <<>>
    BY EmptyFacts
  <2>6. CASE ~Status(0) /\ ~Status(1)
    <3>1. Partial(0) = Unsent(0) /\ Partial(1) = Unsent(1)
      BY <1>2, <2>6, UnsentCases
    <3>2. b = Held
      BY <2>1, <3>1 DEF Held
    <3>3. b \in Seq(Nat) /\ IsJoin(Held, b, y)
      BY <2>5, <3>2, HeldFacts, EmptyFacts
    <3>4. ~raced' => ~raced
      BY <2>2
    <3> QED
      BY <1>7, <2>2, <2>4, <2>5, <3>3, <3>4
  <2>7. CASE Status(0) \/ Status(1)
    <3>1. raced' = TRUE
      BY <1>2, <2>2, <2>7
    <3>2. Partial(0) = <<>>
      <4>1. ~busy[0]
        BY <2>2, <2>7 DEF Reception
      <4> QED
        BY <1>2, <4>1, UnsentCases
    <3>3. PICK u \in Seq(Nat) : u = Unsent(0)
      BY HeldFacts
    <3>4. PICK v \in Seq(Nat) : v = Unsent(1)
      BY HeldFacts
    <3>5. IsJoin(Held, u, v)
      BY <3>3, <3>4, HeldFacts
    <3>6. Queued(taken, rx_stream, v, fifo)
      BY <1>1, <2>2, <3>5, QueueDrop
    <3>7. PICK w \in Seq(Nat) : w = Partial(1)
      BY <1>2, BufferFacts
    <3>8. b = w
      <4>1. b = <<>> \o w
        BY <2>1, <3>2, <3>7
      <4> QED
        BY <4>1
    <3>9. w = v \/ w = <<>>
      <4>1. CASE Status(1)
        <5>1. ~busy[1]
          BY <2>2, <4>1 DEF Reception
        <5> QED
          BY <1>2, <3>7, <5>1, UnsentCases
      <4>2. CASE ~Status(1)
        BY <1>2, <3>4, <3>7, <4>2, UnsentCases
      <4> QED
        BY <4>1, <4>2
    <3>10. PICK f, g \in Seq(Nat) : IsJoin(w, f, g) /\ IsJoin(rx_stream', rx_stream, f)
      BY <2>2, <3>8, SendSplits
    <3>11. PICK p : p = rx_stream'
      OBVIOUS
    <3>12. CASE w = v
      <4>1. IsJoin(v, w, y)
        BY <2>5, <3>12, EmptyFacts
      <4>2. Queued(taken, p, y, fifo)
        BY <3>6, <3>10, <3>11, <4>1, QueueFlush
      <4> QED
        BY <2>2, <2>4, <2>5, <3>1, <3>11, <4>2
    <3>13. CASE w = <<>>
      <4>1. IsJoin(v, w, v)
        BY <3>13, EmptyFacts
      <4>2. Queued(taken, p, v, fifo)
        BY <3>6, <3>10, <3>11, <4>1, QueueFlush
      <4>3. IsJoin(v, v, y)
        BY <2>5, EmptyFacts
      <4>4. Queued(taken, p, y, fifo)
        BY <4>2, <4>3, QueueDrop
      <4> QED
        BY <2>2, <2>4, <2>5, <3>1, <3>11, <4>4
    <3> QED
      BY <3>9, <3>12, <3>13
  <2> QED
    BY <2>6, <2>7
<1>11. CASE StopRx \/ StopRxSecond
  <2>1. PICK c \in Chan :
              /\ ~recoded /\ ~(timers > 0)
              /\ busy' = [busy EXCEPT ![c] = FALSE] /\ irq0' = [irq0 EXCEPT ![c] = FALSE]
              /\ flag' \in {flag, [flag EXCEPT ![c] = @ \/ busy[c]]}
              /\ UNCHANGED <<fifo, arrived, rx_stream, taken, dropped, raced>>
    BY <1>11 DEF StopRx, StopRxSecond, StopChannel, Chan
  <2>2. timers = 0
    BY <1>2, <2>1
  <2>3. \A i \in Chan : ~busy[i] /\ ~irq0[i] /\ ~Status(i)
    BY <2>1, <2>2 DEF Reception, Status
  <2>4. \A i \in Chan : ~busy'[i] /\ ~Status(i)'
    <3>1. \A i \in Chan : ~busy'[i] /\ ~irq0'[i]
      BY <1>2, <2>1, <2>3 DEF Channels
    <3> QED
      BY <3>1 DEF Status
  <2>5. Held' = Held
    BY <2>3, <2>4, NothingHeld
  <2> QED
    BY <1>3, <2>1, <2>5
<1>12. CASE ResetUart
  <2>1. /\ fifo' = <<>> /\ dropped' = dropped \cup ToSet(fifo)
        /\ UNCHANGED <<arrived, rx_stream, taken, raced, recoded, busy, count, flag, irq0,
                       rx_buffer>>
    BY <1>12 DEF ResetUart
  <2>2. Held' = Held
    BY <2>1 DEF Held, Unsent, Status
  <2>3. ToSet(fifo) = Numbers(fifo)
    BY <1>2, ToSetNumbers
  <2>4. /\ Queued(taken, rx_stream, Held, <<>>)
        /\ AllOf(taken, rx_stream, Held, <<>>) \cup Numbers(fifo)
              = AllOf(taken, rx_stream, Held, fifo)
    BY <1>1, <2>1, QueueReset
  <2> QED
    BY <1>1, <2>1, <2>2, <2>3, <2>4
<1>13. CASE TakeStream
  <2>1. /\ rx_stream' = <<>> /\ IsJoin(taken', taken, rx_stream)
        /\ UNCHANGED <<fifo, arrived, dropped, raced, recoded, busy, count, flag, irq0,
                       rx_buffer>>
    BY <1>13 DEF TakeStream, IsJoin
  <2>2. Held' = Held
    BY <2>1 DEF Held, Unsent, Status
  <2>3. /\ Queued(taken', <<>>, Held, fifo)
        /\ AllOf(taken', <<>>, Held, fifo) = AllOf(taken, rx_stream, Held, fifo)
    BY <1>1, <2>1, QueueTake
  <2> QED
    BY <1>1, <2>1, <2>2, <2>3
<1>14. CASE \/ MoveTx \/ usb_uart_dma_handler_tx \/ TimeoutWaits \/ TxThread
            \/ StopTx \/ InitUart \/ EnableUart \/ HostSends \/ UNCHANGED vars
  <2>1. UNCHANGED RxData
    BY <1>14, RxBystanders DEF InitUart, RxData
  <2>2. Held' = Held
    BY <2>1 DEF RxData, Held, Unsent, Status
  <2>3. UNCHANGED <<recoded, raced>>
    BY <1>14 DEF MoveTx, usb_uart_dma_handler_tx, TimeoutWaits, TxThread, Receive, StartTx,
                 EnableTxIrq, RequestTx, WaitTx, StopTx, InitUart, EnableUart, HostSends, vars
  <2> QED
    BY <1>3, <2>1, <2>2, <2>3 DEF RxData
<1> QED
  BY <1>4, <1>5, <1>6, <1>8, <1>9, <1>10, <1>11, <1>12, <1>13, <1>14
     DEF Next, MoveSomeRx, DmaIrq, TimerIrq, LineCodingThread

-----------------------------------------------------------------------------
(***************************************************************************)
(* The inductive invariant, and what follows from it.                      *)
(***************************************************************************)
IInv ==
    /\ Flags /\ Channels /\ Reception /\ Transmission
    /\ TxContents /\ SendOrder
    /\ RxContents /\ Filled /\ ReceiveOrder

LEMMA InitIInv == Init => IInv
BY InitSwitches, InitTransmission, InitSendOrder, InitReception, InitReceiveOrder DEF IInv

LEMMA StepIInv ==
    ASSUME IInv, [Next]_vars
    PROVE  IInv'
<1>1. Flags'
  BY FlagsStep DEF IInv
<1>2. Channels' /\ Reception'
  BY ReceptionStep DEF IInv
<1>3. Transmission'
  BY TransmissionStep DEF IInv
<1>4. TxContents'
  BY TxContentsStep DEF IInv
<1>5. SendOrder'
  BY <1>3, SendOrderStep DEF IInv
<1>6. RxContents'
  BY RxContentsStep DEF IInv
<1>7. Filled'
  BY FilledStep DEF IInv
<1>8. ReceiveOrder'
  BY ReceiveOrderStep DEF IInv
<1> QED
  BY <1>1, <1>2, <1>3, <1>4, <1>5, <1>6, <1>7, <1>8 DEF IInv

LEMMA AlwaysIInv == Spec => []IInv
<1>1. Init => IInv
  BY InitIInv
<1>2. IInv /\ [Next]_vars => IInv'
  BY StepIInv
<1> QED
  BY <1>1, <1>2, PTL DEF Spec

(***************************************************************************)
(* The counts, buffers, queues and switches of the bridge keep to their    *)
(* types and sizes, line codings in the middle of transfers included.      *)
(***************************************************************************)
THEOREM UartTypeOK == Spec => []TypeOK
<1>1. IInv => TypeOK
  <2> SUFFICES ASSUME IInv PROVE TypeOK
    OBVIOUS
  <2>1. {enabled, uart_irq, rxdmae, txdmae, tx_busy, tx_flag, tx_irq0, dma_occured,
         notified, raced, recoded, cut, undefined} \subseteq BOOLEAN
    BY DEF IInv, Flags, Transmission
  <2>2. /\ busy \in [Chan -> BOOLEAN] /\ flag \in [Chan -> BOOLEAN]
        /\ irq0 \in [Chan -> BOOLEAN] /\ count \in [Chan -> 0..BufSize] /\ timers \in Nat
    BY DEF IInv, Channels
  <2>3. /\ tx_count \in 0..Len(tx_buffer) /\ Len(tx_buffer) <= BufSize
        /\ tx_pc \in {"receive", "start", "enable", "request", "wait"}
    BY DEF IInv, Transmission
  <2>4. /\ rx_buffer \in [Chan -> [1..BufSize -> 0..arrived]]
        /\ Len(fifo) <= FifoSize /\ Len(rx_stream) <= StreamSize
        /\ dropped \subseteq 1..arrived /\ tx_dropped \subseteq 1..queued
    BY DEF IInv, RxContents, Filled, TxContents
  <2>5. /\ arrived \in 0..MaxBytes /\ queued \in 0..MaxBytes /\ codings \in 0..MaxCodings
        /\ lc_pc \in {"receive", "stop_rx", "stop_tx", "reset", "init", "enable"}
    BY DEF IInv, Flags
  <2> QED
    BY <2>1, <2>2, <2>3, <2>4, <2>5 DEF TypeOK
<1> QED
  BY <1>1, AlwaysIInv, PTL

(***************************************************************************)
(* While the UART interrupt is enabled no channel and no timer runs, so    *)
(* usb_uart_rx_callback never sets up a channel in the middle of a         *)
(* transfer, unless a line coding came during a reception.                 *)
(***************************************************************************)
THEOREM SingleReception == Spec => []OneReception
<1>1. IInv => OneReception
  <2> SUFFICES ASSUME IInv, ~recoded
               PROVE  /\ ~undefined /\ timers <= 1
                      /\ uart_irq => timers = 0 /\ \A i \in Chan : ~busy[i]
    BY DEF OneReception
  <2>1. timers \in Nat /\ timers <= 1 /\ ~undefined
    BY DEF IInv, Channels, Reception
  <2>2. timers = 0 \/ timers = 1
    BY <2>1
  <2> QED
    BY <2>1, <2>2 DEF IInv, Reception
<1> QED
  BY <1>1, AlwaysIInv, PTL

(***************************************************************************)
(* The bytes the host sends go over the line in order and once, whatever   *)
(* the DMA interrupt does between the steps of usb_uart_tx_thread; only    *)
(* a line coding applied during a transmission cuts it.                    *)
(***************************************************************************)
THEOREM SentExactlyOnce == Spec => []TxExactlyOnce
<1>1. IInv => TxExactlyOnce
  <2> SUFFICES ASSUME IInv, ~cut
               PROVE  /\ Increasing(wire \o Sending \o tx_stream)
                      /\ ToSet(wire \o Sending \o tx_stream) \cup tx_dropped = 1..queued
    BY DEF TxExactlyOnce
  <2>1. /\ Queued(<<>>, wire, Sending, tx_stream)
        /\ AllOf(<<>>, wire, Sending, tx_stream) \cup tx_dropped = 1..queued
    BY DEF IInv, SendOrder
  <2>2. PICK s \in Seq(Nat) : s = Sending
    BY <2>1 DEF Queued
  <2>3. wire \in Seq(Nat) /\ tx_stream \in Seq(Nat)
    BY <2>1 DEF Queued
  <2>4. PICK p : IsJoin(p, wire, s)
    BY DEF IsJoin
  <2>5. PICK q : IsJoin(q, p, tx_stream)
    BY DEF IsJoin
  <2>6. p \in Seq(Nat) /\ Numbers(p) = Numbers(wire) \cup Numbers(s) /\ Increasing(p)
    BY <2>1, <2>2, <2>3, <2>4, JoinFacts DEF Queued
  <2>7. Ahead(p, tx_stream)
    BY <2>1, <2>2, <2>6 DEF Queued, Ahead
  <2>8. /\ q \in Seq(Nat) /\ Numbers(q) = Numbers(p) \cup Numbers(tx_stream)
        /\ Increasing(q)
    BY <2>1, <2>3, <2>5, <2>6, <2>7, JoinFacts DEF Queued
  <2>9. q = wire \o Sending \o tx_stream
    BY <2>2, <2>4, <2>5 DEF IsJoin
  <2>10. Numbers(q) = AllOf(<<>>, wire, Sending, tx_stream)
    BY <2>2, <2>6, <2>8, EmptyFacts DEF AllOf
  <2>11. ToSet(q) = Numbers(q)
    BY <2>8, ToSetNumbers
  <2> QED
    BY <2>1, <2>8, <2>9, <2>10, <2>11
<1> QED
  BY <1>1, AlwaysIInv, PTL

\* What is received, place by place.
LEMMA ReceivedFacts ==
    ASSUME IInv, ~recoded
    PROVE  /\ Increasing(Received)
           /\ ToSet(Received) = AllOf(taken, rx_stream, Held, fifo)
<1>1. Queued(taken, rx_stream, Held, fifo)
  BY DEF IInv, ReceiveOrder
<1>2. taken \in Seq(Nat) /\ rx_stream \in Seq(Nat) /\ fifo \in Seq(Nat)
  BY <1>1 DEF Queued
<1>3. Flags /\ Channels /\ Filled
  BY DEF IInv
<1>4. PICK u \in Seq(Nat) : u = Unsent(0)
  BY <1>3, HeldFacts
<1>5. PICK v \in Seq(Nat) : v = Unsent(1)
  BY <1>3, HeldFacts
<1>6. PICK h : h = Held /\ IsJoin(h, u, v)
  BY <1>3, <1>4, <1>5, HeldFacts
<1>7. /\ Numbers(h) = Numbers(u) \cup Numbers(v)
      /\ Increasing(u) /\ Increasing(v) /\ Ahead(u, v)
  BY <1>1, <1>6, JoinFacts DEF Queued
<1>8. PICK p : IsJoin(p, taken, rx_stream)
  BY DEF IsJoin
<1>9. PICK q : IsJoin(q, p, u)
  BY DEF IsJoin
<1>10. PICK r : IsJoin(r, q, v)
  BY DEF IsJoin
<1>11. PICK s : IsJoin(s, r, fifo)
  BY DEF IsJoin
<1>12. p \in Seq(Nat) /\ Numbers(p) = Numbers(taken) \cup Numbers(rx_stream) /\ Increasing(p)
  BY <1>1, <1>2, <1>8, JoinFacts DEF Queued
<1>13. Ahead(p, u) /\ Ahead(p, v) /\ Ahead(p, fifo) /\ Ahead(u, fifo) /\ Ahead(v, fifo)
  BY <1>1, <1>6, <1>7, <1>12 DEF Queued, Ahead
<1>14. q \in Seq(Nat) /\ Numbers(q) = Numbers(p) \cup Numbers(u) /\ Increasing(q)
  BY <1>7, <1>9, <1>12, <1>13, JoinFacts
<1>15. Ahead(q, v) /\ Ahead(q, fifo)
  BY <1>7, <1>13, <1>14 DEF Ahead
<1>16. r \in Seq(Nat) /\ Numbers(r) = Numbers(q) \cup Numbers(v) /\ Increasing(r)
  BY <1>7, <1>10, <1>14, <1>15, JoinFacts
<1>17. Ahead(r, fifo) /\ Increasing(fifo)
  BY <1>1, <1>13, <1>15, <1>16 DEF Ahead, Queued
<1>18. s \in Seq(Nat) /\ Numbers(s) = Numbers(r) \cup Numbers(fifo) /\ Increasing(s)
  BY <1>2, <1>11, <1>16, <1>17, JoinFacts
<1>19. s = Received
  BY <1>4, <1>5, <1>8, <1>9, <1>10, <1>11 DEF IsJoin, Received
<1>20. Numbers(s) = AllOf(taken, rx_stream, Held, fifo)
  BY <1>6, <1>7, <1>12, <1>14, <1>16, <1>18 DEF AllOf
<1> QED
  BY <1>18, <1>19, <1>20, ToSetNumbers

(***************************************************************************)
(* The bytes of the UART come out in order and none twice, for every order *)
(* of the DMA, its interrupt, the timer and the UART interrupt; a line     *)
(* coding during a reception is excepted.                                  *)
(***************************************************************************)
THEOREM ReceivedInOrder == Spec => []RxInOrder
<1>1. IInv => RxInOrder
  BY ReceivedFacts DEF RxInOrder
<1> QED
  BY <1>1, AlwaysIInv, PTL

(***************************************************************************)
(* Every byte of the UART is still on its way, was taken, or was dropped   *)
(* for a full FIFO, a full stream or a reset, unless the timer callback    *)
(* met a completed transfer whose interrupt was pending.                   *)
(***************************************************************************)
THEOREM ReceivedAll == Spec => []RxComplete
<1>1. IInv => RxComplete
  <2> SUFFICES ASSUME IInv, ~recoded, ~raced
               PROVE  ToSet(Received) \cup dropped = 1..arrived
    BY DEF RxComplete
  <2>1. ToSet(Received) = AllOf(taken, rx_stream, Held, fifo)
    BY ReceivedFacts
  <2>2. AllOf(taken, rx_stream, Held, fifo) \cup dropped = 1..arrived
    BY DEF IInv, ReceiveOrder
  <2> QED
    BY <2>1, <2>2
<1> QED
  BY <1>1, AlwaysIInv, PTL
=============================================================================
