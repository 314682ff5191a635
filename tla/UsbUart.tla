------------------------------ MODULE UsbUart -------------------------------
(***************************************************************************)
(* The USB-to-UART bridge (usb_uart_task.c).  Receiving: the UART          *)
(* interrupt starts two chained DMA channels and a 50 ms repeating timer,  *)
(* the DMA interrupt forwards full buffers, the timer forwards what is in  *)
(* a partly filled one and goes back to the UART interrupt.  Sending: a    *)
(* task hands a buffer to a third channel and waits to be notified.  A     *)
(* second task applies line codings and stops all channels to do so.       *)
(*                                                                         *)
(* Interrupts run on one core with one priority: a handler is one step,    *)
(* short against the time the hardware needs to fill a buffer.  The two    *)
(* tasks have one priority; a task that preempts one of them can leave the *)
(* other running, so they interleave between statements.                   *)
(*                                                                         *)
(* Bytes are numbered in the order they arrive, from the UART and from USB.*)
(***************************************************************************)
EXTENDS Integers, Sequences, SequencesExt

CONSTANTS
    BufSize,     \* UART_RX_BUF_SIZE
    FifoSize,    \* depth of the receive FIFO of the UART
    StreamSize,  \* size of rx_stream
    MaxBytes,    \* bound on the bytes in both directions together
    MaxCodings   \* bound on the line codings the host sets

ASSUME SizesAssumption ==
    /\ BufSize \in Nat \ {0} /\ FifoSize \in Nat \ {0} /\ StreamSize \in Nat \ {0}
    /\ MaxBytes \in Nat /\ MaxCodings \in Nat

Chan == {0, 1}   \* dma_rx_channel[]; 0 is chained to 1

VARIABLES
    \* The UART.
    enabled,     \* uart_is_enabled
    uart_irq,    \* its receive interrupt is enabled
    rxdmae, txdmae,  \* DMACR: its requests to the DMA
    fifo,        \* received bytes nobody took yet
    arrived,     \* number of bytes that came over the line
    wire,        \* bytes sent over the line
    \* DMA channels.
    busy,        \* a channel is transferring
    count,       \* transfer_count: what it has left to do
    flag,        \* completion interrupt raised
    irq0,        \* completion interrupt enabled
    tx_busy, tx_count, tx_flag, tx_irq0,
    rx_buffer, tx_buffer,
    \* Software.
    timers,      \* alarms that call usb_uart_timeout_callback
    dma_occured,
    rx_stream,
    taken,       \* what the reader of rx_stream took
    queued,      \* number of bytes that came over USB
    tx_stream,
    tx_pc,       \* where usb_uart_tx_thread is
    notified,    \* USB_UART_TASK_TX_COMPLETE
    codings,     \* line codings taken
    lc_pc,       \* where usb_uart_line_coding_thread is
    \* History.
    dropped,     \* received bytes given up: FIFO or stream full, UART reset
    tx_dropped,  \* bytes of the host discarded while the UART was disabled
    raced,       \* the timer met a completed transfer not yet forwarded
    recoded,     \* a line coding was applied in the middle of a reception
    cut,         \* a line coding was applied in the middle of a transmission
    undefined    \* a channel was set up while it was transferring

uart == <<enabled, uart_irq, rxdmae, txdmae>>
line == <<arrived, wire, queued>>
rx_dma == <<busy, count, flag, irq0, rx_buffer>>
tx_dma == <<tx_busy, tx_count, tx_flag, tx_irq0>>
rx_soft == <<timers, dma_occured, rx_stream, taken>>
tx_soft == <<tx_buffer, tx_stream, tx_pc, notified, tx_dropped>>
lc == <<codings, lc_pc>>
history == <<dropped, raced, recoded, cut, undefined>>
vars == <<uart, fifo, line, rx_dma, tx_dma, rx_soft, tx_soft, lc, history>>

Init ==
    /\ enabled = FALSE /\ uart_irq = FALSE /\ rxdmae = FALSE /\ txdmae = FALSE
    /\ fifo = <<>> /\ arrived = 0 /\ wire = <<>> /\ queued = 0
    /\ busy = [i \in Chan |-> FALSE] /\ count = [i \in Chan |-> 0]
    /\ flag = [i \in Chan |-> FALSE] /\ irq0 = [i \in Chan |-> FALSE]
    /\ tx_busy = FALSE /\ tx_count = 0 /\ tx_flag = FALSE /\ tx_irq0 = FALSE
    /\ rx_buffer = [i \in Chan |-> [k \in 1..BufSize |-> 0]] /\ tx_buffer = <<>>
    /\ timers = 0 /\ dma_occured = FALSE /\ rx_stream = <<>> /\ taken = <<>>
    /\ tx_stream = <<>> /\ tx_pc = "receive" /\ notified = FALSE
    /\ codings = 0 /\ lc_pc = "receive"
    /\ dropped = {} /\ tx_dropped = {}
    /\ raced = FALSE /\ recoded = FALSE /\ cut = FALSE /\ undefined = FALSE

-----------------------------------------------------------------------------
(***************************************************************************)
(* Hardware.                                                               *)
(***************************************************************************)

\* A byte comes over the line; nothing holds the sender back.
Arrive ==
    /\ enabled /\ arrived + queued < MaxBytes
    /\ arrived' = arrived + 1
    /\ IF Len(fifo) < FifoSize
       THEN fifo' = Append(fifo, arrived + 1) /\ UNCHANGED dropped
       ELSE dropped' = dropped \cup {arrived + 1} /\ UNCHANGED fifo
    /\ UNCHANGED <<uart, wire, queued, rx_dma, tx_dma, rx_soft, tx_soft, lc,
                   raced, recoded, cut, undefined>>

\* A receive channel moves a byte; channel 0 starts channel 1 when it is done.
MoveRx(i) ==
    LET done == count[i] = 1 IN
    /\ busy[i] /\ rxdmae /\ fifo # <<>>
    /\ rx_buffer' = [rx_buffer EXCEPT ![i][BufSize - count[i] + 1] = Head(fifo)]
    /\ fifo' = Tail(fifo)
    /\ flag' = [flag EXCEPT ![i] = @ \/ done]
    /\ busy' = [j \in Chan |-> IF j = i THEN ~done ELSE busy[j] \/ (done /\ i = 0)]
    /\ count' = [j \in Chan |-> IF j = i THEN count[i] - 1
                                ELSE IF done /\ i = 0 THEN BufSize ELSE count[j]]
    /\ UNCHANGED <<uart, line, irq0, tx_dma, rx_soft, tx_soft, lc, history>>

MoveTx ==
    /\ tx_busy /\ txdmae /\ enabled
    /\ wire' = Append(wire, tx_buffer[Len(tx_buffer) - tx_count + 1])
    /\ tx_count' = tx_count - 1
    /\ tx_busy' = (tx_count > 1)
    /\ tx_flag' = (tx_flag \/ tx_count = 1)
    /\ UNCHANGED <<uart, fifo, arrived, queued, rx_dma, tx_irq0, rx_soft, tx_soft,
                   lc, history>>

(***************************************************************************)
(* dma_channel_abort on every receive channel.  The count of an aborted    *)
(* channel reads 0, and aborting a transfer may raise its completion       *)
(* interrupt.                                                              *)
(***************************************************************************)
AbortRx ==
    /\ busy' = [i \in Chan |-> FALSE]
    /\ count' = [i \in Chan |-> 0]
    /\ irq0' = [i \in Chan |-> FALSE]

\* The interrupt flags an abort can leave behind, where f held before.
Spurious(f) == {g \in [Chan -> BOOLEAN] : \A i \in Chan : f[i] \/ ~busy[i] => g[i] = f[i]}

-----------------------------------------------------------------------------
(***************************************************************************)
(* Interrupts.                                                             *)
(***************************************************************************)

(***************************************************************************)
(* dma_channel_configure on both receive channels, channel 0 started.  The *)
(* count of channel 1 is loaded when channel 0 starts it.  On a channel    *)
(* that is transferring this has no defined effect: what follows is one of *)
(* the possible outcomes, and the properties of the reception claim        *)
(* nothing once it has happened.                                           *)
(***************************************************************************)
ConfigureRx ==
    /\ undefined' = (undefined \/ \E i \in Chan : busy[i])
    /\ busy' = [busy EXCEPT ![0] = TRUE]
    /\ count' = [count EXCEPT ![0] = BufSize]

\* Mutant: the UART interrupt stays enabled.
RxCallbackIrqOn ==
    /\ uart_irq /\ fifo # <<>>
    /\ ConfigureRx
    /\ flag' = [i \in Chan |-> FALSE]
    /\ irq0' = [i \in Chan |-> TRUE]
    /\ rxdmae' = TRUE
    /\ timers' = timers + 1
    /\ recoded' = (recoded \/ lc_pc # "receive")
    /\ UNCHANGED <<enabled, uart_irq, txdmae, fifo, line, rx_buffer, tx_dma, dma_occured,
                   rx_stream, taken, tx_soft, lc, dropped, raced, cut>>

usb_uart_rx_callback ==
    /\ uart_irq /\ fifo # <<>>
    /\ ConfigureRx
    /\ flag' = [i \in Chan |-> FALSE]
    /\ irq0' = [i \in Chan |-> TRUE]
    /\ uart_irq' = FALSE
    /\ rxdmae' = TRUE
    /\ timers' = timers + 1
    /\ recoded' = (recoded \/ lc_pc # "receive")
    /\ UNCHANGED <<enabled, txdmae, fifo, line, rx_buffer, tx_dma, dma_occured,
                   rx_stream, taken, tx_soft, lc, dropped, raced, cut>>

\* xStreamBufferSendFromISR: the stream takes what fits.
SendFromISR(bytes) ==
    LET room == StreamSize - Len(rx_stream)
        fits == IF Len(bytes) < room THEN Len(bytes) ELSE room
    IN /\ rx_stream' = rx_stream \o SubSeq(bytes, 1, fits)
       /\ dropped' = dropped \cup {bytes[k] : k \in fits + 1 .. Len(bytes)}

Status(i) == flag[i] /\ irq0[i]

\* usb_uart_dma_handler, channel 0: its buffer is full, channel 1 runs already.
usb_uart_dma_handler_0 ==
    /\ Status(0)
    /\ flag' = [flag EXCEPT ![0] = FALSE]
    /\ dma_occured' = TRUE
    /\ SendFromISR(rx_buffer[0])
    /\ UNCHANGED <<uart, fifo, line, busy, count, irq0, rx_buffer, tx_dma, timers, taken,
                   tx_soft, lc, raced, recoded, cut, undefined>>

\* Channel 1: both are set up again and channel 0 starts over.
usb_uart_dma_handler_1 ==
    /\ Status(1) /\ ~Status(0)
    /\ flag' = [flag EXCEPT ![1] = FALSE]
    /\ dma_occured' = TRUE
    /\ ConfigureRx
    /\ SendFromISR(rx_buffer[1])
    /\ UNCHANGED <<uart, fifo, line, irq0, rx_buffer, tx_dma, timers, taken, tx_soft,
                   lc, raced, recoded, cut>>

\* Mutant: the transmit task is not told.
DmaHandlerTxSilent ==
    /\ tx_flag /\ tx_irq0 /\ ~Status(0) /\ ~Status(1)
    /\ tx_flag' = FALSE /\ tx_irq0' = FALSE /\ txdmae' = FALSE
    /\ UNCHANGED <<enabled, uart_irq, rxdmae, fifo, line, rx_dma, tx_busy, tx_count,
                   rx_soft, tx_soft, lc, history>>

usb_uart_dma_handler_tx ==
    /\ tx_flag /\ tx_irq0 /\ ~Status(0) /\ ~Status(1)
    /\ tx_flag' = FALSE /\ tx_irq0' = FALSE /\ txdmae' = FALSE
    /\ notified' = TRUE
    /\ UNCHANGED <<enabled, uart_irq, rxdmae, fifo, line, rx_dma, tx_busy, tx_count,
                   rx_soft, tx_buffer, tx_stream, tx_pc, tx_dropped, lc, history>>

\* The timer, after a full buffer was forwarded: wait another 50 ms.
TimeoutWaits ==
    /\ timers > 0 /\ dma_occured
    /\ dma_occured' = FALSE
    /\ UNCHANGED <<uart, fifo, line, rx_dma, tx_dma, timers, rx_stream, taken, tx_soft,
                   lc, history>>

\* Mutant: a buffer with nothing left to do is sent as well.
PartialOrFull(i) ==
    LET n == BufSize - count[i] IN SubSeq(rx_buffer[i], 1, n)

\* Mutant: the byte moved last is left out.
PartialShort(i) ==
    LET n == BufSize - count[i]
    IN IF n > 0 /\ n < BufSize THEN SubSeq(rx_buffer[i], 1, n - 1) ELSE <<>>

\* What is in a buffer that is neither empty nor full.
Partial(i) ==
    LET n == BufSize - count[i]
    IN IF n > 0 /\ n < BufSize THEN SubSeq(rx_buffer[i], 1, n) ELSE <<>>

\* Mutant: the UART interrupt is not enabled again.
TimeoutFlushesOnly ==
    /\ timers > 0 /\ ~dma_occured
    /\ SendFromISR(Partial(0) \o Partial(1))
    /\ rxdmae' = FALSE
    /\ flag' \in Spurious([i \in Chan |-> FALSE])
    /\ AbortRx
    /\ timers' = timers - 1
    /\ raced' = (raced \/ \E i \in Chan : Status(i))
    /\ UNCHANGED <<enabled, uart_irq, txdmae, fifo, line, rx_buffer, tx_dma, dma_occured,
                   taken, tx_soft, lc, recoded, cut, undefined>>

(***************************************************************************)
(* The timer, 50 ms without a full buffer: the channels are stopped, their *)
(* partial contents sent, their interrupts acknowledged, and the UART      *)
(* interrupt takes over again.                                             *)
(***************************************************************************)
TimeoutFlushes ==
    /\ timers > 0 /\ ~dma_occured
    /\ SendFromISR(Partial(0) \o Partial(1))
    /\ rxdmae' = FALSE
    /\ flag' \in Spurious([i \in Chan |-> FALSE])
    /\ AbortRx
    /\ uart_irq' = TRUE
    /\ timers' = timers - 1
    /\ raced' = (raced \/ \E i \in Chan : Status(i))
    /\ UNCHANGED <<enabled, txdmae, fifo, line, rx_buffer, tx_dma, dma_occured, taken,
                   tx_soft, lc, recoded, cut, undefined>>

-----------------------------------------------------------------------------
(***************************************************************************)
(* usb_uart_tx_thread.                                                     *)
(***************************************************************************)
Receive ==
    /\ tx_pc = "receive" /\ tx_stream # <<>>
    /\ LET n == IF Len(tx_stream) < BufSize THEN Len(tx_stream) ELSE BufSize IN
       /\ tx_buffer' = SubSeq(tx_stream, 1, n)
       /\ tx_stream' = SubSeq(tx_stream, n + 1, Len(tx_stream))
    /\ IF enabled THEN tx_pc' = "start" /\ UNCHANGED tx_dropped
       ELSE /\ tx_dropped' = tx_dropped \cup ToSet(tx_buffer')
            /\ UNCHANGED tx_pc
    /\ UNCHANGED <<uart, fifo, line, rx_dma, tx_dma, rx_soft, notified, lc, history>>

\* dma_channel_configure and the acknowledge.
StartTx ==
    /\ tx_pc = "start"
    /\ tx_busy' = TRUE
    /\ tx_count' = Len(tx_buffer)
    /\ tx_flag' = FALSE
    /\ tx_pc' = "enable"
    /\ UNCHANGED <<uart, fifo, line, rx_dma, tx_irq0, rx_soft, tx_buffer, tx_stream,
                   notified, tx_dropped, lc, history>>

EnableTxIrq ==
    /\ tx_pc = "enable"
    /\ tx_irq0' = TRUE
    /\ tx_pc' = "request"
    /\ UNCHANGED <<uart, fifo, line, rx_dma, tx_busy, tx_count, tx_flag, rx_soft,
                   tx_buffer, tx_stream, notified, tx_dropped, lc, history>>

RequestTx ==
    /\ tx_pc = "request"
    /\ txdmae' = TRUE
    /\ tx_pc' = "wait"
    /\ UNCHANGED <<enabled, uart_irq, rxdmae, fifo, line, rx_dma, tx_dma, rx_soft,
                   tx_buffer, tx_stream, notified, tx_dropped, lc, history>>

\* Mutant: the buffer is used again without waiting for its transfer.
WaitTxNot ==
    /\ tx_pc = "wait"
    /\ notified' = FALSE
    /\ tx_pc' = "receive"
    /\ UNCHANGED <<uart, fifo, line, rx_dma, tx_dma, rx_soft, tx_buffer, tx_stream,
                   tx_dropped, lc, history>>

\* xTaskNotifyWait without a timeout.
WaitTx ==
    /\ tx_pc = "wait" /\ notified
    /\ notified' = FALSE
    /\ tx_pc' = "receive"
    /\ UNCHANGED <<uart, fifo, line, rx_dma, tx_dma, rx_soft, tx_buffer, tx_stream,
                   tx_dropped, lc, history>>

-----------------------------------------------------------------------------
(***************************************************************************)
(* usb_uart_line_coding_thread.  Every step of it that meets a             *)
(* transmission in progress may cut it short.  The receive channels are    *)
(* stopped one after the other; interrupts, the timer and the transmit     *)
(* task may come between any two steps.                                    *)
(***************************************************************************)
Cuts == cut' = (cut \/ tx_pc # "receive")

StopChannel(i) ==
    /\ irq0' = [irq0 EXCEPT ![i] = FALSE]
    /\ busy' = [busy EXCEPT ![i] = FALSE]
    /\ count' = [count EXCEPT ![i] = 0]
    /\ flag' \in {flag, [flag EXCEPT ![i] = @ \/ busy[i]]}
    /\ recoded' = (recoded \/ timers > 0)
    /\ Cuts
    /\ UNCHANGED <<uart, fifo, line, rx_buffer, tx_dma, rx_soft, tx_soft, dropped, raced,
                   undefined>>

\* A line coding is taken from its stream and the first channel stopped.
StopRx ==
    /\ lc_pc = "receive" /\ codings < MaxCodings
    /\ codings' = codings + 1
    /\ lc_pc' = "stop_rx"
    /\ StopChannel(0)

StopRxSecond ==
    /\ lc_pc = "stop_rx"
    /\ lc_pc' = "stop_tx"
    /\ UNCHANGED codings
    /\ StopChannel(1)

StopTx ==
    /\ lc_pc = "stop_tx"
    /\ lc_pc' = "reset"
    /\ tx_irq0' = FALSE
    /\ tx_busy' = FALSE
    /\ tx_count' = 0
    /\ tx_flag' \in {tx_flag, tx_flag \/ tx_busy}
    /\ Cuts
    /\ UNCHANGED <<uart, fifo, line, rx_dma, rx_soft, tx_soft, codings, dropped, raced,
                   recoded, undefined>>

\* uart_deinit holds the UART in reset; the transmit task then discards.
ResetUart ==
    /\ lc_pc = "reset"
    /\ lc_pc' = "init"
    /\ enabled' = FALSE
    /\ uart_irq' = FALSE
    /\ rxdmae' = FALSE /\ txdmae' = FALSE
    /\ dropped' = dropped \cup ToSet(fifo)
    /\ fifo' = <<>>
    /\ Cuts
    /\ UNCHANGED <<line, rx_dma, tx_dma, rx_soft, tx_soft, codings, raced, recoded,
                   undefined>>

\* uart_init, which turns both DMA requests on.  What was written to the registers
\* during the reset is lost.
InitUart ==
    /\ lc_pc = "init"
    /\ lc_pc' = "enable"
    /\ enabled' = TRUE
    /\ uart_irq' = FALSE
    /\ rxdmae' = TRUE /\ txdmae' = TRUE
    /\ Cuts
    /\ UNCHANGED <<fifo, line, rx_dma, tx_dma, rx_soft, tx_soft, codings, dropped, raced,
                   recoded, undefined>>

EnableUart ==
    /\ lc_pc = "enable"
    /\ lc_pc' = "receive"
    /\ rxdmae' = FALSE /\ txdmae' = FALSE
    /\ uart_irq' = TRUE
    /\ Cuts
    /\ UNCHANGED <<enabled, fifo, line, rx_dma, tx_dma, rx_soft, tx_soft, codings, dropped,
                   raced, recoded, undefined>>

-----------------------------------------------------------------------------
\* The USB tasks at the other ends of the streams.
HostSends ==
    /\ arrived + queued < MaxBytes
    /\ queued' = queued + 1
    /\ tx_stream' = Append(tx_stream, queued + 1)
    /\ UNCHANGED <<uart, fifo, arrived, wire, rx_dma, tx_dma, rx_soft, tx_buffer, tx_pc,
                   notified, tx_dropped, lc, history>>

TakeStream ==
    /\ rx_stream # <<>>
    /\ taken' = taken \o rx_stream
    /\ rx_stream' = <<>>
    /\ UNCHANGED <<uart, fifo, line, rx_dma, tx_dma, timers, dma_occured, tx_soft, lc,
                   history>>

MoveSomeRx == \E i \in Chan : MoveRx(i)
DmaIrq == usb_uart_dma_handler_0 \/ usb_uart_dma_handler_1 \/ usb_uart_dma_handler_tx
TimerIrq == TimeoutWaits \/ TimeoutFlushes
TxThread == Receive \/ StartTx \/ EnableTxIrq \/ RequestTx \/ WaitTx
LineCodingThread ==
    StopRx \/ StopRxSecond \/ StopTx \/ ResetUart \/ InitUart \/ EnableUart

Next ==
    \/ Arrive \/ MoveSomeRx \/ MoveTx
    \/ usb_uart_rx_callback \/ DmaIrq \/ TimerIrq
    \/ TxThread \/ LineCodingThread
    \/ HostSends \/ TakeStream

Spec == Init /\ [][Next]_vars

(***************************************************************************)
(* Hardware that can move a byte does, interrupts that are pending and     *)
(* timers that run are served, and tasks that are ready run.  A channel    *)
(* needs a microsecond to move a byte, so that a timer of 50 ms cannot     *)
(* forever come first: the first fairness is strong.                       *)
(***************************************************************************)
FairSpec ==
    /\ Spec
    /\ SF_vars(MoveSomeRx) /\ WF_vars(MoveTx)
    /\ WF_vars(usb_uart_rx_callback)
    /\ WF_vars(DmaIrq) /\ WF_vars(TimerIrq)
    /\ WF_vars(TxThread) /\ WF_vars(LineCodingThread)

-----------------------------------------------------------------------------
(***************************************************************************)
(* Properties.                                                             *)
(***************************************************************************)

\* The type of the state: counts and buffers keep to their sizes.
TypeOK ==
    /\ {enabled, uart_irq, rxdmae, txdmae, tx_busy, tx_flag, tx_irq0, dma_occured,
        notified, raced, recoded, cut, undefined} \subseteq BOOLEAN
    /\ busy \in [Chan -> BOOLEAN] /\ flag \in [Chan -> BOOLEAN] /\ irq0 \in [Chan -> BOOLEAN]
    /\ count \in [Chan -> 0..BufSize] /\ tx_count \in 0..Len(tx_buffer)
    /\ rx_buffer \in [Chan -> [1..BufSize -> 0..arrived]]
    /\ Len(tx_buffer) <= BufSize
    /\ Len(fifo) <= FifoSize /\ Len(rx_stream) <= StreamSize
    /\ arrived \in 0..MaxBytes /\ queued \in 0..MaxBytes /\ codings \in 0..MaxCodings
    /\ tx_pc \in {"receive", "start", "enable", "request", "wait"}
    /\ lc_pc \in {"receive", "stop_rx", "stop_tx", "reset", "init", "enable"}
    /\ timers \in Nat
    /\ dropped \subseteq 1..arrived /\ tx_dropped \subseteq 1..queued

Increasing(s) == \A i, j \in 1..Len(s) : i < j => s[i] < s[j]

\* What channel i moved and nobody forwarded yet.
Unsent(i) ==
    IF Status(i) THEN rx_buffer[i]
    ELSE IF busy[i] THEN SubSeq(rx_buffer[i], 1, BufSize - count[i]) ELSE <<>>

Received == taken \o rx_stream \o Unsent(0) \o Unsent(1) \o fifo

(***************************************************************************)
(* The bytes of the UART come out in order and none twice, whatever the    *)
(* order in which the DMA, its interrupt, the timer and the UART interrupt *)
(* take turns, unless a line coding is applied during a reception.         *)
(***************************************************************************)
RxInOrder == ~recoded => Increasing(Received)

(***************************************************************************)
(* No byte disappears but those dropped because the FIFO or the stream was *)
(* full or the UART was reset, unless the timer runs when a transfer has   *)
(* completed and its interrupt has not been served.                        *)
(***************************************************************************)
RxComplete == ~recoded /\ ~raced => ToSet(Received) \cup dropped = 1..arrived

(***************************************************************************)
(* While the UART interrupt is enabled no channel runs and no timer does,  *)
(* so that a reception starts a single timer and never sets up a channel   *)
(* in the middle of a transfer; a line coding applied during a reception   *)
(* is all that breaks this.                                                *)
(***************************************************************************)
OneReception == ~recoded =>
    /\ ~undefined
    /\ timers <= 1
    /\ uart_irq => timers = 0 /\ \A i \in Chan : ~busy[i]

Sending ==
    IF tx_pc = "start" THEN tx_buffer
    ELSE SubSeq(tx_buffer, Len(tx_buffer) - tx_count + 1, Len(tx_buffer))

(***************************************************************************)
(* The bytes of the host go over the line in order, each once, except what *)
(* came while the UART had no line coding or was being reset for another   *)
(* one, and what a line coding cut.                                        *)
(***************************************************************************)
TxExactlyOnce == ~cut =>
    /\ Increasing(wire \o Sending \o tx_stream)
    /\ ToSet(wire \o Sending \o tx_stream) \cup tx_dropped = 1..queued

(***************************************************************************)
(* When the line falls silent, nothing stays behind in the DMA buffers or  *)
(* the UART: the timer forwards partial buffers, also after a line coding  *)
(* was applied, unless that has set up a channel that was transferring.    *)
(***************************************************************************)
RxFlushed == <>[](undefined \/ Unsent(0) \o Unsent(1) \o fifo = <<>>)

(***************************************************************************)
(* The transmit task, which waits without a timeout, is woken for every    *)
(* buffer it hands to the DMA, unless a line coding was applied during the *)
(* transmission.                                                           *)
(***************************************************************************)
TxWaitEnds == (tx_pc = "wait") ~> (tx_pc = "receive" \/ cut)

=============================================================================
