------------------------------- MODULE CdcRx --------------------------------
(***************************************************************************)
(* The receive side of a USB CDC interface: the callbacks tinyusb calls in *)
(* the USB task, the notification word they set bits in, the task          *)
(* cdc_rx_task_thread and the stream buffers it fills (usb_cdc_task.c).    *)
(* The USB task has the highest priority and runs between any two steps of *)
(* the receive task; the readers of the streams run whenever they like.    *)
(*                                                                         *)
(* Data bytes are numbered in the order the host sends them, over all its  *)
(* connections.                                                            *)
(***************************************************************************)
EXTENDS Integers, Sequences

CONSTANTS
    FifoSize,     \* CFG_TUD_CDC_RX_BUFSIZE
    StreamSize,   \* size of rx_stream
    CodingRoom,   \* line codings line_coding_stream has room for
    MaxBytes,     \* bound on the bytes the host sends
    MaxOpens,     \* bound on the connections the host opens
    MaxCodings    \* bound on the line codings the host sets

ASSUME SizesAssumption ==
    /\ FifoSize \in Nat \ {0} /\ StreamSize \in Nat \ {0} /\ CodingRoom \in Nat \ {0}
    /\ MaxBytes \in Nat /\ MaxOpens \in Nat /\ MaxCodings \in Nat

Bits == {"DATA_RX", "CONNECTION_UPDATE", "LINE_CODING_UPDATE"}

VARIABLES
    dtr,        \* tud_cdc_n_connected
    opens,      \* connections opened
    sent,       \* bytes sent by the host
    fifo,       \* the receive FIFO of tinyusb
    coding,     \* the line coding tinyusb holds (numbered)
    bits,       \* the notification word of the receive task
    pc,         \* where cdc_rx_task_thread is
    got,        \* notificationValue
    connectedFlag,
    rx_buf,     \* bytes read and not yet in the stream
    rx_stream,
    line_coding_stream,
    applied,    \* the last line coding its reader took
    read,       \* everything the reader of rx_stream took, in order
    lost        \* bytes given up when the stream stayed full for 200 ms

vars == <<dtr, opens, sent, fifo, coding, bits, pc, got, connectedFlag, rx_buf,
          rx_stream, line_coding_stream, applied, read, lost>>

host == <<dtr, opens, sent, coding>>
task == <<pc, got, connectedFlag, rx_buf>>
out == <<rx_stream, line_coding_stream, lost>>
readers == <<applied, read>>

Data(n) == [kind |-> "data", n |-> n]
Eot == [kind |-> "eot", n |-> 0]

Init ==
    /\ dtr = FALSE /\ opens = 0 /\ sent = 0 /\ fifo = <<>> /\ coding = 0
    /\ bits = {} /\ pc = "wait" /\ got = {} /\ connectedFlag = FALSE /\ rx_buf = <<>>
    /\ rx_stream = <<>> /\ line_coding_stream = <<>> /\ applied = 0
    /\ read = <<>> /\ lost = {}

-----------------------------------------------------------------------------
(***************************************************************************)
(* The USB task.  The FIFO takes what it has room for: the host is held    *)
(* back otherwise.  Each callback sets a bit, which wakes the task.        *)
(***************************************************************************)
Notify(b) == bits' = bits \cup {b}

tud_cdc_rx_cb ==
    /\ dtr /\ sent < MaxBytes /\ Len(fifo) < FifoSize
    /\ sent' = sent + 1
    /\ fifo' = Append(fifo, Data(sent + 1))
    /\ Notify("DATA_RX")
    /\ UNCHANGED <<dtr, opens, coding, task, out, readers>>

\* The host opens or closes the port; what is in the FIFO stays there.
tud_cdc_line_state_cb ==
    /\ dtr \/ opens < MaxOpens
    /\ dtr' = ~dtr
    /\ opens' = IF dtr THEN opens ELSE opens + 1
    /\ Notify("CONNECTION_UPDATE")
    /\ UNCHANGED <<sent, fifo, coding, task, out, readers>>

tud_cdc_line_coding_cb ==
    /\ coding < MaxCodings
    /\ coding' = coding + 1
    /\ Notify("LINE_CODING_UPDATE")
    /\ UNCHANGED <<dtr, opens, sent, fifo, task, out, readers>>

-----------------------------------------------------------------------------
(***************************************************************************)
(* cdc_rx_task_thread.  xTaskNotifyWait takes the bits and clears them on  *)
(* exit, before anything is looked at.                                     *)
(***************************************************************************)
NotifyWait ==
    /\ pc = "wait" /\ bits # {}
    /\ got' = bits
    /\ bits' = {}
    /\ pc' = "coding"
    /\ UNCHANGED <<host, fifo, connectedFlag, rx_buf, out, readers>>

\* Mutant: the oldest line codings are kept when the stream is full.
CodingsKept ==
    IF Len(line_coding_stream) = CodingRoom THEN line_coding_stream
    ELSE Append(line_coding_stream, coding)

\* A full stream is reset, so that the newest coding always gets through.
CodingsSent ==
    IF Len(line_coding_stream) = CodingRoom THEN <<coding>>
    ELSE Append(line_coding_stream, coding)

LineCoding ==
    /\ pc = "coding"
    /\ line_coding_stream' = IF "LINE_CODING_UPDATE" \in got THEN CodingsSent
                             ELSE line_coding_stream
    /\ pc' = "closed"
    /\ UNCHANGED <<host, fifo, bits, got, connectedFlag, rx_buf, rx_stream,
                   lost, readers>>

(***************************************************************************)
(* The port is closed and was open: EOT without blocking, and back to the  *)
(* wait without reading the FIFO (the continue).                           *)
(***************************************************************************)
\* Mutant: the FIFO is flushed when the port is closed.
CheckClosedFlushes ==
    /\ pc = "closed"
    /\ IF ~dtr /\ connectedFlag
       THEN connectedFlag' = FALSE /\ fifo' = <<>> /\ pc' = "wait"
       ELSE pc' = "opened" /\ UNCHANGED <<connectedFlag, fifo>>
    /\ UNCHANGED <<host, bits, got, rx_buf, out, readers>>

CheckClosed ==
    /\ pc = "closed"
    /\ IF ~dtr /\ connectedFlag
       THEN /\ connectedFlag' = FALSE
            /\ rx_stream' = IF Len(rx_stream) < StreamSize
                            THEN Append(rx_stream, Eot) ELSE rx_stream
            /\ pc' = "wait"
       ELSE pc' = "opened" /\ UNCHANGED <<connectedFlag, rx_stream>>
    /\ UNCHANGED <<host, fifo, bits, got, rx_buf, line_coding_stream, lost, readers>>

CheckOpened ==
    /\ pc = "opened"
    /\ connectedFlag' = (connectedFlag \/ dtr)
    /\ pc' = "read"
    /\ UNCHANGED <<host, fifo, bits, got, rx_buf, out, readers>>

\* Mutant: the bits are cleared at the entry of the wait.
ReadFifoClears ==
    /\ pc = "read"
    /\ IF fifo = <<>>
       THEN pc' = "wait" /\ bits' = {} /\ UNCHANGED rx_buf
       ELSE pc' = "send" /\ rx_buf' = fifo /\ UNCHANGED bits
    /\ fifo' = <<>>
    /\ UNCHANGED <<host, got, connectedFlag, out, readers>>

\* tud_cdc_n_read empties the FIFO: rx_buf is as large as it is.
ReadFifo ==
    /\ pc = "read"
    /\ IF fifo = <<>>
       THEN pc' = "wait" /\ UNCHANGED rx_buf
       ELSE pc' = "send" /\ rx_buf' = fifo
    /\ fifo' = <<>>
    /\ UNCHANGED <<host, bits, got, connectedFlag, out, readers>>

\* The stream takes the bytes as a whole when it has room for them.
SendToStream ==
    /\ pc = "send" /\ Len(rx_stream) + Len(rx_buf) <= StreamSize
    /\ rx_stream' = rx_stream \o rx_buf
    /\ rx_buf' = <<>>
    /\ pc' = "read"
    /\ UNCHANGED <<host, fifo, bits, got, connectedFlag, line_coding_stream,
                   lost, readers>>

(***************************************************************************)
(* After 200 ms without enough room the stream takes what fits; the rest   *)
(* is gone, as the result of xStreamBufferSend is only looked at.          *)
(***************************************************************************)
Fitting == StreamSize - Len(rx_stream)

SendTimeout ==
    /\ pc = "send" /\ Len(rx_stream) + Len(rx_buf) > StreamSize
    /\ rx_stream' = rx_stream \o SubSeq(rx_buf, 1, Fitting)
    /\ lost' = lost \cup {rx_buf[i].n : i \in Fitting + 1 .. Len(rx_buf)}
    /\ rx_buf' = <<>>
    /\ pc' = "read"
    /\ UNCHANGED <<host, fifo, bits, got, connectedFlag, line_coding_stream,
                   readers>>

-----------------------------------------------------------------------------
\* The reader of rx_stream: gdb_if_getchar, or the UART transmit task.
ReadStream ==
    /\ rx_stream # <<>>
    /\ \E n \in 1..Len(rx_stream) :
          /\ read' = read \o SubSeq(rx_stream, 1, n)
          /\ rx_stream' = SubSeq(rx_stream, n + 1, Len(rx_stream))
    /\ UNCHANGED <<host, fifo, bits, task, line_coding_stream, applied, lost>>

\* The reader of line_coding_stream: usb_uart_line_coding_thread.
ReadCoding ==
    /\ line_coding_stream # <<>>
    /\ applied' = Head(line_coding_stream)
    /\ line_coding_stream' = Tail(line_coding_stream)
    /\ UNCHANGED <<host, fifo, bits, task, rx_stream, read, lost>>

HostStep == tud_cdc_rx_cb \/ tud_cdc_line_state_cb \/ tud_cdc_line_coding_cb

TaskStep ==
    \/ NotifyWait
    \/ LineCoding
    \/ CheckClosed
    \/ CheckOpened
    \/ ReadFifo
    \/ SendToStream
    \/ SendTimeout

Next == HostStep \/ TaskStep \/ ReadStream \/ ReadCoding

Spec == Init /\ [][Next]_vars

(***************************************************************************)
(* The receive task and the line coding task run when they are ready: all  *)
(* tasks above them block.  A send to a full stream ends after 200 ms.     *)
(***************************************************************************)
FairSpec == Spec /\ WF_vars(TaskStep) /\ WF_vars(ReadCoding)

-----------------------------------------------------------------------------
(***************************************************************************)
(* Every variable has its type and the buffers keep to their sizes.        *)
(***************************************************************************)
TypeOK ==
    /\ dtr \in BOOLEAN /\ connectedFlag \in BOOLEAN
    /\ opens \in 0..MaxOpens /\ sent \in 0..MaxBytes
    /\ coding \in 0..MaxCodings /\ applied \in 0..coding
    /\ bits \subseteq Bits /\ got \subseteq Bits
    /\ pc \in {"wait", "coding", "closed", "opened", "read", "send"}
    /\ Len(fifo) <= FifoSize /\ Len(rx_buf) <= FifoSize
    /\ Len(rx_stream) <= StreamSize
    /\ Len(line_coding_stream) <= CodingRoom
    /\ lost \subseteq 1..sent

Pipeline == read \o rx_stream \o rx_buf \o fifo
DataAt == {i \in 1..Len(Pipeline) : Pipeline[i].kind = "data"}

(***************************************************************************)
(* The bytes of the host come out of the stream in the order they were     *)
(* sent, none twice, and none is missing but those given up when the       *)
(* stream stayed full for the length of the timeout.                       *)
(***************************************************************************)
InOrderExactlyOnce ==
    /\ \A i, j \in DataAt : i < j => Pipeline[i].n < Pipeline[j].n
    /\ {Pipeline[i].n : i \in DataAt} = (1..sent) \ lost

(***************************************************************************)
(* Notifications that are merged into one word lose nothing: a task that   *)
(* is about to sleep without a bit set has seen the last change of the     *)
(* line state, and left bytes in the FIFO only of a connection that was    *)
(* closed.                                                                 *)
(***************************************************************************)
NoLostWakeup ==
    pc = "wait" /\ bits = {} =>
        /\ connectedFlag = dtr
        /\ dtr => fifo = <<>>

(***************************************************************************)
(* The line coding the host set last is the one that ends up applied,      *)
(* however fast it sets them and whatever the stream had to drop.          *)
(***************************************************************************)
LastCodingApplied == <>[](applied = coding)
=============================================================================
