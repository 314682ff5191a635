------------------------------ MODULE GdbLink -------------------------------
(***************************************************************************)
(* The serial link between GDB and the GDB server: gdb_getpacket and       *)
(* gdb_putpacket (gdb_packet.c), the byte buffers under them (main.c), the *)
(* task cdc_tx_task_thread that feeds the transmit FIFO of tinyusb, and    *)
(* the wait of gdb_main_loop for a running target, which reads the same    *)
(* bytes.                                                                  *)
(*                                                                         *)
(* Towards the probe bytes have their values, since framing, escaping and  *)
(* the checksum decide what is a packet; the receive path (module CdcRx)   *)
(* is a sequence of bytes that may lose some.  Towards GDB, which uses the *)
(* same framing, a packet is whole or cut.  GDB is the environment: it     *)
(* sends numbered requests one at a time, repeats them after a NAK or when *)
(* nothing comes, acknowledges what is whole, and may close the port       *)
(* anywhere.                                                               *)
(***************************************************************************)
EXTENDS Integers, Sequences, SequencesExt

CONSTANTS
    Requests,   \* the bodies of the requests, in the order GDB sends them
    Answers,    \* how many packets each request is answered with
    Size,       \* the bytes of an answer packet on the wire
    PktSize,    \* the size given to gdb_getpacket (BUF_SIZE)
    RxSize,     \* bytes the receive path holds
    TxSize,     \* what is in tx_stream before gdb_if_putchar has to wait
    TxFifo,     \* CFG_TUD_CDC_TX_BUFSIZE
    MaxFaults   \* bound on the bytes lost on the way in, the packets cut on the way out,
                \* the answers that take longer than 2 s, the interrupts GDB sends and
                \* the times the port is closed

ASSUME LinkAssumption ==
    /\ Len(Answers) = Len(Requests) /\ \A n \in 1..Len(Answers) : Answers[n] \in Nat \ {0}
    /\ {Size, TxSize, TxFifo} \subseteq Nat \ {0} /\ {PktSize, RxSize, MaxFaults} \subseteq Nat

N == Len(Requests)

ETX == 3
EOT == 4
PortEot == 260   \* the EOT of a closed port: the byte 4, told from data for the properties
SOM == 33        \* '!', REMOTE_SOM
Hash == 35
Dollar == 36
Plus == 43
Minus == 45
Esc == 125
Continue == 99   \* 'c'

VARIABLES
    port,       \* "open", "closing" (the receive task has not noticed) or "closed"
    gdb,        \* GDB: st is "idle", "sent" or "wait" (for the reply), req its last request
    rx,         \* bytes on their way to gdb_if_getchar
    pc,         \* where the GDB task is
    get,        \* gdb_getpacket: pkt (packet[0..i-1]), csum, digit (recv_csum[0])
    put,        \* gdb_putpacket: out, the packets to send as <<request, index>>, and tries
    tx,         \* tx_stream: '+', '-' and packets
    fifo,       \* the transmit FIFO of tinyusb; a packet is <<request, index, whole>>
    attached,   \* a session with the target is open
    faults,
    hist        \* history, for the properties:
                \*   last, twice     the last request handled, those handled again
                \*   alien           a packet was accepted that nobody sent
                \*   acked, taken    packets taken for acknowledged, packets GDB has
                \*   crossed         GDB took a reply for that of another request
                \*   late            the wait for '+' ended with another byte, or with none
                \*   gaveup          a packet was sent four times for nothing
                \*   eotgone         an EOT was dropped or read as something else
                \*   closed          the port was closed

vars == <<port, gdb, rx, pc, get, put, tx, fifo, attached, faults, hist>>

Init ==
    /\ port = "open" /\ gdb = [st |-> "idle", req |-> 0] /\ rx = <<>> /\ pc = "start"
    /\ get = [pkt |-> <<>>, csum |-> 0, digit |-> 0]
    /\ put = [out |-> <<>>, tries |-> 0]
    /\ tx = <<>> /\ fifo = <<>> /\ attached = FALSE /\ faults = 0
    /\ hist = [last |-> 0, twice |-> {}, alien |-> FALSE, acked |-> {}, taken |-> {},
               crossed |-> FALSE, late |-> FALSE, gaveup |-> FALSE, eotgone |-> FALSE,
               closed |-> FALSE]

-----------------------------------------------------------------------------
(***************************************************************************)
(* Framing, the same on both sides.  c ^ 0x20 turns '$' into EOT and '#'   *)
(* into ETX.                                                               *)
(***************************************************************************)
Xor20(b) == IF (b \div 32) % 2 = 1 THEN b - 32 ELSE b + 32

Wire(body) ==
    FlattenSeq([i \in 1..Len(body) |->
        IF body[i] \in {Dollar, Hash, Esc} THEN <<Esc, Xor20(body[i])>> ELSE <<body[i]>>])

HexChar(d) == IF d < 10 THEN 48 + d ELSE 55 + d

Frame(body) ==
    LET sum == FoldSeq(+, 0, Wire(body)) % 256
    IN  <<Dollar>> \o Wire(body) \o <<Hash, HexChar(sum \div 16), HexChar(sum % 16)>>

Digits == (48..57) \cup (65..70) \cup (97..102)

Digit(b) == IF b < 58 THEN b - 48 ELSE (b % 32) + 9

Spaces == (9..13) \cup {32}

\* strtol of two characters: a space or a sign may come first, and it stops at what is
\* no digit.
strtol(c1, c2) ==
    CASE c1 \in Digits /\ c2 \in Digits    -> 16 * Digit(c1) + Digit(c2)
      [] c1 \in Digits /\ c2 \notin Digits -> Digit(c1)
      [] c1 \in Spaces \cup {Plus} /\ c2 \in Digits -> Digit(c2)
      [] c1 = Minus /\ c2 \in Digits       -> -Digit(c2)
      [] OTHER                             -> 0

-----------------------------------------------------------------------------
(***************************************************************************)
(* gdb_getpacket, one byte of gdb_if_getchar at a time.  hist.eotgone      *)
(* notes that the EOT of a closed port was read inside a packet.           *)
(***************************************************************************)
c == Head(rx) % 256

Read == rx # <<>> /\ rx' = Tail(rx)

ReadInside ==
    /\ Read
    /\ hist' = [hist EXCEPT !.eotgone = @ \/ Head(rx) = PortEot]
    /\ UNCHANGED <<port, gdb, put, fifo, attached, faults>>

Restart == pc' = "data" /\ get' = [get EXCEPT !.pkt = <<>>, !.csum = 0]

\* Mutant: an EOT is skipped like any other byte.
ReadStartNoEot ==
    /\ pc = "start" /\ Read
    /\ \/ c = Dollar /\ Restart
       \/ c = SOM /\ pc' = "remote" /\ get' = [get EXCEPT !.pkt = <<>>]
       \/ c \notin {Dollar, SOM} /\ UNCHANGED <<pc, get>>
    /\ UNCHANGED <<port, gdb, put, tx, fifo, attached, faults, hist>>

ReadStart ==
    /\ pc = "start" /\ Read
    /\ \/ c = EOT /\ pc' = "handle" /\ get' = [get EXCEPT !.pkt = <<EOT>>]
       \/ c = Dollar /\ Restart
       \/ c = SOM /\ pc' = "remote" /\ get' = [get EXCEPT !.pkt = <<>>]
       \/ c \notin {EOT, Dollar, SOM} /\ UNCHANGED <<pc, get>>
    /\ UNCHANGED <<port, gdb, put, tx, fifo, attached, faults, hist>>

(***************************************************************************)
(* A remote control packet ends with REMOTE_EOM, with a '$' that starts a  *)
(* packet of GDB, or when it is too long.  GDB skips what it is answered.  *)
(***************************************************************************)
ReadRemote ==
    /\ pc = "remote" /\ ReadInside
    /\ \/ c = SOM /\ get' = [get EXCEPT !.pkt = <<>>] /\ UNCHANGED pc
       \/ c = Hash /\ pc' = "start" /\ UNCHANGED get
       \/ c = Dollar /\ Restart
       \/ /\ c \notin {SOM, Hash, Dollar} /\ Len(get.pkt) < PktSize
          /\ get' = [get EXCEPT !.pkt = Append(@, c)] /\ UNCHANGED pc
       \/ /\ c \notin {SOM, Hash, Dollar} /\ Len(get.pkt) >= PktSize
          /\ pc' = "start" /\ UNCHANGED get
    /\ UNCHANGED tx

Store(b, sum) ==
    /\ pc' = "data"
    /\ get' = [get EXCEPT !.pkt = Append(@, b), !.csum = (@ + sum) % 256]

\* A '$' starts anew; a packet that fills the buffer ends with the next byte.
ReadData ==
    /\ pc = "data" /\ ReadInside
    /\ \/ (c = Hash \/ Len(get.pkt) = PktSize) /\ pc' = "sum1" /\ UNCHANGED get
       \/ /\ c # Hash /\ Len(get.pkt) # PktSize
          /\ \/ c = Dollar /\ Restart
             \/ c = Esc /\ pc' = "esc" /\ UNCHANGED get
             \/ c \notin {Dollar, Esc} /\ Store(c, c)
    /\ UNCHANGED tx

ReadEscaped == pc = "esc" /\ ReadInside /\ Store(Xor20(c), c + Esc) /\ UNCHANGED tx

ReadDigit ==
    /\ pc = "sum1" /\ ReadInside
    /\ pc' = "sum2" /\ get' = [get EXCEPT !.digit = c]
    /\ UNCHANGED tx

\* Mutant: the checksum is not compared.
ReadSumUnchecked ==
    /\ pc = "sum2" /\ ReadInside /\ Len(tx) < TxSize
    /\ tx' = Append(tx, <<Plus>>) /\ pc' = "handle"
    /\ UNCHANGED get

\* Mutant: the answer overtakes the packets in the stream.
ReadSumOvertakes ==
    /\ pc = "sum2" /\ ReadInside /\ Len(tx) < TxSize
    /\ \/ get.csum = strtol(get.digit, c) /\ tx' = << <<Plus>> >> \o tx /\ pc' = "handle"
       \/ get.csum # strtol(get.digit, c) /\ tx' = << <<Minus>> >> \o tx /\ pc' = "start"
    /\ UNCHANGED get

\* A bad checksum is answered with '-', and the wait for a packet starts again.
ReadSum ==
    /\ pc = "sum2" /\ ReadInside /\ Len(tx) < TxSize
    /\ \/ get.csum = strtol(get.digit, c) /\ tx' = Append(tx, <<Plus>>) /\ pc' = "handle"
       \/ get.csum # strtol(get.digit, c) /\ tx' = Append(tx, <<Minus>>) /\ pc' = "start"
    /\ UNCHANGED get

-----------------------------------------------------------------------------
(***************************************************************************)
(* gdb_main_loop, as far as it uses the link: a request is answered with   *)
(* its packets, after the target has halted when it is 'c'; EOT detaches   *)
(* and is answered like 'D', here as request 0.                            *)
(***************************************************************************)
Number(body) == CHOOSE n \in 0..N : IF n = 0 THEN body \notin Range(Requests)
                                    ELSE Requests[n] = body

IsEot == get.pkt # <<>> /\ get.pkt[1] = EOT

Handle ==
    /\ pc = "handle"
    /\ LET n == IF IsEot THEN 0 ELSE Number(get.pkt)
       IN  /\ put' = [out |-> IF n = 0 THEN << <<0, 1>> >>
                              ELSE [k \in 1..Answers[n] |-> <<n, k>>], tries |-> 0]
           /\ pc' = IF n # 0 /\ get.pkt[1] = Continue THEN "run" ELSE "put"
           /\ attached' = ~IsEot
           /\ hist' = IF IsEot THEN hist
                      ELSE [hist EXCEPT !.last = n,
                                        !.twice = IF n = hist.last THEN @ \cup {n} ELSE @,
                                        !.alien = @ \/ n = 0 \/ n > gdb.req \/ n < hist.last]
    /\ UNCHANGED <<port, gdb, rx, get, tx, fifo, faults>>

(***************************************************************************)
(* The wait for a halt reads bytes with gdb_if_getchar_to(0) and drops     *)
(* what is neither ETX nor EOT; tries notes the request to halt.           *)
(***************************************************************************)
RunPoll ==
    /\ pc = "run" /\ Read
    /\ put' = [put EXCEPT !.tries = IF c \in {ETX, EOT} THEN 1 ELSE @]
    /\ hist' = [hist EXCEPT !.eotgone = @ \/ Head(rx) = PortEot]
    /\ UNCHANGED <<port, gdb, pc, get, tx, fifo, attached, faults>>

TargetHalts ==
    /\ pc = "run"
    /\ pc' = "put" /\ put' = [put EXCEPT !.tries = 0]
    /\ UNCHANGED <<port, gdb, rx, get, tx, fifo, attached, faults, hist>>

-----------------------------------------------------------------------------
(***************************************************************************)
(* gdb_putpacket.  gdb_if_putchar waits for room in the stream.            *)
(***************************************************************************)
SendPacket ==
    /\ pc = "put" /\ Len(tx) < TxSize
    /\ tx' = Append(tx, Head(put.out))
    /\ pc' = "ack"
    /\ UNCHANGED <<port, gdb, rx, get, put, fifo, attached, faults, hist>>

NextPacket ==
    /\ put' = [out |-> Tail(put.out), tries |-> 0]
    /\ pc' = IF Len(put.out) > 1 THEN "put" ELSE "start"

\* Mutant: a NAK ends the wait like an acknowledgement.
AckOrNak ==
    /\ pc = "ack" /\ Read /\ c \in {Plus, Minus}
    /\ NextPacket
    /\ hist' = [hist EXCEPT !.acked = @ \cup {Head(put.out)}]
    /\ UNCHANGED <<port, gdb, get, tx, fifo, attached, faults>>

Ack ==
    /\ pc = "ack" /\ Read /\ c = Plus
    /\ NextPacket
    /\ hist' = [hist EXCEPT !.acked = @ \cup {Head(put.out)}]
    /\ UNCHANGED <<port, gdb, get, tx, fifo, attached, faults>>

\* Mutant: the packet is sent once.
ResendNever(b) ==
    /\ NextPacket
    /\ hist' = [hist EXCEPT !.late = @ \/ b # Minus, !.eotgone = @ \/ b = PortEot]

\* Any byte but '+', or none (-1): the packet is sent again, three times.
Resend(b) ==
    /\ \/ put.tries < 3 /\ pc' = "put" /\ put' = [put EXCEPT !.tries = @ + 1]
       \/ put.tries = 3 /\ NextPacket
    /\ hist' = [hist EXCEPT !.late = @ \/ b # Minus, !.eotgone = @ \/ b = PortEot,
                            !.gaveup = @ \/ put.tries = 3]

NoAck ==
    /\ pc = "ack" /\ Read /\ c # Plus
    /\ Resend(Head(rx))
    /\ UNCHANGED <<port, gdb, get, tx, fifo, attached, faults>>

Fault == faults < MaxFaults /\ faults' = faults + 1

\* Nothing more will come unless somebody gives up waiting.
Silent == rx = <<>> /\ tx = <<>> /\ (fifo = <<>> \/ port # "open") /\ port # "closing"

\* gdb_if_getchar_to returns -1 after 2 s: nobody answers, or GDB is slow.
AckTimeout ==
    /\ pc = "ack" /\ rx = <<>>
    /\ (Silent /\ UNCHANGED faults) \/ (~Silent /\ Fault)
    /\ Resend(-1)
    /\ UNCHANGED <<port, gdb, rx, get, tx, fifo, attached>>

(***************************************************************************)
(* cdc_tx_task_thread writes to the FIFO what it takes from the stream.    *)
(* What comes while the port is closed is gone.  A packet that finds less  *)
(* room than it needs is cut, unless GDB reads fast enough.                *)
(***************************************************************************)
Signs == {<<Plus>>, <<Minus>>}

Bytes(q) == FoldSeq(LAMBDA x, n : n + (IF x \in Signs THEN 1 ELSE Size), 0, q)

cdc_tx_task_thread ==
    /\ tx # <<>>
    /\ tx' = Tail(tx)
    /\ \/ port # "open" /\ UNCHANGED <<fifo, faults>>
       \/ /\ port = "open" /\ Head(tx) \in Signs
          /\ fifo' = Append(fifo, Head(tx)) /\ UNCHANGED faults
       \/ /\ port = "open" /\ Head(tx) \notin Signs
          /\ fifo' = Append(fifo, Append(Head(tx), TRUE)) /\ UNCHANGED faults
       \/ /\ port = "open" /\ Head(tx) \notin Signs /\ Size > TxFifo - Bytes(fifo)
          /\ fifo' = Append(fifo, Append(Head(tx), FALSE)) /\ Fault
    /\ UNCHANGED <<port, gdb, rx, pc, get, put, attached, hist>>

-----------------------------------------------------------------------------
(***************************************************************************)
(* GDB, and the port.                                                      *)
(***************************************************************************)
Say(w) == Len(rx) + Len(w) <= RxSize /\ rx' = rx \o w

probe == <<pc, get, put, tx, attached>>

HostRequest ==
    /\ port = "open" /\ gdb.st = "idle" /\ gdb.req < N
    /\ Say(Frame(Requests[gdb.req + 1]))
    /\ gdb' = [st |-> "sent", req |-> gdb.req + 1]
    /\ UNCHANGED <<port, fifo, faults, hist, probe>>

\* GDB interrupts the target it told to continue.
HostInterrupt ==
    /\ port = "open" /\ gdb.st = "wait" /\ Requests[gdb.req][1] = Continue
    /\ Say(<<ETX>>) /\ Fault
    /\ UNCHANGED <<port, gdb, fifo, hist, probe>>

\* '+' and '-' count while GDB waits for them.
HostAck ==
    /\ port = "open" /\ fifo # <<>> /\ Head(fifo) \in Signs
    /\ fifo' = Tail(fifo)
    /\ \/ Head(fifo) = <<Plus>> /\ gdb.st = "sent" /\ gdb' = [gdb EXCEPT !.st = "wait"] /\ UNCHANGED rx
       \/ Head(fifo) = <<Minus>> /\ gdb.st = "sent" /\ Say(Frame(Requests[gdb.req])) /\ UNCHANGED gdb
       \/ gdb.st # "sent" /\ UNCHANGED <<gdb, rx>>
    /\ UNCHANGED <<port, faults, hist, probe>>

(***************************************************************************)
(* A whole packet is acknowledged, a cut one refused.  While GDB waits for *)
(* '+' a packet is an old one; output does not end the wait for a reply.   *)
(***************************************************************************)
HostPacket ==
    /\ port = "open" /\ fifo # <<>> /\ Head(fifo) \notin Signs
    /\ fifo' = Tail(fifo)
    /\ LET n == Head(fifo)[1]  k == Head(fifo)[2]  whole == Head(fifo)[3]
       IN  /\ Say(<<IF whole THEN Plus ELSE Minus>>)
           /\ gdb' = IF whole /\ gdb.st = "wait" /\ (n = 0 \/ k = Answers[n])
                     THEN [gdb EXCEPT !.st = "idle"] ELSE gdb
           /\ hist' = IF ~whole THEN hist
                      ELSE [hist EXCEPT !.taken = @ \cup {<<n, k>>},
                                        !.crossed = @ \/ (gdb.st = "wait" /\ n # gdb.req)]
    /\ UNCHANGED <<port, faults, probe>>

\* GDB waits for '+' in vain, or is impatient, and sends its request again.
HostTimeout ==
    /\ port = "open" /\ gdb.st = "sent" /\ fifo = <<>>
    /\ \/ Silent /\ pc \notin {"handle", "run", "put", "ack"} /\ UNCHANGED faults
       \/ ~Silent /\ Fault
    /\ Say(Frame(Requests[gdb.req]))
    /\ UNCHANGED <<port, gdb, fifo, hist, probe>>

Close ==
    /\ port = "open" /\ Fault
    /\ port' = "closing" /\ gdb' = [gdb EXCEPT !.st = "idle"]
    /\ hist' = [hist EXCEPT !.closed = TRUE]
    /\ UNCHANGED <<rx, fifo, probe>>

\* GDB starts a connection with an acknowledgement.
Open ==
    /\ port # "open" /\ Say(<<Plus>>)
    /\ port' = "open"
    /\ hist' = [hist EXCEPT !.eotgone = @ \/ port = "closing"]
    /\ UNCHANGED <<gdb, fifo, faults, probe>>

\* The receive task notices the closed port and sends EOT if there is room.
SendEot ==
    /\ port = "closing"
    /\ port' = "closed"
    /\ \/ Say(<<PortEot>>) /\ UNCHANGED hist
       \/ Len(rx) = RxSize /\ hist' = [hist EXCEPT !.eotgone = TRUE] /\ UNCHANGED rx
    /\ UNCHANGED <<gdb, fifo, faults, probe>>

\* The receive path gives up a byte when the stream stays full.
LoseByte ==
    /\ Fault
    /\ \E i \in 1..Len(rx) : rx[i] # PortEot /\ rx' = RemoveAt(rx, i)
    /\ UNCHANGED <<port, gdb, fifo, hist, probe>>

-----------------------------------------------------------------------------
ServerStep ==
    \/ ReadStart \/ ReadRemote \/ ReadData \/ ReadEscaped \/ ReadDigit \/ ReadSum
    \/ Handle \/ RunPoll
    \/ SendPacket \/ Ack \/ NoAck \/ AckTimeout

GdbStep == HostAck \/ HostPacket \/ HostTimeout

Next ==
    \/ ServerStep \/ TargetHalts \/ cdc_tx_task_thread
    \/ GdbStep \/ HostRequest \/ HostInterrupt
    \/ Close \/ Open \/ SendEot \/ LoseByte

Spec == Init /\ [][Next]_vars

(***************************************************************************)
(* The tasks of the probe run when they can, a halt request is taken in    *)
(* the end, and GDB reads and answers while the port is open.  It need not *)
(* send, close or open anything.                                           *)
(***************************************************************************)
FairSpec ==
    /\ Spec
    /\ WF_vars(ServerStep) /\ WF_vars(cdc_tx_task_thread) /\ WF_vars(SendEot)
    /\ WF_vars(GdbStep)
    /\ WF_vars(TargetHalts /\ put.tries = 1)

-----------------------------------------------------------------------------
(***************************************************************************)
(* Every variable has its type and the buffers keep to their sizes.        *)
(***************************************************************************)
TypeOK ==
    /\ port \in {"open", "closing", "closed"} /\ attached \in BOOLEAN /\ faults \in 0..MaxFaults
    /\ gdb \in [st : {"idle", "sent", "wait"}, req : 0..N]
    /\ pc \in {"start", "remote", "data", "esc", "sum1", "sum2", "handle", "run", "put", "ack"}
    /\ Len(get.pkt) <= PktSize + 1 /\ get.csum \in 0..255 /\ put.tries \in 0..3
    /\ Len(rx) <= RxSize /\ Len(tx) <= TxSize
    /\ pc \in {"run", "put", "ack"} <=> put.out # <<>>

(***************************************************************************)
(* A packet that gdb_getpacket accepts is a request of GDB, byte for byte, *)
(* and not an older one than the last: neither lost bytes, nor a packet    *)
(* that was broken off by a closed port or by the start of another, nor    *)
(* special bytes in the data are taken for something else.                 *)
(***************************************************************************)
AcceptedIsSent == ~hist.alien

(***************************************************************************)
(* When gdb_putpacket returns because it read '+', GDB has that packet     *)
(* whole, and not only an earlier one.  A '+' that comes after the wait    *)
(* for it was given up, or on another connection, acknowledges the wrong   *)
(* packet.                                                                 *)
(***************************************************************************)
AckedIsTaken == ~hist.late /\ ~hist.closed => hist.acked \subseteq hist.taken

(***************************************************************************)
(* GDB never takes the reply to one request for the reply to another,      *)
(* although packets carry no number and are repeated, unless a request was *)
(* handled twice, a packet was given up, or the port was closed.           *)
(***************************************************************************)
AnswersMatch == hist.crossed => hist.twice # {} \/ hist.gaveup \/ hist.closed

(***************************************************************************)
(* A request is answered in the end, however its bytes and its answers are *)
(* lost, refused and repeated, unless the probe gave a packet up, a wait   *)
(* for '+' failed, the port was closed, or the target runs.                *)
(***************************************************************************)
RequestAnswered ==
    gdb.st # "idle" ~>
        (gdb.st = "idle" \/ hist.gaveup \/ hist.late \/ hist.closed \/ pc = "run")

(***************************************************************************)
(* Closing the port ends the session with the target, unless the EOT was   *)
(* dropped or was read inside a packet, instead of an acknowledgement, or  *)
(* as a request to halt.                                                   *)
(***************************************************************************)
ClosedEndsSession ==
    (port = "closed" /\ attached) ~> (port = "open" \/ ~attached \/ hist.eotgone)
=============================================================================
