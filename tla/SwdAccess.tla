----------------------------- MODULE SwdAccess ------------------------------
(***************************************************************************)
(* Debug port accesses over SWD: the acknowledge handling of the PIO       *)
(* low_access, the flag dp->fault, the recovery in firmware_swdp_error     *)
(* with the reselection on a multi-drop bus, the scan of the bus, and the  *)
(* memory and run control operations of a session that are made of them.   *)
(*                                                                         *)
(* An operation is a sequence of accesses <<kind, DP>> that are answered   *)
(* one by one.  The bus and the debug ports are the environment: an access *)
(* goes to the port that is selected, whichever was meant.  Each port has  *)
(* one core.  What is read is abstracted to whether it is good and, for    *)
(* DHCSR, whether the core is halted.                                      *)
(***************************************************************************)
EXTENDS Integers, Sequences, SequencesExt

CONSTANTS
    NrDps,      \* the ports the scan of a multi-drop bus tries (16)
    MaxTrouble  \* bound on noise, bus errors and slow transactions

ASSUME SwdAssumption == NrDps \in Nat \ {0} /\ MaxTrouble \in Nat

DPs == 0..NrDps - 1
Nobody == -1
Initial == -2   \* initial_dp, on the stack of adiv5_swdp_scan

VARIABLES
    chip,       \* v2: the ports are DPv2 (multi-drop); dps: those on the bus
    sel,        \* the port that answers, or Nobody
    sticky,     \* STICKYERR of each port
    busy,       \* the transaction each AP is still working on, or "no"
    core,       \* "run" or "halt"
    rdbuf,      \* the result of the last AP read of each port
    fault,      \* dp->fault
    list,       \* ports with a target in the target list, in its order
    cur,        \* the port of the attached target, or Nobody
    wait,       \* gdb_main_loop waits for a halt: "poll", "key" (next looks at the host) or "no"
    job,        \* the operation under way: its name, port, whether an access of it failed (bad),
                \* or timed out or was under way when the errors were read (late), the error read last (err) and the value read last (val)
    todo,       \* its remaining accesses
    scan,       \* the next port of the scan, and whether there was trouble since it started
    reply,      \* how the last memory packet was answered
    late,       \* ports whose dp->fault was set by a timeout
    wrong,      \* an access of a session was answered by the port of another target
    trouble

bus == <<chip, sel, sticky, busy, core, rdbuf, trouble>>
vars == <<bus, fault, list, cur, wait, job, todo, scan, reply, wrong, late>>

Idle == [name |-> "idle", d |-> Nobody, bad |-> FALSE, late |-> FALSE, err |-> FALSE, val |-> "run"]

Job(name, d) == [Idle EXCEPT !.name = name, !.d = d]

Init ==
    /\ chip \in [v2 : {TRUE}, dps : SUBSET DPs \ {{}}] \cup [v2 : {FALSE}, dps : {{0}}]
    /\ sel = Nobody /\ sticky = [d \in DPs |-> FALSE] /\ busy = [d \in DPs |-> "no"]
    /\ core = [d \in DPs |-> "run"] /\ rdbuf = [d \in DPs |-> "run"]
    /\ fault = [d \in DPs \cup {Initial} |-> FALSE]
    /\ list = <<>> /\ cur = Nobody /\ wait = "no"
    /\ job = Idle /\ todo = <<>> /\ scan = [next |-> 0, trouble |-> FALSE]
    /\ reply = [bad |-> FALSE, late |-> FALSE, err |-> FALSE]
    /\ wrong = FALSE /\ late = {} /\ trouble = 0

-----------------------------------------------------------------------------
(***************************************************************************)
(* The accesses an operation is made of.                                   *)
(***************************************************************************)
For(d, kinds) == [i \in 1..Len(kinds) |-> <<kinds[i], d>>]

\* CSW (with SELECT) and TAR, then DRW: firmware_mem_read and firmware_mem_write_sized.
MemRead(d) == For(d, <<"select", "reg", "read", "rdbuff">>)
MemWrite(d, k) == For(d, <<"select", "reg", k>>)

\* Line reset, and the selection of a port on a multi-drop bus.
Reselect(d, as) == For(d, <<"reset", "targetsel">>) \o For(as, <<"idcode">>)

\* Mutant: dp->fault stays set.
ErrorKeepsFault(d) ==
    (IF fault[d] /\ chip.v2 THEN Reselect(d, d) ELSE <<>>)
        \o For(d, <<"ctrlstat", "abort">>)

firmware_swdp_error(d) ==
    (IF fault[d] /\ chip.v2 THEN Reselect(d, d) ELSE <<>>)
        \o For(d, <<"ctrlstat", "abort", "clear">>)

(***************************************************************************)
(* adiv5_dp_init: power up, read the IDR of AP 0, halt the core, read the  *)
(* component and peripheral IDs, and resume every target of the list.      *)
(***************************************************************************)
adiv5_dp_init(d) ==
    For(d, <<"ctrlstat", "ctrlw", "ctrlstat", "select", "idr", "rdbuff", "new_ap",
             "select", "reg", "ctrlw", "halt", "read">>)
        \o MemRead(d) \o For(d, <<"cidr", "error">>) \o MemRead(d) \o For(d, <<"probed", "release">>)

Always == {"idcode", "ctrlstat", "abort"}   \* answered whatever the state of the port is
Transactions == {"read", "write", "halt", "run"}
ApAccess == {"reg", "idr"} \cup Transactions
Answered == Always \cup ApAccess \cup {"select", "rdbuff", "ctrlw"}

kind == Head(todo)[1]
dp == Head(todo)[2]

Step == todo # <<>> /\ todo' = Tail(todo)

-----------------------------------------------------------------------------
(***************************************************************************)
(* Exceptions.  The reads of IDCODE in the scan catch them; the rest of    *)
(* the scan ends, and a session ends with the target list freed.           *)
(***************************************************************************)
NextDp == job' = Job("loop", Nobody) /\ todo' = <<>> /\ scan' = [scan EXCEPT !.next = @ + 1]

\* adiv5_swdp_scan returns; t tells whether something went wrong.
Scanned(t) ==
    job' = Job("scanned", Nobody) /\ todo' = <<>> /\ scan' = [scan EXCEPT !.trouble = @ \/ t]

\* Mutant: the fault of the first read is kept.
OldSequenceKeepsFault(f) ==
    /\ job' = Job("old", Initial) /\ todo' = For(Initial, <<"reset", "idcode">>)
    /\ fault' = f

OldSequence(f) ==
    /\ job' = Job("old", Initial) /\ todo' = For(Initial, <<"reset", "idcode">>)
    /\ fault' = [f EXCEPT ![Initial] = FALSE]

ScanJobs == {"first", "old", "id", "pick", "init"}

\* An exception, with f the faults at that point; noise tells it from a port that is not there.
Raised(f, noise) ==
    \/ job.name = "first" /\ OldSequence(f) /\ UNCHANGED <<list, cur, wait, scan>>
    \/ /\ job.name = "pick" /\ fault' = f
       /\ job' = Job("loop", Nobody) /\ todo' = <<>>
       /\ scan' = [next |-> scan.next + 1, trouble |-> scan.trouble \/ noise]
       /\ UNCHANGED <<list, cur, wait>>
    \/ /\ job.name \in {"old", "id", "init"} /\ fault' = f
       /\ Scanned(TRUE) /\ UNCHANGED <<list, cur, wait>>
    \/ /\ job.name \notin ScanJobs /\ fault' = f
       /\ job' = Idle /\ todo' = <<>> /\ list' = <<>> /\ cur' = Nobody /\ wait' = "no"
       /\ UNCHANGED scan

-----------------------------------------------------------------------------
(***************************************************************************)
(* low_access.  An AP access is not made while dp->fault is set.           *)
(***************************************************************************)
Skip ==
    /\ Step /\ kind \in ApAccess /\ fault[dp]
    /\ job' = [job EXCEPT !.bad = TRUE, !.late = @ \/ dp \in late]
    /\ UNCHANGED <<bus, fault, list, cur, wait, scan, reply, wrong, late>>

Access == todo # <<>> /\ kind \in Answered /\ ~(kind \in ApAccess /\ fault[dp])

Trouble == trouble < MaxTrouble /\ trouble' = trouble + 1

\* What a transaction does when it succeeds.
Done(s, k) ==
    /\ core' = IF k \in {"halt", "run"} THEN [core EXCEPT ![s] = k] ELSE core
    /\ rdbuf' = IF k = "read" THEN [rdbuf EXCEPT ![s] = core[s]] ELSE rdbuf

\* ACK OK.  A transaction may fail, or go on after the acknowledgement.
AckOk ==
    /\ Access /\ Step /\ sel # Nobody
    /\ kind \in Always \/ (busy[sel] = "no" /\ ~sticky[sel])
    /\ \/ kind \in Transactions /\ Done(sel, kind) /\ UNCHANGED <<sticky, busy, trouble, job, scan>>
       \/ /\ kind \in Transactions /\ Trouble
          /\ sticky' = [sticky EXCEPT ![sel] = TRUE]
          /\ job' = [job EXCEPT !.bad = TRUE] /\ scan' = [scan EXCEPT !.trouble = TRUE]
          /\ UNCHANGED <<busy, core, rdbuf>>
       \/ /\ kind \in Transactions /\ Trouble
          /\ busy' = [busy EXCEPT ![sel] = kind] /\ scan' = [scan EXCEPT !.trouble = TRUE]
          /\ UNCHANGED <<sticky, core, rdbuf, job>>
       \/ /\ kind = "abort"
          /\ sticky' = [sticky EXCEPT ![sel] = @ /\ ~job.err]
          /\ UNCHANGED <<busy, core, rdbuf, trouble, job, scan>>
       \/ /\ kind \notin Transactions \cup {"abort"}
          /\ job' = CASE kind = "ctrlstat" ->
                             [job EXCEPT !.err = sticky[sel], !.late = @ \/ busy[sel] # "no"]
                      [] kind = "rdbuff"   -> [job EXCEPT !.val = rdbuf[sel]]
                      [] OTHER             -> job
          /\ UNCHANGED <<sticky, busy, core, rdbuf, trouble, scan>>
    /\ wrong' = (wrong \/ (job.name \notin ScanJobs /\ sel # dp))
    /\ UNCHANGED <<chip, sel, fault, list, cur, wait, reply, late>>

AckFault ==
    /\ Access /\ Step /\ sel # Nobody
    /\ kind \notin Always /\ busy[sel] = "no" /\ sticky[sel]
    /\ fault' = [fault EXCEPT ![dp] = TRUE]
    /\ job' = [job EXCEPT !.bad = TRUE]
    /\ UNCHANGED <<bus, list, cur, wait, scan, reply, wrong, late>>

\* ACK WAIT for 20 ms: the transaction is aborted, whether it had its effect or not.
WaitTimeout ==
    /\ Access /\ Step /\ sel # Nobody
    /\ kind \notin Always /\ busy[sel] # "no"
    /\ busy' = [busy EXCEPT ![sel] = "no"]
    /\ Done(sel, busy[sel]) \/ UNCHANGED <<core, rdbuf>>
    /\ fault' = [fault EXCEPT ![dp] = TRUE]
    /\ job' = [job EXCEPT !.bad = TRUE, !.late = TRUE]
    /\ late' = late \cup {dp}
    /\ UNCHANGED <<chip, sel, sticky, trouble, list, cur, wait, scan, reply, wrong>>

\* A transaction ends, well or not, before the next access is given up.
Settle ==
    /\ \E d \in DPs :
        /\ busy[d] # "no"
        /\ busy' = [busy EXCEPT ![d] = "no"]
        /\ \/ Done(d, busy[d]) /\ UNCHANGED <<sticky, job>>
           \/ /\ sticky' = [sticky EXCEPT ![d] = TRUE]
              /\ job' = [job EXCEPT !.bad = @ \/ job.d = d] /\ UNCHANGED <<core, rdbuf>>
    /\ UNCHANGED <<chip, sel, trouble, fault, list, cur, wait, todo, scan, reply, wrong, late>>

\* Any other acknowledgement, which is what a port that is not selected gives.
InvalidAck ==
    /\ Access
    /\ \/ sel = Nobody /\ UNCHANGED <<sel, trouble>>
       \/ sel # Nobody /\ Trouble /\ sel' \in {sel} \cup (IF chip.v2 THEN {Nobody} ELSE {})
    /\ Raised(fault, sel # Nobody)
    /\ UNCHANGED <<chip, sticky, busy, core, rdbuf, reply, wrong, late>>

ParityError ==
    /\ Access /\ kind \in {"idcode", "ctrlstat", "idr", "read", "rdbuff"}
    /\ sel # Nobody /\ Trouble
    /\ kind \in Always \/ (busy[sel] = "no" /\ ~sticky[sel])
    /\ Raised([fault EXCEPT ![dp] = TRUE], TRUE)
    /\ UNCHANGED <<chip, sel, sticky, busy, core, rdbuf, reply, wrong, late>>

-----------------------------------------------------------------------------
(***************************************************************************)
(* Steps without an answer.  After a line reset any port of a multi-drop   *)
(* bus may be the one that answers, until TARGETSEL.                       *)
(***************************************************************************)
dp_line_reset ==
    /\ Step /\ kind = "reset"
    /\ sel' \in IF chip.v2 THEN chip.dps \cup {Nobody} ELSE chip.dps
    /\ UNCHANGED <<chip, sticky, busy, core, rdbuf, trouble, fault, list, cur, wait, job, scan, reply, wrong, late>>

dp_low_write ==
    /\ Step /\ kind = "targetsel"
    /\ sel' = IF dp \in chip.dps THEN dp ELSE Nobody
    /\ UNCHANGED <<chip, sticky, busy, core, rdbuf, trouble, fault, list, cur, wait, job, scan, reply, wrong, late>>

Error ==
    /\ todo # <<>> /\ kind = "error"
    /\ todo' = firmware_swdp_error(dp) \o Tail(todo)
    /\ UNCHANGED <<bus, fault, list, cur, wait, job, scan, reply, wrong, late>>

Clear ==
    /\ Step /\ kind = "clear"
    /\ fault' = [fault EXCEPT ![dp] = FALSE] /\ late' = late \ {dp}
    /\ UNCHANGED <<bus, list, cur, wait, job, scan, reply, wrong>>

(***************************************************************************)
(* The decisions of adiv5_dp_init.  An AP without an IDR ends it; so does  *)
(* a fault while it is probed, and then the targets are resumed, those of  *)
(* ports found earlier too.                                                *)
(***************************************************************************)
NewAp ==
    /\ todo # <<>> /\ kind = "new_ap"
    /\ \/ fault[dp] /\ NextDp
       \/ ~fault[dp] /\ Step /\ UNCHANGED <<job, scan>>
       \/ fault[dp] /\ sel # Nobody /\ ~sticky[sel] /\ Step /\ UNCHANGED <<job, scan>>
    /\ UNCHANGED <<bus, fault, list, cur, wait, reply, wrong, late>>

Cidr ==
    /\ todo # <<>> /\ kind = "cidr"
    /\ todo' = IF fault[dp] THEN << <<"release", dp>> >> ELSE Tail(todo)
    /\ UNCHANGED <<bus, fault, list, cur, wait, job, scan, reply, wrong, late>>

\* cortexm_probe adds the target and resumes it, unless its ID could not be read.
Probed ==
    /\ todo # <<>> /\ kind = "probed"
    /\ \/ fault[dp] /\ todo' = Tail(todo) /\ UNCHANGED list
       \/ ~fault[dp] /\ todo' = MemWrite(dp, "run") \o Tail(todo) /\ list' = Append(list, dp)
    /\ UNCHANGED <<bus, fault, cur, wait, job, scan, reply, wrong, late>>

\* The write to DHCSR that resumes a core, for each target of the list in turn.
ResumeAll ==
    LET write == <<"select", "reg", "run">>
    IN [i \in 1..3 * Len(list) |->
            <<write[((i - 1) % 3) + 1], list[((i - 1) \div 3) + 1]>>]

Release ==
    /\ todo # <<>> /\ kind = "release"
    /\ todo' = ResumeAll
    /\ UNCHANGED <<bus, fault, list, cur, wait, job, scan, reply, wrong, late>>

-----------------------------------------------------------------------------
(***************************************************************************)
(* adiv5_swdp_scan.                                                        *)
(***************************************************************************)
Ended(name) == job.name = name /\ todo = <<>>

CanCommand == job = Idle /\ wait = "no"

\* With a target ID the read of IDCODE without a selection is left out.
StartScan(given) ==
    /\ CanCommand /\ (given => chip.v2)
    /\ list' = <<>> /\ cur' = Nobody /\ late' = {}
    /\ fault' = [d \in DPs \cup {Initial} |-> FALSE]
    /\ scan' = [next |-> 0, trouble |-> \E d \in DPs : sticky[d] \/ busy[d] # "no"]
    /\ IF given THEN job' = Job("loop", Nobody) /\ todo' = <<>>
       ELSE job' = Job("first", Initial) /\ todo' = For(Initial, <<"reset", "idcode">>)
    /\ UNCHANGED <<bus, wait, reply, wrong>>

\* IDCODE is always acknowledged, so that the read fails with an exception or not at all.
\* On DPv2 TARGETID is read, and the rescue port of an RP2040 released.
IdcodeRead ==
    /\ Ended("first") \/ Ended("old")
    /\ \/ /\ chip.v2 /\ job' = Job("id", Initial)
          /\ \/ todo' = For(Initial, <<"select", "ctrlstat", "select">>)
             \/ todo' = For(Initial, <<"select", "ctrlstat", "select", "ctrlw">>)
       \/ ~chip.v2 /\ job' = Job("loop", Nobody) /\ UNCHANGED todo
    /\ UNCHANGED <<bus, fault, list, cur, wait, scan, reply, wrong, late>>

TargetIdRead ==
    /\ Ended("id") /\ job' = Job("loop", Nobody)
    /\ UNCHANGED <<bus, fault, list, cur, wait, todo, scan, reply, wrong, late>>

ScanLoop ==
    /\ job.name = "loop"
    /\ \/ /\ scan.next < NrDps /\ chip.v2
          /\ job' = Job("pick", scan.next) /\ todo' = Reselect(scan.next, Initial)
          /\ UNCHANGED <<fault, scan>>
       \/ /\ scan.next = 0 /\ ~chip.v2
          /\ job' = Job("init", 0) /\ todo' = adiv5_dp_init(0)
          /\ fault' = [fault EXCEPT ![0] = fault[Initial]] /\ UNCHANGED scan
       \/ scan.next = (IF chip.v2 THEN NrDps ELSE 1) /\ Scanned(FALSE) /\ UNCHANGED fault
    /\ UNCHANGED <<bus, list, cur, wait, reply, wrong, late>>

\* The new DP is a copy of initial_dp.
Picked ==
    /\ Ended("pick")
    /\ \/ fault[Initial] /\ NextDp /\ UNCHANGED fault
       \/ /\ ~fault[Initial]
          /\ fault' = [fault EXCEPT ![job.d] = fault[Initial]]
          /\ job' = Job("init", job.d) /\ todo' = adiv5_dp_init(job.d) /\ UNCHANGED scan
    /\ UNCHANGED <<bus, list, cur, wait, reply, wrong, late>>

DpDone ==
    /\ Ended("init") /\ NextDp
    /\ UNCHANGED <<bus, fault, list, cur, wait, reply, wrong, late>>

ScanDone ==
    /\ job.name = "scanned" /\ job' = Idle
    /\ UNCHANGED <<bus, fault, list, cur, wait, todo, scan, reply, wrong, late>>

-----------------------------------------------------------------------------
(***************************************************************************)
(* A session.                                                              *)
(***************************************************************************)
Begin(name, d, accesses) == job' = Job(name, d) /\ todo' = accesses

Call(d) == For(d, <<"error">>)

\* Mutant: the attach does not force the selection of the port.
AttachUnforced(d) ==
    /\ CanCommand /\ d \in Range(list)
    /\ Begin("attach", d, Call(d) \o Call(d) \o MemWrite(d, "halt") \o MemWrite(d, "write") \o MemRead(d))
    /\ cur' = IF cur = d THEN Nobody ELSE cur
    /\ UNCHANGED <<bus, fault, list, wait, scan, reply, wrong, late>>

\* cortexm_attach: fault is set so that the first check selects the port.
Attach(d) ==
    /\ CanCommand /\ d \in Range(list)
    /\ fault' = [fault EXCEPT ![d] = TRUE]
    /\ Begin("attach", d, Call(d) \o Call(d) \o MemWrite(d, "halt") \o MemWrite(d, "write") \o MemRead(d))
    /\ cur' = IF cur = d THEN Nobody ELSE cur
    /\ UNCHANGED <<bus, list, wait, scan, reply, wrong, late>>

\* The attach fails if the target is still held in reset after a second; the reads of
\* DHCSR in that loop do nothing that the one at the end of Attach does not.
Attached ==
    /\ Ended("attach") /\ job' = Idle /\ cur' \in {job.d, Nobody}
    /\ UNCHANGED <<bus, fault, list, wait, todo, scan, reply, wrong, late>>

\* Packets of the current target: 'm' and 'M' check for errors, 'g' does not.
Packet ==
    /\ CanCommand /\ cur # Nobody
    /\ \/ Begin("mem", cur, MemRead(cur) \o Call(cur))
       \/ Begin("mem", cur, MemWrite(cur, "write") \o Call(cur))
       \/ Begin("regs", cur, MemWrite(cur, "write") \o MemRead(cur))
       \/ Begin("reset", cur, MemRead(cur) \o MemRead(cur) \o MemWrite(cur, "halt") \o MemRead(cur)
                                \o MemWrite(cur, "write") \o Call(cur))
       \/ Begin("detach", cur, MemWrite(cur, "write") \o MemWrite(cur, "run"))
    /\ UNCHANGED <<bus, fault, list, cur, wait, scan, reply, wrong, late>>

PacketDone ==
    /\ job.name \in {"mem", "regs", "reset", "detach", "stop"} /\ todo = <<>>
    /\ job' = Idle
    /\ reply' = IF job.name = "mem" THEN [bad |-> job.bad, late |-> job.late, err |-> job.err] ELSE reply
    /\ cur' = IF job.name = "detach" THEN Nobody ELSE cur
    /\ UNCHANGED <<bus, fault, list, wait, todo, scan, wrong, late>>

\* 'c': resume, then poll until the core is halted, looking at the host in between.
Continue ==
    /\ CanCommand /\ cur # Nobody
    /\ Begin("resume", cur, MemWrite(cur, "run")) /\ wait' = "poll"
    /\ UNCHANGED <<bus, fault, list, cur, scan, reply, wrong, late>>

Resumed ==
    /\ job.name \in {"resume", "haltreq"} /\ todo = <<>>
    /\ job' = Idle
    /\ UNCHANGED <<bus, fault, list, cur, wait, todo, scan, reply, wrong, late>>

Poll ==
    /\ wait = "poll" /\ job = Idle
    /\ Begin("poll", cur, MemRead(cur)) /\ wait' = "key"
    /\ UNCHANGED <<bus, fault, list, cur, scan, reply, wrong, late>>

\* Mutant: the test of S_HALT is inverted.
PollDoneInverted ==
    /\ Ended("poll")
    /\ \/ job.val = "halt" /\ job' = Idle /\ UNCHANGED <<todo, wait>>
       \/ /\ job.val = "run" /\ wait' = "no"
          /\ Begin("stop", cur, MemRead(cur) \o MemWrite(cur, "write"))
    /\ UNCHANGED <<bus, fault, list, cur, scan, reply, wrong, late>>

\* DFSR is read and written back; then the stop is reported.
PollDone ==
    /\ Ended("poll")
    /\ \/ job.val = "run" /\ job' = Idle /\ UNCHANGED <<todo, wait>>
       \/ /\ job.val = "halt" /\ wait' = "no"
          /\ Begin("stop", cur, MemRead(cur) \o MemWrite(cur, "write"))
    /\ UNCHANGED <<bus, fault, list, cur, scan, reply, wrong, late>>

LookAtHost ==
    /\ wait = "key" /\ job = Idle /\ wait' = "poll"
    /\ \/ Begin("haltreq", cur, MemWrite(cur, "halt"))
       \/ UNCHANGED <<job, todo>>
    /\ UNCHANGED <<bus, fault, list, cur, scan, reply, wrong, late>>

\* The core reaches a breakpoint.
CoreHalts ==
    /\ wait # "no" /\ core[cur] = "run"
    /\ core' = [core EXCEPT ![cur] = "halt"]
    /\ UNCHANGED <<chip, sel, sticky, busy, rdbuf, trouble, fault, list, cur, wait, job, todo, scan, reply, wrong, late>>

-----------------------------------------------------------------------------
AccessStep ==
    \/ Skip \/ AckOk \/ AckFault \/ WaitTimeout \/ InvalidAck \/ ParityError
    \/ dp_line_reset \/ dp_low_write \/ Error \/ Clear \/ NewAp \/ Cidr \/ Probed \/ Release

ServerStep ==
    \/ AccessStep
    \/ IdcodeRead \/ TargetIdRead \/ ScanLoop \/ Picked \/ DpDone \/ ScanDone
    \/ Attached \/ PacketDone \/ Resumed \/ Poll \/ PollDone \/ LookAtHost

Next ==
    \/ ServerStep
    \/ Settle \/ CoreHalts
    \/ \E given \in BOOLEAN : StartScan(given)
    \/ \E d \in DPs : Attach(d)
    \/ Packet \/ Continue

Spec == Init /\ [][Next]_vars

\* The GDB task goes on; nothing is assumed of the target, the host or the user.
FairSpec == Spec /\ WF_vars(ServerStep)

-----------------------------------------------------------------------------
TypeOK ==
    /\ sel \in DPs \cup {Nobody} /\ sticky \in [DPs -> BOOLEAN]
    /\ busy \in [DPs -> Transactions \cup {"no"}]
    /\ core \in [DPs -> {"run", "halt"}] /\ rdbuf \in [DPs -> {"run", "halt"}]
    /\ fault \in [DPs \cup {Initial} -> BOOLEAN] /\ late \subseteq DPs \cup {Initial}
    /\ list \in Seq(DPs) /\ cur \in DPs \cup {Nobody} /\ wait \in {"poll", "key", "no"}
    /\ reply \in [bad : BOOLEAN, late : BOOLEAN, err : BOOLEAN]
    /\ scan.trouble \in BOOLEAN /\ wrong \in BOOLEAN /\ trouble \in 0..MaxTrouble

(***************************************************************************)
(* A memory packet is answered with an error exactly when one of its       *)
(* accesses failed or was not made, although errors are posted, kept in    *)
(* the port, kept in dp->fault and shared with the packets before it.      *)
(* What goes wrong is an access that timed out: the port knows no error,   *)
(* and what was not read is answered as data.                              *)
(***************************************************************************)
ReportIsExact == (reply.err => reply.bad) /\ (reply.bad => reply.err \/ reply.late)

(***************************************************************************)
(* On a multi-drop bus no access of a session is answered by the port of   *)
(* another target, whatever the scan selected last and whichever target    *)
(* was attached before.                                                    *)
(***************************************************************************)
SessionOnItsDp == ~wrong

(***************************************************************************)
(* A scan finds every port, and leaves the cores running, unless an access *)
(* failed after the first IDCODE, no port answered without a selection, or *)
(* a port was left with an error: then no later scan finds it either.      *)
(***************************************************************************)
ScanFindsAll ==
    job.name = "scanned" /\ ~scan.trouble =>
        /\ Range(list) = chip.dps
        /\ \A d \in chip.dps : core[d] = "run"

(***************************************************************************)
(* The wait for a halt does not go on for ever with the core halted,       *)
(* unless dp->fault is set: neither the poll nor the halt request checks   *)
(* for errors, so a fault is never cleared and every read is left out.     *)
(***************************************************************************)
HaltNoticed == []<>(wait = "no" \/ core[cur] = "run" \/ fault[cur])
=============================================================================
