----------------------------- MODULE FlashChips -----------------------------
(***************************************************************************)
(* The flash drivers of the target chips: what f->erase, f->write and the  *)
(* commands for mass erase and option bytes do to the flash controller of  *)
(* the chip, over a debug link that may fail at any access, and the        *)
(* packets that call them.  The drivers are sequences of steps (module     *)
(* FlashDrivers); the actions here are the steps.                          *)
(*                                                                         *)
(* The link is what SwdAccess shows it to be: after a fault every access   *)
(* is void (a write does nothing, a read gives 0, or what was read last    *)
(* after a timeout) until target_check_error, which reports a bus fault    *)
(* and forgets a timeout.  The controllers are external.  Units are what   *)
(* one erase command erases; a write programs one unit.                    *)
(***************************************************************************)
EXTENDS FlashDrivers

CONSTANTS
    Families,    \* the drivers to check
    Units,       \* number of units of the chip
    BankStart,   \* first unit of the second bank of a dual bank STM32G0
    MaxLen,      \* bound on the units of one load
    MaxTrouble   \* bound on link faults, exceptions and failed commands

ASSUME ChipsAssumption ==
    /\ Units \in Nat /\ BankStart \in 0..Units
    /\ MaxLen \in 1..Units /\ MaxTrouble \in Nat

VARIABLES
    family,      \* the driver in use
    chip,        \* the controller: lock, mode, command under way, flags
    mem,         \* contents of each unit
    opt,         \* contents of the option bytes, and what happened while they were written
    link,        \* "ok", "fault" (sticky error) or "timeout" in dp->fault
    call,        \* the driver function that runs
    load,        \* the load GDB is doing, and what happened during it
    flash_mode,  \* tc->flash_mode
    trouble

vars == <<family, chip, mem, opt, link, call, load, flash_mode, trouble>>

Unit == 0..Units - 1
\* Where a load may start: only the STM32G0 driver tells the units apart.
Starts == IF family = "stm32g0" THEN Unit ELSE {0}
Span(a, n) == a..a + n - 1

\* Every failure of a command is visible to these drivers.  The others do not look
\* at the error flags, or not at all of them (MGSTAT0 of the Kinetis), or read them
\* twice although the first read clears them (SAM3X, SAM4S).
Flagged == {"stm32f1", "stm32f4", "stm32l0", "stm32l0_data", "stm32l4", "stm32g0", "stm32h7",
            "samx5x", "lpc", "msp432"}
ClearsOnRead == {"sam3x", "sam4s"}
NeedsUnlock == {"stm32f1", "stm32f4", "stm32l0", "stm32l0_data", "stm32l4", "stm32g0", "stm32h7",
                "samd", "samx5x", "msp432"}
NeedsMode == {"stm32f1", "stm32f4", "stm32l0", "stm32l0_data", "stm32l4",
              "stm32g0", "stm32h7", "nrf51", "rp"}
\* The controller of these keeps EOP and errors until they are cleared.
KeepsFlags == {"stm32f1", "stm32f4", "stm32l0", "stm32l0_data", "stm32l4", "stm32g0", "stm32h7", "samx5x"}

NoJob == [kind |-> "none", units |-> {}, words |-> {}, kept |-> "old"]
AfterReset == [locked |-> TRUE, optlock |-> TRUE, mode |-> "read", job |-> NoJob, err |-> FALSE, eop |-> FALSE]

Zero == [busy |-> FALSE, ready |-> FALSE, err |-> FALSE, eop |-> FALSE]
NoCall == [op |-> "none", from |-> 0, n |-> 0, k |-> 0, todo |-> <<>>, ok |-> TRUE,
           seen |-> Zero, met |-> {}, buf |-> "new", kept |-> "old", rdprt |-> FALSE]
NoLoad == [phase |-> "none", from |-> 0, n |-> 0, w |-> 0, met |-> {}, retry |-> TRUE]
\* The word a command is asked to change, the words it has to keep, and the troubles
\* of the last command.
OldOptions == [asked |-> "old", kept |-> "old", met |-> {}]

Init ==
    /\ family \in Families
    /\ chip = AfterReset
    /\ mem = [u \in Unit |-> "old"]
    /\ opt = OldOptions
    /\ link = "ok"
    /\ call = NoCall
    /\ load = NoLoad
    /\ flash_mode = FALSE
    /\ trouble = 0

-----------------------------------------------------------------------------

(***************************************************************************)
(* The unit the k-th command of an erase addresses.  The STM32G0 driver    *)
(* goes to the first page of bank 2 when the page is in bank 2 and it has  *)
(* not been there yet, also if the erase starts there; the MSP432 driver   *)
(* never advances the address.                                             *)
(***************************************************************************)
Selected(a, k) ==
    CASE family = "stm32g0" /\ a >= BankStart -> BankStart + k
      [] family = "msp432" -> a
      [] OTHER -> a + k

-----------------------------------------------------------------------------
Running == call.todo # <<>>
Step(s) == Running /\ Head(call.todo) = s
Advance == [call EXCEPT !.todo = Tail(@)]
Quit == [call EXCEPT !.todo = Cleanup(family, call.op),
                     !.ok = Silent(family, call.op) /\ ~(family = "stm32f1" /\ Step("unlocked"))]

Idle == chip.job = NoJob

\* What a read of the status register gives.
Status == [busy |-> ~Idle, ready |-> Idle, err |-> chip.err, eop |-> chip.eop]
Reads == CASE link = "ok" -> {Status}
           [] link = "fault" -> {Zero}
           [] link = "timeout" -> {call.seen}

\* target_check_error: a timeout is forgotten, not reported.
CheckError == link' = "ok"
Reported == link = "fault"

(***************************************************************************)
(* Writes to the registers of the controller go through also while it is   *)
(* busy; the command under way is not affected.  A new command, or a read  *)
(* of the option bytes in flash, stalls the bus until it is idle.          *)
(***************************************************************************)
Written(s) ==
    CASE s = "unlock" -> [chip EXCEPT !.locked = FALSE]
      [] s = "lock" -> [chip EXCEPT !.locked = TRUE, !.optlock = TRUE]
      [] s = "optkey" -> [chip EXCEPT !.optlock = @ /\ chip.locked /\ family # "stm32f4"]
      [] s = "optlock" -> [chip EXCEPT !.optlock = TRUE]
      [] s \in {"erase", "program", "read", "command", "opter", "optpg"} ->
            IF chip.locked /\ family \in NeedsUnlock THEN chip ELSE [chip EXCEPT !.mode = s]
      [] s = "clear" -> [chip EXCEPT !.err = FALSE, !.eop = FALSE]
      [] s = "clear_err" -> [chip EXCEPT !.err = FALSE]
      [] s = "clear_eop" -> [chip EXCEPT !.eop = FALSE]

WriteRegister ==
    \E s \in {"unlock", "lock", "optkey", "optlock", "erase", "program", "read", "command",
              "opter", "optpg", "clear", "clear_err", "clear_eop"} :
        /\ Step(s)
        /\ chip' = IF link = "ok" THEN Written(s) ELSE chip
        /\ call' = Advance
        /\ UNCHANGED <<family, mem, opt, link, load, flash_mode, trouble>>

\* The DSU erases the SAM D and E5x without the NVM controller, and their user row
\* has no lock of its own.
Accepts(kind) ==
    \/ Step("start_all") /\ family \in {"samd", "samx5x"}
    \/ /\ kind \in {"erase", "program"}
       /\ family \in NeedsUnlock => ~chip.locked
       /\ family \in NeedsMode => chip.mode \in {kind, "command"}
    \/ /\ kind \in {"opter", "optpg", "optstrt"}
       /\ ~chip.optlock \/ family \in {"samd", "samx5x"}
       /\ family \in {"stm32f1", "stm32l0"} => chip.mode = kind

\* A command is refused with an error, and may be while old errors are set.
Command(s, kind, units, words) ==
    /\ Step(s)
    /\ link = "ok" => Idle
    /\ call' = [Advance EXCEPT !.k = @ + 1]
    /\ IF link # "ok" \/ call.buf = "lost" THEN UNCHANGED chip
       ELSE \E accepted \in BOOLEAN :
              /\ accepted => Accepts(kind)
              /\ ~accepted => ~Accepts(kind) \/ (chip.err /\ family \in KeepsFlags)
              /\ chip' = IF accepted
                         THEN [chip EXCEPT !.job = [kind |-> IF call.buf = "new" THEN kind ELSE "garbage",
                                                    units |-> units, words |-> words, kept |-> call.kept],
                                           !.eop = @ /\ family \in KeepsFlags,
                                           !.err = @ /\ family \in KeepsFlags]
                         ELSE [chip EXCEPT !.err = TRUE]
    /\ UNCHANGED <<family, mem, opt, link, load, flash_mode, trouble>>

StartErase == Command("start", "erase", {Selected(call.from, call.k)} \cap Unit, {})
StartRange == Command("start_range", "erase", Span(call.from, call.n), {})
StartAll == Command("start_all", "erase", Unit, {})
Program == Command("data", "program", {call.from}, {})

EraseOptions == Command("opt_erase", "opter", {}, {"asked", "kept"})
ProgramOptions ==
    \/ \E w \in {"asked", "kept"} : Command(w, "optpg", {}, {w})
    \/ Command("opt_page", "optpg", {}, {"asked", "kept"})
CommitOptions == Command("opt_commit", "optstrt", {}, {"asked", "kept"})

\* Over a void link the words to keep are read wrong, and the word to change may
\* seem to have its new value already.
ReadOptions ==
    /\ Step("opt_read")
    /\ link = "ok" => Idle \/ family = "stm32l4"   \* reads registers that shadow them
    /\ call' = [Advance EXCEPT !.kept = IF link = "ok" THEN opt.kept ELSE "wrong"]
    /\ UNCHANGED <<family, chip, mem, opt, link, load, flash_mode, trouble>>

CompareOptions ==
    /\ Step("opt_same")
    /\ \/ call' = Advance
       \/ call.kept = "wrong" /\ call' = [call EXCEPT !.todo = <<>>]
    /\ UNCHANGED <<family, chip, mem, opt, link, load, flash_mode, trouble>>

\* OBL_LAUNCH loads the option bytes with a reset of the chip.
LaunchOptions ==
    /\ Step("obl")
    /\ chip' = IF link = "ok" /\ ~chip.optlock THEN AfterReset ELSE chip
    /\ call' = Advance
    /\ UNCHANGED <<family, mem, opt, link, load, flash_mode, trouble>>

\* target_reset, as in vFlashErase below.
ResetTarget ==
    /\ Step("reset")
    /\ \E resets \in BOOLEAN :
         /\ link = "ok" => resets
         /\ chip' = IF resets THEN AfterReset ELSE chip
    /\ link' = "ok"
    /\ call' = Advance
    /\ UNCHANGED <<family, mem, opt, load, flash_mode, trouble>>

(***************************************************************************)
(* A transfer that a fault made void leaves what was there before.  Where  *)
(* code or its parameters are transferred too, the core may run away.      *)
(***************************************************************************)
RunsCode == {"efm32", "lmi", "lpc"}

Transfer ==
    /\ Step("buffer")
    /\ \E lost \in BOOLEAN :
         /\ lost => link # "ok" /\ family \in RunsCode
         /\ call' = IF link = "ok"
                    THEN [Advance EXCEPT !.buf = IF call.op = "option" THEN "new" ELSE @]
                    ELSE [Advance EXCEPT !.buf = IF lost THEN "lost" ELSE "old"]
    /\ UNCHANGED <<family, chip, mem, opt, link, load, flash_mode, trouble>>

(***************************************************************************)
(* The polling loops, one round each.                                      *)
(***************************************************************************)
Polled(v) == [Advance EXCEPT !.seen = v]
Again(v) == [call EXCEPT !.seen = v]

\* while (read & BSY) if (target_check_error(t)) return -1;
PollBusy ==
    /\ Step("busy")
    /\ \E v \in Reads :
         IF v.busy THEN CheckError /\ call' = IF Reported THEN Quit ELSE Again(v)
         ELSE UNCHANGED link /\ call' = Polled(v)
    /\ UNCHANGED <<family, chip, mem, opt, load, flash_mode, trouble>>

\* do { sr = read; if (target_check_error(t)) return -1; } while (sr & BSY);
PollBusyChecked ==
    /\ Step("busy_checked")
    /\ \E v \in Reads : call' = IF Reported THEN Quit ELSE IF v.busy THEN Again(v) ELSE Polled(v)
    /\ CheckError
    /\ UNCHANGED <<family, chip, mem, opt, load, flash_mode, trouble>>

\* do { sr = read; } while (sr & BSY);
PollBusyOnly ==
    /\ Step("busy_only")
    /\ \E v \in Reads : call' = IF v.busy THEN Again(v) ELSE Polled(v)
    /\ UNCHANGED <<family, chip, mem, opt, link, load, flash_mode, trouble>>

\* while (!(read & READY)) if (target_check_error(t)) return -1;
\* ready_err: ... if (target_check_error(t) || error flags) return -1;
\* done: while (!(read & (DONE | FAIL))) ...
PollReady ==
    /\ Step("ready") \/ Step("ready_err") \/ Step("done")
    /\ \E v \in Reads :
         IF (v.ready /\ ~Step("done")) \/ (Step("done") /\ (v.eop \/ v.err)) THEN UNCHANGED link /\ call' = Polled(v)
         ELSE /\ CheckError
              /\ call' = IF Reported \/ (Step("ready_err") /\ chip.err) THEN Quit ELSE Again(v)
    /\ chip' = IF link = "ok" /\ family \in ClearsOnRead THEN [chip EXCEPT !.err = FALSE] ELSE chip
    /\ UNCHANGED <<family, mem, opt, load, flash_mode, trouble>>

\* do { fstat = read; [if (errors) return false;] } while (!(fstat & CCIF));
PollSpin ==
    /\ Step("spin") \/ Step("spin_err")
    /\ \E v \in Reads :
         call' = IF Step("spin_err") /\ v.err THEN Quit ELSE IF v.ready THEN Polled(v) ELSE Again(v)
    /\ UNCHANGED <<family, chip, mem, opt, link, load, flash_mode, trouble>>

\* A loop with a limit, which only a void link reaches.
PollBounded ==
    /\ Step("ready_bounded")
    /\ \E v \in Reads :
         call' = IF v.ready THEN Polled(v) ELSE IF link = "ok" THEN Again(v) ELSE Quit
    /\ UNCHANGED <<family, chip, mem, opt, link, load, flash_mode, trouble>>

(***************************************************************************)
(* Waiting for code that runs on the target.  cortexm_run_stub and         *)
(* rp_rom_call give up after a time, and the latter's callers may go on    *)
(* all the same; lpc_iap_call and msp432_call_ROM wait for ever.           *)
(***************************************************************************)
WaitHalted ==
    \/ /\ Step("stub") \/ Step("rom") \/ Step("iap") \/ Step("rom_ignored")
       /\ link = "ok" /\ Idle /\ call.buf # "lost"
       /\ call' = Advance
       /\ UNCHANGED <<family, chip, mem, opt, link, load, flash_mode, trouble>>
    \/ /\ Step("stub") \/ Step("rom") \/ Step("rom_ignored")
       /\ link # "ok" \/ call.buf = "lost"
       /\ call' = IF Step("rom_ignored") THEN Advance ELSE Quit
       /\ UNCHANGED <<family, chip, mem, opt, link, load, flash_mode, trouble>>
    \/ /\ Step("stub") \/ Step("rom") \/ Step("iap")
       /\ link = "timeout"   \* an old value of DHCSR says it has halted
       /\ call' = Advance
       /\ UNCHANGED <<family, chip, mem, opt, link, load, flash_mode, trouble>>

(***************************************************************************)
(* The tests.                                                              *)
(***************************************************************************)
TestStatus ==
    \E v \in Reads :
        /\ \/ Step("error") /\ call' = IF v.err THEN Quit ELSE Advance
           \/ Step("eop") /\ call' = IF v.err \/ ~v.eop THEN Quit ELSE Advance
           \/ Step("noted") /\ call' = [Advance EXCEPT !.ok = @ /\ v.eop /\ ~v.err]
           \/ Step("seen") /\ call' = IF call.seen.err THEN Quit ELSE Advance
           \/ /\ Step("seen_eop")
              /\ call' = IF call.seen.err \/ ~call.seen.eop THEN Quit ELSE Advance
        /\ UNCHANGED <<family, chip, mem, opt, link, load, flash_mode, trouble>>

\* stm32h7_flash_unlock clears old errors and fails.
TestOldErrors ==
    /\ Step("old_errors")
    /\ \E v \in Reads :
         /\ call' = IF v.err THEN Quit ELSE Advance
         /\ chip' = IF v.err /\ link = "ok" THEN [chip EXCEPT !.err = FALSE] ELSE chip
    /\ UNCHANGED <<family, mem, opt, link, load, flash_mode, trouble>>

\* What a test gives: its result, what it makes of zero, or of an old value.
Result(real, ofZero) ==
    CASE link = "ok" -> {real} [] link = "fault" -> {ofZero} [] link = "timeout" -> BOOLEAN

\* samx5x_flash_erase divides by a size that a void link reads as 0.
TestRegister ==
    /\ \E passed \in BOOLEAN :
         /\ \/ Step("unlocked") /\ passed \in Result(~chip.locked, TRUE)
            \/ Step("opt_unlocked") /\ passed \in Result(~chip.optlock, TRUE)
            \/ Step("reads_back") /\ passed \in Result(chip.mode = "erase", FALSE)
            \/ Step("unprotected") /\ passed = ~call.rdprt
            \/ Step("permitted") /\ (link = "ok" => passed)
            \/ /\ Step("blank")
               /\ passed \in Result(\A u \in Span(call.from, call.n) : mem[u] = "blank", TRUE)
         /\ call' = IF passed THEN Advance ELSE Quit
    /\ UNCHANGED <<family, chip, mem, opt, link, load, flash_mode, trouble>>

\* The chip is not read protected.
ReadProtection ==
    /\ Step("rdprt")
    /\ \E unprotected \in Result(TRUE, TRUE) : call' = [Advance EXCEPT !.rdprt = ~unprotected]
    /\ UNCHANGED <<family, chip, mem, opt, link, load, flash_mode, trouble>>

TestLink ==
    /\ \/ Step("check") /\ call' = Advance
       \/ Step("checked") /\ call' = IF Reported THEN Quit ELSE Advance
    /\ CheckError
    /\ UNCHANGED <<family, chip, mem, opt, load, flash_mode, trouble>>

DriverStep ==
    \/ WriteRegister \/ StartErase \/ StartRange \/ StartAll \/ Program \/ Transfer
    \/ EraseOptions \/ ProgramOptions \/ CommitOptions \/ ReadOptions \/ CompareOptions
    \/ LaunchOptions \/ ResetTarget
    \/ PollBusy \/ PollBusyChecked \/ PollBusyOnly \/ PollReady \/ PollSpin \/ PollBounded
    \/ WaitHalted \/ TestStatus \/ TestOldErrors \/ ReadProtection \/ TestRegister \/ TestLink

-----------------------------------------------------------------------------
(***************************************************************************)
(* The controller finishes a command, or gives it up with an error.        *)
(* Programming a unit that is not blank spoils it, with or without error,  *)
(* except by the command of the SAM3X that erases it first.                *)
(***************************************************************************)
Finish(unit) ==
    CASE chip.job.kind = "erase" -> "blank"
      [] chip.job.kind = "program" /\ (mem[unit] = "blank" \/ family = "sam3x") -> "new"
      [] chip.job.kind = "garbage" -> "garbage"
      [] OTHER -> "spoilt"

\* The STM32L0 erases an option word by itself.
FinishWord(word) ==
    CASE chip.job.kind = "opter" -> "blank"
      [] chip.job.kind = "garbage" -> "wrong"
      [] chip.job.kind = "optpg" /\ opt[word] # "blank" /\ family # "stm32l0" -> "wrong"
      [] OTHER -> IF word = "asked" THEN "new" ELSE chip.job.kept

Complete ==
    /\ ~Idle
    /\ opt' = [x \in DOMAIN opt |-> IF x \in chip.job.words THEN FinishWord(x) ELSE opt[x]]
    /\ mem' = [u \in Unit |-> IF u \in chip.job.units THEN Finish(u) ELSE mem[u]]
    /\ \E e \in BOOLEAN :
         /\ e => \/ \E u \in chip.job.units : Finish(u) = "spoilt"
                 \/ \E w \in chip.job.words : FinishWord(w) = "wrong"
         /\ chip' = [chip EXCEPT !.job = NoJob, !.eop = ~e \/ @, !.err = e \/ @]
    /\ UNCHANGED <<family, link, call, load, flash_mode, trouble>>

Meet(what, seen) ==
    /\ call' = [call EXCEPT !.met = @ \union {what}, !.seen = seen]
    /\ load' = [load EXCEPT !.met = @ \union {what}]
    /\ opt' = IF call.op = "option" \/ chip.job.words # {} THEN [opt EXCEPT !.met = @ \union {what}] ELSE opt

CommandFails ==
    /\ ~Idle /\ trouble < MaxTrouble
    /\ chip' = [chip EXCEPT !.job = NoJob, !.err = TRUE]
    /\ Meet("command", call.seen)
    /\ trouble' = trouble + 1
    /\ UNCHANGED <<family, mem, link, flash_mode>>

\* An access ends in a bus fault, or in WAIT for 20 ms (firmware_swdp_low_access):
\* RDBUFF then keeps what was read last, or loses it in the abort.  What was read
\* last may be an option word that looks like a busy controller.
LinkFails(how) ==
    /\ Running /\ link = "ok" /\ trouble < MaxTrouble
    /\ link' = how
    /\ \E old \in {call.seen, Zero, [Zero EXCEPT !.busy = TRUE]} :
         /\ old.busy => call.seen.busy \/ call.op = "option"
         /\ Meet(how, IF how = "timeout" THEN old ELSE call.seen)
    /\ trouble' = trouble + 1
    /\ UNCHANGED <<family, chip, mem, flash_mode>>

\* The target stops answering: the exception ends the session, and a scan follows.
Raise ==
    /\ Running /\ trouble < MaxTrouble
    /\ call' = NoCall
    /\ link' = "ok"
    /\ load' = IF call.op \in {"mass", "option"} THEN load ELSE [load EXCEPT !.phase = "abandoned"]
    /\ opt' = IF call.op = "option" THEN [opt EXCEPT !.met = @ \union {"lost"}] ELSE opt
    /\ trouble' = trouble + 1
    /\ UNCHANGED <<family, chip, mem, flash_mode>>

-----------------------------------------------------------------------------
(***************************************************************************)
(* The packets.                                                            *)
(***************************************************************************)
Call(op, a, n, steps, l) ==
    [NoCall EXCEPT !.op = op, !.from = a, !.n = n, !.met = {l} \ {"ok"},
                   !.todo = steps \o (IF op = "option" THEN <<>> ELSE Cleanup(family, op))]

Resting == call.op = "none"
Returned(op) == call.op = op /\ ~Running

(***************************************************************************)
(* The first vFlashErase resets the target and forgets a link fault        *)
(* (cortexm_reset).  While a fault is pending the reset only happens if    *)
(* the reset line is connected, since AIRCR cannot be written.             *)
(***************************************************************************)
vFlashErase(a, n, resets) ==
    /\ Resting /\ load.phase \in {"none", "abandoned", "failed", "done"}
    /\ Span(a, n) \subseteq Unit
    /\ resets => ~flash_mode
    /\ ~flash_mode /\ link = "ok" => resets
    /\ chip' = IF resets THEN AfterReset ELSE chip
    /\ link' = IF flash_mode THEN link ELSE "ok"
    /\ flash_mode' = TRUE
    /\ call' = Call("erase", a, n, Erase(family, n), link')
    /\ load' = [phase |-> "erasing", from |-> a, n |-> n, w |-> 0,
                met |-> ({link} \ {"ok"}) \union (IF Idle THEN {} ELSE {"command"}),
                retry |-> load.phase # "abandoned"]
    /\ mem' = [u \in Unit |-> "old"]
    /\ opt' = IF chip'.job.words = {} THEN OldOptions ELSE opt
    /\ UNCHANGED <<family, trouble>>

vFlashWrite ==
    /\ Resting /\ load.phase = "writing" /\ load.w < load.n
    /\ call' = Call("write", load.from + load.w, 1, Write(family), link)
    /\ UNCHANGED <<family, chip, mem, opt, link, load, flash_mode, trouble>>

\* EFF ends the load and flash_mode, so the next load starts with a reset.
\* Mutant: flash_mode survives.
FailedKeepsMode == load' = [load EXCEPT !.phase = "failed"] /\ UNCHANGED flash_mode

Failed == load' = [load EXCEPT !.phase = "failed"] /\ flash_mode' = FALSE

EraseReplied ==
    /\ Returned("erase")
    /\ call' = NoCall
    /\ IF call.ok THEN load' = [load EXCEPT !.phase = "writing"] /\ UNCHANGED flash_mode ELSE Failed
    /\ UNCHANGED <<family, chip, mem, opt, link, trouble>>

WriteReplied ==
    /\ Returned("write")
    /\ call' = NoCall
    /\ IF call.ok THEN load' = [load EXCEPT !.w = @ + 1] /\ UNCHANGED flash_mode ELSE Failed
    /\ UNCHANGED <<family, chip, mem, opt, link, trouble>>

vFlashDone ==
    /\ Resting /\ load.phase = "writing" /\ load.w = load.n
    /\ load' = [load EXCEPT !.phase = "done"]
    /\ flash_mode' = FALSE
    /\ UNCHANGED <<family, chip, mem, opt, link, call, trouble>>

\* The session ends between two packets of the load; flash_mode stays.
SessionEnds ==
    /\ Resting /\ load.phase = "writing"
    /\ load' = [load EXCEPT !.phase = "abandoned"]
    /\ UNCHANGED <<family, chip, mem, opt, link, call, flash_mode, trouble>>

\* Other traffic between loads checks the link.
OtherTraffic ==
    /\ Resting /\ load.phase # "writing" /\ link # "ok"
    /\ CheckError
    /\ UNCHANGED <<family, chip, mem, opt, call, load, flash_mode, trouble>>

\* What an earlier load left is of no interest to the commands below, except that
\* it was cut off: the units are relabelled.
Forget ==
    /\ load' = [NoLoad EXCEPT !.phase = IF load.phase = "abandoned" THEN "abandoned" ELSE @]
    /\ mem' = [u \in Unit |-> "old"]

\* monitor erase_mass.  No reset comes first: the controller may still be busy with
\* an abandoned command.
cmd_erase_mass ==
    /\ Resting /\ load.phase # "writing" /\ family \in HasMass
    /\ call' = [Call("mass", 0, Units, EraseMass(family), link) EXCEPT
                  !.met = @ \union (IF Idle THEN {} ELSE {"command"})]
    /\ Forget
    /\ UNCHANGED <<family, chip, opt, link, flash_mode, trouble>>

\* monitor option, lock_flash and the like, without a reset too: the controller may
\* also refuse the command for old errors.
Troubled == ({link} \ {"ok"}) \union (IF Idle /\ ~chip.err THEN {} ELSE {"command"})

cmd_option ==
    /\ Resting /\ load.phase # "writing" /\ family \in HasOptions
    /\ call' = [Call("option", 0, 0, Option(family), link) EXCEPT !.met = Troubled]
    /\ opt' = IF chip.job.words = {} THEN [OldOptions EXCEPT !.met = Troubled] ELSE opt
    /\ Forget
    /\ UNCHANGED <<family, chip, link, flash_mode, trouble>>

CommandReplied ==
    /\ Returned("mass") \/ Returned("option")
    /\ call' = NoCall
    /\ opt' = IF Idle THEN OldOptions ELSE opt
    /\ UNCHANGED <<family, chip, mem, link, load, flash_mode, trouble>>

Next ==
    \/ DriverStep
    \/ Complete \/ CommandFails
    \/ \E how \in {"fault", "timeout"} : LinkFails(how)
    \/ Raise
    \/ \E a \in Starts, n \in 1..MaxLen, resets \in BOOLEAN : vFlashErase(a, n, resets)
    \/ vFlashWrite \/ EraseReplied \/ WriteReplied \/ vFlashDone
    \/ SessionEnds \/ OtherTraffic
    \/ cmd_erase_mass \/ cmd_option \/ CommandReplied

Spec == Init /\ [][Next]_vars

\* The GDB task runs on and the controller finishes what it was told to do.
FairSpec == Spec /\ WF_vars(DriverStep) /\ WF_vars(Complete)

-----------------------------------------------------------------------------
TypeOK ==
    /\ family \in Families
    /\ chip.locked \in BOOLEAN /\ chip.err \in BOOLEAN /\ chip.eop \in BOOLEAN
    /\ chip.mode \in {"read", "erase", "program", "command", "opter", "optpg"}
    /\ chip.job.units \subseteq Unit
    /\ mem \in [Unit -> {"old", "blank", "new", "spoilt", "garbage"}]
    /\ \A w \in {"asked", "kept"} : opt[w] \in {"old", "new", "blank", "wrong"}
    /\ link \in {"ok", "fault", "timeout"} /\ call.buf \in {"new", "old", "lost"}
    /\ load.w \in 0..load.n /\ load.n \in 0..MaxLen
    /\ flash_mode \in BOOLEAN /\ trouble \in 0..MaxTrouble

\* The erases that address other units than they were asked to (see Selected).
Misaddressed(a, n) ==
    \/ family = "stm32g0" /\ a > BankStart
    \/ family = "msp432" /\ n > 1

\* The writes of these ignore the result of target_mem_write, lpc_iap_call too.
Ignoring == {"stm32l0", "stm32l4", "stm32g0", "stm32h7", "nrf51", "samd", "samx5x", "sam3x", "sam4s",
             "efm32", "lmi", "lpc", "msp432", "rp"}

(***************************************************************************)
(* Troubles a driver cannot see: a timeout of the link, which              *)
(* target_check_error forgets; an error of the controller where the driver *)
(* does not look at the flags, or looks at them over a faulted link; a     *)
(* fault that an ignored target_check_error has cleared.                   *)
(***************************************************************************)
Unseen(op, met) ==
    \/ "timeout" \in met
    \/ "command" \in met /\ (family \notin Flagged \/ "fault" \in met)
    \/ "fault" \in met /\ family \in Ignoring /\ (op = "write" \/ family = "lpc")
    \/ op = "mass" /\ "command" \in met /\ family = "samx5x"
    \/ op = "option" /\ met # {} /\ (Silent(family, op) \/ family = "samx5x" \/ "command" \in met)

(***************************************************************************)
(* A driver that returns success has erased or programmed what it was      *)
(* asked to, or the bus fault that kept it from it is still pending for    *)
(* the next call to find.  Not so after the troubles it cannot see, nor    *)
(* for the erase of the SAM3X, which is left to the writes that follow:    *)
(* sectors that are erased and not written keep their contents.            *)
(***************************************************************************)
Sought(op) == IF op = "write" THEN {"new", "spoilt"} ELSE {"blank"}

SuccessIsReal ==
    /\ call.op # "none" /\ ~Running /\ call.ok
    /\ ~Unseen(call.op, call.met) /\ ~Misaddressed(call.from, call.n)
    /\ ~(family = "sam3x" /\ call.op = "erase")
    => \/ link = "fault"
       \/ call.op = "option" /\ opt.asked = "new"
       \/ call.op = "option" /\ "asked" \in chip.job.words
       \/ /\ call.op # "option"
          /\ \A u \in Span(call.from, call.n) : mem[u] \in Sought(call.op) \/ u \in chip.job.units

(***************************************************************************)
(* A load that is answered OK up to vFlashDone is in flash: a fault that   *)
(* one call missed is reported by a later one, except in the drivers that  *)
(* ignore it, and in the last write of the SAM4L driver, which does not    *)
(* wait for its command.                                                   *)
(***************************************************************************)
DoneIsInFlash ==
    /\ load.phase = "done" /\ Resting
    /\ ~Unseen("write", load.met) /\ ~Misaddressed(load.from, load.n)
    /\ ~("fault" \in load.met /\ family = "sam4l")
    => \A u \in Span(load.from, load.n) :
         mem[u] = "new" \/ (family = "sam4l" /\ u \in chip.job.units)

(***************************************************************************)
(* A load that meets no trouble of its own succeeds, whatever an earlier   *)
(* one left in the controller or on the link: the EFF reply ended          *)
(* flash_mode, and the reset of the next vFlashErase clears it all.  Only  *)
(* a load after one that was cut off may fail, for old errors.             *)
(***************************************************************************)
RetrySucceeds ==
    load.phase = "failed" => load.met # {} \/ ~load.retry \/ Misaddressed(load.from, load.n)

(***************************************************************************)
(* A command that changes one option word keeps the others, whatever goes  *)
(* wrong, and when it has returned they are as before.  Where the whole    *)
(* row is erased first, a trouble may lose them; where they are read       *)
(* first, a timeout may.                                                   *)
(***************************************************************************)
Rewriting == {"stm32f1", "samd", "samx5x"}

OptionsKept ==
    call.op # "option" \/ ~Running =>
        \/ opt.kept = "old"
        \/ family \in Rewriting /\ (opt.met # {} \/ "kept" \in chip.job.words)
        \/ family = "stm32l4" /\ "timeout" \in opt.met

(***************************************************************************)
(* Every call of a driver returns.  The drivers that wait without looking  *)
(* at the link may not after a fault, and those that wait for the end of a *)
(* command that a timeout made void may not either, nor those of the       *)
(* STM32L0, which then read the last, busy, status for ever: the GDB task  *)
(* is lost.                                                                *)
(***************************************************************************)
Stuck ==
    \/ family \in {"kinetis", "ke04", "lpc", "msp432", "lmi"} /\ {"fault", "timeout"} \intersect call.met # {}
    \/ family \in {"stm32l0", "stm32l0_data"} /\ "timeout" \in call.met
    \/ family \in {"samd", "samx5x"} /\ call.op = "mass" /\ "timeout" \in call.met

CallsReturn == []<>(~Running \/ Stuck)
=============================================================================
