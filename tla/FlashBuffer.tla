---------------------------- MODULE FlashBuffer -----------------------------
(***************************************************************************)
(* The buffered flash programming of target.c: vFlashErase, vFlashWrite    *)
(* and vFlashDone of one target with several flash regions, each with one  *)
(* sector buffer that lives in t->flash and outlives the GDB session.      *)
(*                                                                         *)
(* Addresses count cells.  The chip drivers behind f->erase, f->write and  *)
(* f->done are external: an erase makes cells ERASED, a write programs the *)
(* cells that are not ERASED in the buffer, and each may report an error,  *)
(* in which case it changed nothing.                                       *)
(***************************************************************************)
EXTENDS Integers, Sequences

CONSTANTS
    Regions,    \* t->flash in list order: records [start, length]
    BufSize,    \* f->buf_size
    MaxWrite,   \* bound on the length of one vFlashWrite
    Loads,      \* bound on the number of programs loaded
    ERASED,     \* f->erased
    GARBLED     \* a cell programmed twice with different data

INVALID == -1   \* buf_addr of a buffer that holds no sector

R == DOMAIN Regions
Cells(r) == Regions[r].start .. Regions[r].start + Regions[r].length - 1
Addr == UNION {Cells(r) : r \in R}

ASSUME RegionsAssumption ==
    /\ Regions \in Seq([start : Nat, length : Nat])
    /\ BufSize \in Nat \ {0} /\ MaxWrite \in Nat /\ Loads \in Nat
    /\ \A r \in R : /\ Regions[r].start % BufSize = 0
                    /\ Regions[r].length % BufSize = 0
    /\ \A r, s \in R : r # s => Cells(r) \cap Cells(s) = {}

Data == {ERASED, GARBLED} \cup 1..Loads

VARIABLES
    mem,       \* the flash of the target
    buf,       \* f->buf, ERASED where nothing was copied
    allocated, \* f->buf # NULL
    buf_addr,  \* f->buf_addr
    phase,     \* of the load: "idle", "loading", "failed", "committed"
    load,      \* the number of the load, which is also the data it writes
    wanted,    \* what the load asked for: address -> data, ERASED if nothing
    touched,   \* addresses erased for the load
    clean      \* the load started with no sector left in a buffer

vars == <<mem, buf, allocated, buf_addr, phase, load, wanted, touched, clean>>

Blank == [o \in 0..BufSize - 1 |-> ERASED]

Init ==
    /\ mem = [a \in Addr |-> ERASED]
    /\ buf = [r \in R |-> Blank]
    /\ allocated = [r \in R |-> FALSE]
    /\ buf_addr = [r \in R |-> INVALID]
    /\ phase = "idle"
    /\ load = 0
    /\ wanted = [a \in Addr |-> ERASED]
    /\ touched = {}
    /\ clean = TRUE

Base(a) == a - (a % BufSize)

\* What programming the buffered sector at base leaves in cell a.
Programmed(cell, new) ==
    CASE new = ERASED -> cell
      [] cell \in {ERASED, new} -> new
      [] OTHER -> GARBLED

Dirty(r) == allocated[r] /\ buf_addr[r] # INVALID

(***************************************************************************)
(* vFlashErase.  The loop splits the range at the region boundaries and    *)
(* erases part by part; an error of one part does not stop the others.     *)
(* The buffers are not looked at.                                          *)
(***************************************************************************)
ErasedParts(a, n) == {r \in R : Cells(r) \cap a..a + n - 1 # {}}

EraseStarts == phase \in {"idle", "committed"}

target_flash_erase(a, n, failing) ==
    LET ok == ErasedParts(a, n) \ failing
        gone == (a..a + n - 1) \cap UNION {Cells(r) : r \in ok}
        old == IF EraseStarts THEN {} ELSE touched
    IN
    /\ phase \in {"idle", "committed", "loading"}
    /\ EraseStarts => load < Loads
    /\ a % BufSize = 0 /\ n % BufSize = 0 /\ n > 0
    /\ a..a + n - 1 \subseteq Addr
    /\ failing \subseteq ErasedParts(a, n)
    \* GDB erases every block once, before the first write to it
    /\ EraseStarts \/ \A b \in a..a + n - 1 : wanted[b] = ERASED
    /\ mem' = [b \in Addr |-> IF b \in gone THEN ERASED ELSE mem[b]]
    /\ phase' = IF failing = {} THEN "loading" ELSE "failed"
    /\ load' = IF EraseStarts THEN load + 1 ELSE load
    /\ wanted' = IF EraseStarts THEN [b \in Addr |-> ERASED] ELSE wanted
    /\ touched' = old \cup IF failing = {} THEN a..a + n - 1 ELSE gone
    /\ clean' = IF EraseStarts THEN \A r \in R : ~Dirty(r) ELSE clean
    /\ UNCHANGED <<buf, allocated, buf_addr>>

(***************************************************************************)
(* vFlashWrite of n cells at a.  In each region the sectors are visited in *)
(* ascending order.  Entering a sector that is not the buffered one writes *)
(* the buffered one to flash, if there is one, and blanks the buffer, so   *)
(* the sectors written are the one buffered before, unless the chunk       *)
(* starts in it, and all but the last of the chunk.                        *)
(***************************************************************************)
Chunk(r, a, n) == Cells(r) \cap a..a + n - 1
Sectors(r, a, n) == {Base(b) : b \in Chunk(r, a, n)}
First(r, a, n) == CHOOSE s \in Sectors(r, a, n) : \A q \in Sectors(r, a, n) : s <= q

Last(r, a, n) == CHOOSE s \in Sectors(r, a, n) : \A q \in Sectors(r, a, n) : q <= s

Stays(r, a, n) == Dirty(r) /\ buf_addr[r] = First(r, a, n)

\* Mutant: the sector buffered before is forgotten, not written.
FlushedForgets(r, a, n) ==
    IF Sectors(r, a, n) = {} THEN {} ELSE Sectors(r, a, n) \ {Last(r, a, n)}

Flushed(r, a, n) ==
    IF Sectors(r, a, n) = {} THEN {}
    ELSE (Sectors(r, a, n) \ {Last(r, a, n)})
         \cup IF Dirty(r) /\ ~Stays(r, a, n) THEN {buf_addr[r]} ELSE {}

(***************************************************************************)
(* What the writes of the call leave in cell b of region r.  The sector    *)
(* buffered before comes first; the chunk may enter it again later, with a *)
(* blank buffer.                                                           *)
(***************************************************************************)
AfterFlush(r, a, n, b) ==
    LET held == IF Dirty(r) /\ Base(b) = buf_addr[r] THEN buf[r][b % BufSize]
                ELSE ERASED
        old == IF Stays(r, a, n) THEN ERASED ELSE held
        new == CASE Base(b) \notin Sectors(r, a, n) \ {Last(r, a, n)} -> ERASED
                 [] b \in Chunk(r, a, n) -> load
                 [] OTHER -> IF Stays(r, a, n) THEN held ELSE ERASED
    IN Programmed(Programmed(mem[b], old), new)

\* Mutant: the buffer is not blanked for a new sector.
NewBufferStale(r, a, n) ==
    [o \in 0..BufSize - 1 |->
        IF Last(r, a, n) + o \in Chunk(r, a, n) THEN load ELSE buf[r][o]]

NewBuffer(r, a, n) ==
    [o \in 0..BufSize - 1 |->
        IF Last(r, a, n) + o \in Chunk(r, a, n) THEN load
        ELSE IF Stays(r, a, n) /\ First(r, a, n) = Last(r, a, n)
             THEN buf[r][o] ELSE ERASED]

target_flash_write(a, n, noBuffer, failing) ==
    LET into == {r \in R : Chunk(r, a, n) # {}}
        served == into \ noBuffer
        written == {b \in Addr : \E r \in served :
                       b \in Cells(r) /\ Base(b) \in Flushed(r, a, n) \ failing}
        RegionOf(b) == CHOOSE r \in R : b \in Cells(r)
    IN
    /\ phase = "loading"
    /\ n \in 1..MaxWrite
    /\ \A b \in a..a + n - 1 : b \in touched /\ wanted[b] = ERASED
    /\ noBuffer \subseteq {r \in into : ~allocated[r]}
    /\ failing \subseteq UNION {Flushed(r, a, n) : r \in served}
    /\ mem' = [b \in Addr |->
                 IF b \in written
                 THEN AfterFlush(RegionOf(b), a, n, b)
                 ELSE mem[b]]
    /\ buf' = [r \in R |-> IF r \in served THEN NewBuffer(r, a, n) ELSE buf[r]]
    /\ allocated' = [r \in R |-> allocated[r] \/ r \in served]
    /\ buf_addr' = [r \in R |-> IF r \in served THEN Last(r, a, n) ELSE buf_addr[r]]
    /\ wanted' = [b \in Addr |-> IF b \in a..a + n - 1 THEN load ELSE wanted[b]]
    /\ phase' = IF noBuffer = {} /\ failing = {} THEN "loading" ELSE "failed"
    /\ UNCHANGED <<load, touched, clean>>

(***************************************************************************)
(* vFlashDone: region by region, write the buffered sector and release the *)
(* buffer, then call f->done.  The first error ends the loop, and the      *)
(* buffers of the regions after it keep their sectors.  A buffer is        *)
(* released even when its sector could not be written.                     *)
(***************************************************************************)
\* stop: the region at which an error ended the loop, Len(Regions) + 1 if none.
\* Mutant: the loop stops before the last region.
VisitedShort(stop) == {r \in R : r <= stop /\ r < Len(Regions)}

Visited(stop) == {r \in R : r <= stop}

target_flash_done(stop, wrote) ==
    LET ok == {r \in Visited(stop) : Dirty(r) /\ (r < stop \/ wrote)} IN
    /\ phase = "loading"
    /\ stop \in 1..Len(Regions) + 1
    /\ mem' = [b \in Addr |->
                 IF \E r \in ok : b \in Cells(r) /\ Base(b) = buf_addr[r]
                 THEN Programmed(mem[b],
                        buf[CHOOSE r \in ok : b \in Cells(r)][b % BufSize])
                 ELSE mem[b]]
    /\ buf_addr' = [r \in R |-> IF r \in Visited(stop) /\ Dirty(r)
                                THEN INVALID ELSE buf_addr[r]]
    /\ allocated' = [r \in R |-> allocated[r] /\ ~(r \in Visited(stop) /\ Dirty(r))]
    /\ phase' = IF stop > Len(Regions) THEN "committed" ELSE "failed"
    /\ buf' = [r \in R |-> IF r \in Visited(stop) /\ Dirty(r)
                           THEN Blank ELSE buf[r]]
    /\ UNCHANGED <<load, wanted, touched, clean>>

(***************************************************************************)
(* GDB gives up a load: after an EFF reply, or because it is killed.  The  *)
(* detach that follows does not touch the buffers.                         *)
(***************************************************************************)
GiveUp ==
    /\ phase \in {"loading", "failed"}
    /\ phase' = "idle"
    /\ UNCHANGED <<mem, buf, allocated, buf_addr, load, wanted, touched, clean>>

\* A scan frees the regions and their buffers (target_mem_map_free).
Rescan ==
    /\ buf' = [r \in R |-> Blank]
    /\ allocated' = [r \in R |-> FALSE]
    /\ buf_addr' = [r \in R |-> INVALID]
    /\ phase' = "idle"
    /\ UNCHANGED <<mem, load, wanted, touched, clean>>

Next ==
    \/ \E a \in Addr, n \in {BufSize * i : i \in 1..Len(Regions) + 1} :
          \E failing \in SUBSET R : target_flash_erase(a, n, failing)
    \/ \E a \in Addr, n \in 1..MaxWrite, noBuffer \in SUBSET R :
          \E failing \in SUBSET {Base(b) : b \in Addr} :
             target_flash_write(a, n, noBuffer, failing)
    \/ \E stop \in 1..Len(Regions) + 1, wrote \in BOOLEAN :
          target_flash_done(stop, wrote)
    \/ GiveUp
    \/ Rescan

Spec == Init /\ [][Next]_vars

-----------------------------------------------------------------------------
(***************************************************************************)
(* Every variable has its type, and a valid buffer address is the base of  *)
(* a sector of its own region.                                             *)
(***************************************************************************)
TypeOK ==
    /\ mem \in [Addr -> Data]
    /\ buf \in [R -> [0..BufSize - 1 -> Data]]
    /\ allocated \in [R -> BOOLEAN]
    /\ \A r \in R : buf_addr[r] \in {INVALID} \cup {Base(b) : b \in Cells(r)}
    /\ phase \in {"idle", "loading", "failed", "committed"}
    /\ load \in 0..Loads
    /\ wanted \in [Addr -> Data]
    /\ touched \subseteq Addr
    /\ clean \in BOOLEAN

(***************************************************************************)
(* A load that started with empty buffers and was answered OK up to        *)
(* vFlashDone is in flash exactly: what GDB wrote, and nothing else in     *)
(* what it erased, in whatever order and pieces it came.                   *)
(***************************************************************************)
CleanLoadCommits ==
    phase = "committed" /\ clean => \A b \in touched : mem[b] = wanted[b]

(***************************************************************************)
(* A released buffer never counts as holding a sector, so a commit leaves  *)
(* nothing behind for the next load.                                       *)
(***************************************************************************)
CommitEmptiesBuffers ==
    phase = "committed" => \A r \in R : buf_addr[r] = INVALID

(***************************************************************************)
(* At any point of a load that started with empty buffers, a cell the load *)
(* erased holds what GDB wrote there or is still blank: a failed step, a   *)
(* split chunk or a sector entered twice programs nothing else.            *)
(***************************************************************************)
NothingForeign ==
    phase \in {"loading", "failed"} /\ clean =>
        \A b \in touched : mem[b] \in {wanted[b], ERASED}
=============================================================================
