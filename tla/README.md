# Verification of the Miyako-Link firmware

Miyako-Link is a debug probe: a port of the Black Magic Probe to an RP2040 board
(`src/src/platforms/RubyLink`). It speaks the GDB remote protocol on one USB CDC
interface, bridges a UART on another, and drives a target over SWD or JTAG. The
firmware runs under FreeRTOS. All tasks are pinned to core 0; the USB task has the
highest priority, the GDB task a normal one, the CDC and UART tasks a low one, the
pin-expander task the lowest.

This directory holds TLA+ models of the parts of the firmware in which order,
interleaving, failure or bookkeeping decide whether it works, the TLC
configurations that check them, and TLAPS proofs for nine of them.
`PROJECT.json` maps every definition to the lines it models and lists the
hazards the properties are aimed at.

## Inventory

| Component | State | Operations | Talks to | What is hard | What makes it correct |
|---|---|---|---|---|---|
| Block allocator (`mem_manager.c`) | one FreeRTOS queue of free blocks per size | Init, Alloc, Free | everybody | the mutex is never taken; `longjmp` abandons blocks | no block has two owners, none is misfiled or dropped |
| GDB server (`gdb_main.c`, `gdb_hostio.c`, `target.c`) | current and last target, target list, flash mode, single step, nesting of loops | the packets, halt polling, the exception handler | allocator, target layer, GDB link | the loop is reentered for semihosting; targets are freed under it | no dangling target; a continue packet lets the target run |
| Breakpoints and watchpoints (`target.c`, `cortexm.c`) | `bw_list`, slot tables, comparators | attach, detach, set, clear, watch check | GDB server | three copies of one truth, of different lifetime | what GDB was granted is armed, and only that |
| Flash programming (`target.c`) | a sector buffer per region | erase, write, done | GDB server, chip drivers | buffers outlive loads; each step may fail | an acknowledged load is in flash exactly |
| Configuration (`device_config.c`, `eeprom.c`) | RAM copy, CRC, EEPROM pages | init, set value, page writes | I2C EEPROM | power cuts and failed pages inside a save | no start uses a mixture of two configurations |
| CDC receive (`usb_cdc_task.c`) | notification bits, USB FIFO, streams | tinyusb callbacks, receive task | USB task, GDB and UART tasks | the USB task preempts between any two steps | bytes in order and once; no lost wakeup |
| USB-UART bridge (`usb_uart_task.c`) | three DMA channels, two buffers, timer, interrupt enables, two tasks | interrupts, timer callback, transmit, line coding | UART, DMA, CDC | interrupts pending while state changes under them | bytes in order and once; the sender is woken |
| Target scan (`adiv5*.c`, `jtag_scan.c`, `command.c`) | DP and AP blocks with reference counts, target list | `swdp_scan`, `jtag_scan`, probes, `target_list_free` | allocator, bit interface | an exception or a failed allocation can leave it anywhere | blocks are freed once, not too early, and not lost |
| GDB packet layer and CDC transmit (`gdb_packet.c`, `main.c`, `usb_cdc_task.c`) | rx and tx buffers, packet under construction, tries | get and put packet, acknowledgement, retry, transmit task | CDC, GDB server | timeouts, stale acknowledgements, EOT inside a packet, packets without numbers | what is accepted was sent; what is acknowledged was taken; requests are answered |
| SWD access and run control (`platform_target_interface_non_iso.c`, `adiv5_swdp.c`, `adiv5.c`, `cortexm.c`) | `dp->fault`, the selected port, sticky errors, posted transactions | low access, error recovery, scan, attach, memory and register packets, resume, halt poll | PIO bit interface, target scan, GDB server | errors are posted, sticky, and kept in a flag that not every caller clears | errors are reported once and to the right packet; every access reaches its own port; a halt is noticed |
| Chip flash drivers (18 files in `target/`) | lock, mode, busy, error and end flags of a flash controller, `flash_mode` | erase, write, mass erase, option bytes | flash programming, SWD access | a void link reads as "done, no error"; errors may be cleared by somebody else | success means the flash has it, or the fault is still there to be found; calls return |
| Bit sequences, monitor commands, pin expander, remote packets | little that outlives a call | PIO words, text | target | hardware timing | see "What is not modelled" |

The USB task hands bytes and events to the CDC tasks by FreeRTOS notifications;
those fill streams that the GDB task and the UART tasks read. The GDB task calls
the target layer directly, and everything it allocates comes from the block
allocator. Errors on the wire travel as exceptions (`raise_exception`, a
`longjmp`) to the nearest `TRY_CATCH`.

## Modules

| Module | Models | Checked by | Proofs |
|---|---|---|---|
| `MemManager`, `MCMemManager` | allocator | `mem_manager` | `StorageProofs` |
| `GdbServer`, `MCGdbServer` | GDB loop and target lifecycle | `gdb_server`, `gdb_wiring` | `GdbServerProofs` |
| `Breakwatch`, `MCBreakwatch` | breakpoints and watchpoints | `breakwatch` | `BreakwatchProofs` |
| `FlashBuffer`, `MCFlashBuffer` | buffered flash programming | `flash_buffer` | `FlashBufferProofs` |
| `DeviceConfig`, `MCDeviceConfig` | configuration pages | `device_config` | `StorageProofs` |
| `ConfigStore` | the abstract configuration store | `device_config` (refinement) | `StorageProofs` |
| `CdcRx` | CDC receive path | `cdc_rx` | `CdcRxProofs` |
| `UsbUart` | USB-UART bridge | `usb_uart` | `UsbUartProofs` |
| `Adiv5` | target scan, DP and AP ownership | `adiv5_scan` | `Adiv5Proofs` |
| `GdbLink`, `MCGdbLink` | GDB packet layer, transmit path | `gdb_link` | - |
| `SwdAccess` | debug port accesses, sessions, run control | `swd_access` | `SwdAccessProofs` |
| `FlashDrivers` | functions of the chip flash drivers, as sequences of steps | `flash_chips` | - |
| `FlashChips` | the steps, the flash controllers and the packets | `flash_chips` | - |

Definitions are named after the functions they model where that is possible. Operators
whose names end in a description of a defect (`FreeToKeepsLast`,
`AttachUnforced` ...) are mutated forms of the definition that follows them.
No specification uses them: they show that each property can fail.

### MemManager
A pool is a queue of free blocks. An allocation is two steps of a task: the queue
receive (`Receive`, the first pool whose block size fits), and the zeroing and
return (`ZeroAndReturn`). `Free` puts a block back to the pool its size names.
`Abandon` is a block whose owner was left by `longjmp`. Other tasks step in
between, since both `xSemaphoreTake` calls are commented out.

### GdbServer
One action per packet that changes which target is current, remembered, attached or freed;
`Semihost` enters a nested loop and `hostio_reply` leaves it; `Raise` is an exception that
unwinds to `gdb_main_1`, which frees the list. Constants `LoopCtl` and `AttachCtl` name the
controller object the loop runs with and the one `vAttach` searches. The build passes two
different objects with the same name; `gdb_wiring` sets the constants like the
build, `gdb_server` and the proofs about pointers set them equal, which is what the code around
them expects.

### Breakwatch
The tables are indexed by unit (`fpb`, `dwt`). `Attach` resizes and clears slot
tables and comparators but leaves `bw_list`, as `cortexm_attach` does. A revision
0 comparator drops the upper address bits (`Encoded`). `WatchHit` is a stop with the
MATCHED latches and `cortexm_check_watch`, which gives 0 when no slot matched. The number
of comparators of the silicon and the number of slots of the table are two constants. The client may clear what it was
not granted; the history `stray` holds the slots such a clear freed.

### FlashBuffer
Addresses count cells. `target_flash_write` goes through the regions and sectors
of a chunk like the loop does, flushing a sector when another is entered. The chip
drivers are external: erase, program, or fail without effect.

### DeviceConfig and ConfigStore
A configuration is the contents of its pages; the CRC is the configuration it was
computed from and is written with the first page. `PageFails` gives a page up after
the retries, `PowerCut` may come between any two pages. `ConfigStore` is the
promise: a start uses the configuration last saved as a whole or the default,
never a mixture; while a save is under way the store may hold nothing valid.

### CdcRx
`tud_cdc_*_cb` run in the USB task and set notification bits; `NotifyWait`,
`LineCoding`, `CheckClosed`, `CheckOpened`, `ReadFifo`, `SendToStream` and
`SendTimeout` are the steps of `cdc_rx_task_thread`. tinyusb is external.

### UsbUart
`Arrive`, `MoveRx`, `MoveTx` are hardware; `usb_uart_rx_callback`, the DMA
handlers and `TimeoutWaits`/`TimeoutFlushes` are interrupt handlers, one step each because all
have one priority on one core; `Receive` to `WaitTx` are the transmit task, `StopRx` to
`EnableUart` the line coding task. The two tasks have equal priority and no time
slicing, but a preemption by a higher task can leave the other one running, so they
interleave between statements: a line coding stops one receive channel, then the other,
then the transmit channel, holds the UART in reset, and releases it, and interrupts and the transmit task may
come between any two of these. Facts about the hardware that are assumed: an
aborted channel's count reads 0; a chained channel loads its count when triggered;
an abort may raise a spurious completion (RP2040 erratum E13).

### Adiv5
`heap` holds the allocated DPs and APs with their counts; `adiv5_ap_ref`, `adiv5_ap_unref` and
`adiv5_dp_unref` are functions on it that set `bad` when they touch a block that
is not allocated. The actions follow `adiv5_swdp_scan`/`jtag_scan` (`StartScan` to
`ScanDone`) and `adiv5_dp_init` (`DpUseless` to `DpDone`); `Raised` leaves from
any point of it. What registers read is chosen freely. A target whose `priv` could not be
allocated is `"bare"`; a Cortex-A target's `priv_free` is the C library's `free`, whose effect
on a pool block is undefined (the model lets it stop the probe or go on).

### GdbLink
`ReadStart` to `ReadSum` are the states of `gdb_getpacket`, one byte each; `Handle` is the
packet switch, reduced to what it sends back; `SendPacket`, `Ack`, `Resend`, `NoAck` and
`AckTimeout` are `gdb_putpacket` with its four sends of 2 s each. `RunPoll` is the loop of
`gdb_main_loop` that waits for a target and reads one byte between polls, so an interrupt,
an EOT and the first byte of a packet are taken by it alike. `cdc_tx_task_thread` moves the
transmit stream to the FIFO of tinyusb and cuts what does not fit. Towards the probe bytes have their values: a packet
body may hold `!`, `$` and EOT, bytes may be lost, the checksum is computed. Towards GDB a packet
is whole or cut. GDB is the environment and behaves as its documentation of the protocol says:
one request at a time, repeated after `-` or silence. The receive path is a sequence of bytes
with losses; `CdcRx` shows what it does without them. The EOT of a closed port is told
from a data byte 4 in the model, for the properties only.

### SwdAccess
An operation (scan, attach, memory packet, resume, poll, ...) is a sequence of accesses;
`Access` makes the next one, and `AckOk`, `AckFault`, `WaitTimeout`, `InvalidAck` and
`ParityError` are the branches of `low_access`. `Skip` is its early return while `dp->fault` is set. `Error` and
`Clear` are `firmware_swdp_error`, which reselects the port on a multi-drop bus. A port has a sticky error and
a transaction that may still be under way (`Settle`); both are external, as is the rule that an access
goes to the port selected last, whichever was meant. Simplified: one AP and one core per port;
register values are good or not, halted or not; an attach may fail at its end, when the target stays in reset. Single steps, semihosting, fault unwinding
and the JTAG port are left out; noise while an abort is written is part of `InvalidAck`.

### FlashDrivers and FlashChips
Each driver function is a sequence of named steps under the name of its function. A step is a register write, a start of
a command, a data transfer, a polling loop, a wait for code on the target, or a test; the six shapes of polling loop in
the source (look at the link while busy, in every round, not at all, ...) are six actions. The link is
`SwdAccess` seen from above: after a bus fault writes are void and reads give 0 until
`target_check_error` reports and clears it; after a timeout reads may give an old value, and
`target_check_error` forgets it. `target_mem_write` and `target_mem_read` end with that
check; where a driver drops the result the step is `check`. The controllers are external (`Accepts`, `Command`,
`Complete`, `CommandFails`): lock, mode, one command at a time, error and end flags as the
reference manuals have them, which the drivers rely on. Registers can be written while a command is under way, so that the loops
after a lock meet a busy controller; a second command, or a read of option bytes in flash, stalls until it is idle. A unit is what one erase
command erases, a write programs one unit with one command, and only the STM32G0 driver
starts at units other than the first, as only it tells them apart. `vFlashErase` to `vFlashDone`
are the packets with `flash_mode`; the sector buffers between packets and drivers are `FlashBuffer`'s
subject, so a write packet here stands for the `f->write` it leads to. At
the start of a load or a command all units are relabelled `"old"`, and the option words when nothing writes them any more.

`sam3x.c` is two families: `sam4s`, and `sam3x` for the SAM3X, SAM3N/S and SAM3U, whose erase returns success and does
nothing, because the command of their writes erases the page first. The RP2040 driver calls the ROM twice
before and twice after each operation and ignores the results (`rom_ignored`). What a Kinetis write programs is the data it
was given with the security byte replaced (`kinetis.c:437`, unless unsafe operations are enabled); the model calls that the new contents.

The commands that write option bytes, user rows and user pages (`cmd_option`) are asked for one word and have to keep the
rest, which is one word of the model too. Three shapes occur: read everything, erase the row and write it back (STM32F1,
SAM D, SAM E5x); write registers that shadow the words and commit them (STM32F4, L4, G0); and replace one word (STM32L0).
They run without a reset (and so does a mass erase), so that an abandoned command or its errors may meet them (`Troubled`). Left out: the `erase` form of these
commands, the protection level the STM32F4 command keeps, the validation of arguments, the EMPTY bit of the
STM32G0, the second bank of the STM32F1, reserved pages of the LPC80x, and the recovery ports of locked chips.

## Runs

All numbers are distinct states; each run takes from a second to two and a half minutes on two cores.

| Run | Bounds | States | What it shows |
|---|---|---|---|
| `mem_manager` | 3 pools, 2 tasks | 13 k | Without the mutex no block is shared or dropped; only `longjmp` leaks |
| `gdb_server` | 2 targets, nesting 2 | 14 k | `cur_target` and `last_target` never dangle; polling a freed target needs a target dropped during a semihosting call; a `c` packet steps only after an `s` that found no target |
| `breakwatch` | 1 FPB slot of 2 comparators, 4 DWT slots on 3 comparators, list of 2, 4 requests | 258 k | Silicon, slot tables and GDB's view agree over sessions, scans, failed attaches, failed allocations and clears of what was not granted, but for the slots without a comparator; a watch report names a live watchpoint |
| `flash_buffer` | 2 regions of 1 and 2 sectors of 2 cells, writes up to 3, 2 loads | 50 k | A load that started with empty buffers is in flash exactly; a commit empties the buffers; before the commit and after a failure, every cell the load touched is erased or holds what was written there |
| `device_config` | 3 pages, 3 values, settings inside a page and across pages | 40 k | A complete save is in the EEPROM; the pages implement `ConfigStore` |
| `cdc_rx` | FIFO 2, stream 2, 3 bytes, 2 connections, 2 codings | 314 k | Bytes in order and once; no wakeup lost; the last line coding is applied |
| `usb_uart` | buffers of 2, FIFO 1, stream 3, 4 bytes over both directions, 2 codings | 512 k | Both directions in order and once, at most one reception, a partial buffer is flushed, the sender is woken - except in the races below |
| `adiv5_scan` | 2 DPs, 2 APs, 2 targets, 3 AP numbers, 2 void APs, 2 losses, any number of scans | 192 k | No use after free; only exceptions, failed allocations and Cortex-A targets leak, each at most one DP and one AP; every scan ends |
| `gdb_link` | 2 requests (one with special bytes, one that runs the target), 1 or 2 answers, packets of 4, rx 10 bytes, tx 2 packets, FIFO 8, 2 faults | 254 k | What `gdb_getpacket` accepts was sent; `+` means the packet was taken; replies are not crossed; requests are answered; a closed port ends the session - each but for the named cases |
| `swd_access` | 2 ports or one DPv1 port, 2 troubles, any number of scans and sessions | 355 k | A memory packet reports exactly its own errors, timeouts aside; no session reaches another target's port; an undisturbed scan finds every port; a halt is noticed while `dp->fault` is clear |
| `flash_chips` | 18 drivers (that of the SAM3X and SAM4S as two families, and the data flash of the STM32L0), 3 units, bank 2 at unit 1, loads of 1 or 2 units, 2 troubles, any number of loads and commands | 1.03 M | Success is true or the fault still pending; an acknowledged load is in flash; a retry after `EFF` is not spoilt by the first attempt; option words that were not to change survive; calls return - each with the drivers named for which it is not so |

Why the bounds are enough: each makes every limit of the code reachable (pools run
empty, tables and streams fill, a chunk starts and ends inside sectors and spans regions, both DMA
buffers fill and chain, the AP loop ends by each of its conditions), and allows
two of whatever can interfere (tasks, loads, connections, nested calls, DPs). The
`usb_uart` invariants were also checked with five bytes. `breakwatch` was also checked with a list of 3 (2.9 M states). What is bounded without
a counterpart in the code is named in the constants: `MaxDepth`, `MaxWrite`,
`Loads`, `ListBound`, `MaxBytes`, `MaxOpens`, `MaxCodings`, `MaxLosses`, `MaxFaults`, `MaxTrouble`,
`MaxLen`. Two troubles are what it takes for one to hide or repeat another.

Deadlock checking is off where the system may stop: the pools are exhausted by abandoned blocks
(`mem_manager`), undefined behaviour ends the task (`gdb_*`, `adiv5_scan`, `usb_uart`), or
the host has used up its bytes or requests and falls silent (`cdc_rx`, `usb_uart`, `gdb_link`),
or a driver waits for ever and the GDB task is lost (`flash_chips`).

Some properties hold except in situations in which the code does not keep its promise. These are
excluded by name, and every exclusion was seen to be necessary: without it TLC finds a violation (for `twice` and
`gaveup` of `gdb_link` only with three faults, and where all four sends of a reply must fail it takes four).

- `breakwatch`. `OnMissing`: a slot for which the silicon has no comparator: the comparison that sizes the DWT unit (`cortexm.c:503`) is the wrong way
  round, a target with fewer comparators than the table has slots keeps all the slots, and GDB is told OK about watchpoints that never fire. `stray`: a clear
  of something that is not granted finds an entry of an earlier session and disables the slot it names. `lost`: a set whose list
  entry could not be allocated keeps its slot.
- `gdb_server`. `bare`: an `s` packet without a target sets `single_step` and leaves it set (`gdb_main.c:187`); after an
  attach, the next `c` of that loop steps the target.
- `usb_uart`. `recoded`: a line coding applied during a reception leaves its timer running into
  the next one. `cut`: a line coding applied during a transmission aborts it with its interrupt
  disabled. `raced`: the timer runs when a transfer has completed and its interrupt is still
  pending, and a buffer is not forwarded. `undefined`: a reception that starts while a line coding is applied sets up a channel that
  is transferring, and what the channel does then is not defined.
- `gdb_link`. `late`: a `+` that comes after its wait was given up acknowledges the next packet.
  `twice`: GDB repeats a request whose `+` was lost and it is handled again. `gaveup`: the fourth
  send was not acknowledged and the server goes on. `eotgone`: the EOT was dropped at a full
  stream, or read inside a packet, in place of an acknowledgement, or as a request to halt.
- `swd_access`. `late`: an access that timed out is not an error of the port, and
  `firmware_swdp_error` returns only those. `HaltNoticed` excludes a set `dp->fault` (below).
- `flash_chips`. `Unseen`, `Misaddressed`, `Stuck`, `Rewriting`, the last write of the SAM4L, the erase of the SAM3X (nothing is
  erased before the write; a load is in flash all the same), and the words an STM32L4
  option command reads over a timeout (below).

### The run that finds a violation

- `gdb_wiring` states what the comment "Attach to remote target processor" says: a `vAttach` of an
  existing target attaches. `handle_v_packet` attaches with the static `gdb_controller` of
  `gdb_main.c`, the loop and the scans use the one of `main.c`, so `vAttach` never finds a target.

### What the models showed besides

Reachable in the models and read back in the source; each is either excluded by name in a property or
outside the properties.

- Breakpoints: the attach clears tables and comparators but not `bw_list`. If GDB clears a breakpoint
  twice, a stale entry disables the comparator of another one (`stray`). A revision 0 comparator
  (`cortexm.c:1023`) drops the upper address bits.
- Flash buffer: a sector left in a buffer by a load that failed or was given up is programmed by
  the commit of the next load. `flash_mode` survives a session that is cut off, so that the next load starts
  without the reset (`RetrySucceeds` excludes these loads).
- CDC: bytes sent before the port was closed can stay in the FIFO and arrive after the EOT, in the
  next connection. UART: the interrupt at `usb_uart_task.c:129` cannot wait for a full stream.
- Configuration: after a failed save, setting the same value again writes nothing and returns success
  (`device_config.c:306`); `eeprom.c:41` copies one byte too many.
- Cortex-A: `cortexa.c:341` gives a pool block to the C library's `free`.
- SWD: `cortexm_halt_poll` expects a timeout as an exception ("Timeout isn't a problem, target could
  be in WFI", `cortexm.c:788`), `low_access` sets `dp->fault` instead. Nobody on that path clears it, every later poll
  and halt request is skipped, and the wait never ends. The error of a posted write appears in the
  next packet. A sticky error left by an exception hides the port from later scans, and
  `initial_dp->fault` hides the ports after it (`adiv5_swdp.c:205`). The `g` packet checks no error. The
  release at the end of a scan resumes cores of other ports with the wrong port selected.
  `adiv5_jtagdp_error` never clears the flag.
- Flash drivers, faults: thirteen drivers ignore the result of `target_mem_write`, which has then cleared the
  fault (`Ignoring`); the check after it, as in `lmi.c:149`, can never fire. The erases of the STM32F4, L4,
  G0 and EFM32 return success over a fault but leave it to be found. All forget timeouts. Errors
  of the controller are invisible to the drivers outside `Flagged`: the SAM3X reads them twice and the first
  read clears them, the Kinetis driver leaves MGSTAT0 out, the others do not look.
- Flash drivers, addresses: an STM32G0 erase that starts inside bank 2 starts at its first page
  (`stm32g0.c:358`); the MSP432 erase never advances its address and counts its length twice
  (`msp432.c:273`); an STM32F4 erase through the ITCM alias and the STM32F1 bank 2 unlock use the wrong base.
- Option bytes: the commands of the STM32F1, F4, L0 and SAM D answer success when they fail (a `bool` function that returns
  -1, `samd.c:679`, or a result nobody looks at), and so do the mass erases of the SAM D, E5x and KE04. The SAM E5x
  command rewrites its whole user page from what it read, and does not look whether the read succeeded: a fault there
  writes wrong words over the page, or makes the word seem to have its value already. A trouble between the erase of a
  row and its rewriting loses the words that were to be kept. The STM32L4 command reads the registers it was not given; after
  a timeout there, a busy loop can forget the timeout and the wrong words are committed.
- Flash drivers, waits: Kinetis, KE04, LPC, MSP432 and LMI may wait for ever after a link failure, the
  functions of the STM32L0 (`stm32l0.c:383`) and the DSU erase of the SAM D and E5x after a timeout.
  `lpc_iap_call`, `msp432_call_ROM` and `rp_rom_call` go on with a target that `cortexm_halt_poll` has freed.
  `samx5x_flash_erase` divides by a size that a void link reads as 0.

### Fairness

- `GdbServer`: none. Whether a halt is noticed is the subject of `SwdAccess`.
- `CdcRx`: weak fairness of the receive task and of the reader of line codings;
  both are FreeRTOS tasks that nothing starves (the USB task blocks when the bus is idle).
- `UsbUart`: weak fairness of interrupts, timer, tasks and the transmit DMA;
  strong fairness of the receive DMA, which moves a byte in about a
  microsecond whenever one is there, against the timer's 50 ms.
- `Adiv5`: weak fairness of the scan's own steps. The GDB task runs on, and each
  wait inside a step has a timeout in the code. That a ROM table has finitely many
  entries is assumed.

- `GdbLink`: weak fairness of the server's steps and of the transmit task (FreeRTOS tasks), of the
  EOT of the receive task, of GDB's reaction to what it received, and of the target halting once
  it was asked to. A GDB that stops reading is a closed port.
- `SwdAccess`: weak fairness of the operation under way. Every wait in it has a time limit.
- `FlashChips`: weak fairness of the driver's steps, and of the controller finishing a command,
  which takes milliseconds to seconds and needs no software.

Except for GDB's answers in `GdbLink`, nothing is assumed of the host.

## Proofs

All are TLAPS proofs for every value of the constants, from the `ASSUME`s of the modules. Each
module has the same shape: the parts of the inductive invariant `IInv`, lemmas on the operators of
the model, one lemma per action (and per part, where an action disturbs several), and the theorems.

- `StorageProofs`, about the two stores, which share no state; it extends `DeviceConfig` and `MemManager` (whose
  specification is `MemSpec`).
  - Configuration: `SaveIsComplete` (`SavedUnlessTorn`), `Refinement` (`ImplementsStore`) and `ConfigTypeOK`, for any
    number of pages, values and settings. The inductive invariant says how far the save has come: once the first page is
    written the CRC is the new one, and the pages before the current one are new. So the CRC and the pages agree exactly
    when the EEPROM holds the new configuration as a whole, which is what the refinement needs.
  - Allocator: `ExclusiveOwnership` (`NeverShared`), `NoBlockDropped` (`OnlyLongjmpLeaks`), `ServedFromFirstFit`
    (a block is large enough and from the first pool that fits) and `TypeCorrect`, for any pool table with increasing sizes, any tasks and
    requests. `NeverShared` alone is not inductive: a receive could hand out a block that is in
    a queue and owned at once. The invariant `MemIInv` adds that the queues hold only free
    blocks of their own pool (which needs `NeverShared` in turn when a block is given
    back) and that abandoned blocks are nowhere else. As a queue has as many places as
    its pool has blocks, it has room for any block that is freed, so the ignored
    result of `xQueueSendToFront` is harmless.
- `GdbServerProofs`: `ServerNeverDangles` (`NoDanglingTarget`), `FaultNeedsCutCall`
  (`SyscallFaultOnlyWhenCut`) and `ServerTypeOK`, assuming that loop and attach use
  one controller (the `gdb_wiring` finding repaired), for any targets and any
  nesting. The inductive invariant adds that kept targets belong to the controller that will be told
  of their destruction, and that, unless a packet dropped a target during a semihosting call, every loop that polls, outer ones
  included, has a live one. `ContinueLetsRun` (`ContinueRuns`) needs neither that assumption nor that invariant, only the
  locals of the nested loops: a resume of the outermost one leaves no single step pending in any.
- `BreakwatchProofs`: `GrantedStaysArmed` (`GrantedIsArmed`), `ArmedWasGranted` (`ArmedIsGranted`),
  `TakenWasGranted` (`TakenIsGranted`), `WatchReportsAreLive` (`WatchReportIsLive`) and
  `BreakwatchTypeOK`, for any numbers of comparators and slots, any requests and any sequence of
  sessions, whether or not the silicon has a comparator for each slot, and for a client that may clear anything. The entries of earlier sessions stay in
  `bw_list` and name slots that belong to somebody else by now. The invariant therefore speaks of
  the newest entry of each granted request only: that one has a slot of its own, taken and loaded
  with the request, unless the slot has no comparator or a clear of something not granted has freed it (`stray`). It is the entry `target_breakwatch_clear` finds, and a stale entry is never the
  newest of a request that is granted.
- `FlashBufferProofs`: `LoadsCommit` (`CleanLoadCommits`), `CommitsEmptyBuffers`
  (`CommitEmptiesBuffers`), `LoadsProgramNothingElse` (`NothingForeign`) and `FlashTypeOK`, for any
  aligned regions, any sector size, any writes and loads. The invariant, for a load that
  started with empty buffers and met no error: flash and buffer hold nothing but what GDB wrote, and
  programming the buffer over the flash gives exactly that. A chunk is argued cell by cell (`WriteCell`):
  a cell of its last sector stays in the buffer, one of an earlier sector is programmed, and what another sector had left
  in the buffer is programmed before.
- `CdcRxProofs`: `BytesInOrder` (`InOrderExactlyOnce`), `WakeupsAreKept` (`NoLostWakeup`) and `RxTypeOK`, for any sizes and any number
  of bytes, connections and line codings. The four places a byte can be in (read by the consumer, stream, buffer of the
  task, FIFO) are each in order and each ahead of the next, and together with the bytes given up they hold every byte
  sent. The wakeups need what the task has already taken notice of (`Seen`): while it is between two of its
  steps, a bit may be clear because the task is about to look.
- `UsbUartProofs`: `SingleReception` (`OneReception`), `SentExactlyOnce` (`TxExactlyOnce`), `ReceivedInOrder`
  (`RxInOrder`), `ReceivedAll` (`RxComplete`) and `UartTypeOK`, for any sizes and any number of bytes and line
  codings. `Reception` says that, until a line coding is applied during a reception, the reception owns the one
  timer, the channels take turns, and a channel that has completed waits for its interrupt before it is
  loaded again; hence the two buffers never overtake each other. `Transmission` says there is one notification per transfer,
  and none before the last byte went. The order then follows as for `CdcRx`, with the unsent parts of the two DMA
  buffers as one place. The timer's flush forwards all a buffer holds unless its completion is pending,
  which is the race `RxComplete` names.
- `Adiv5Proofs`: `ScanNoUseAfterFree` (`NoUseAfterFree`), `ScanLeaksAreBounded` (`LeaksAreBounded`) and `ScanTypeOK`, for
  any finite pools and any number of devices, scans and losses. `heap.bad` becomes true only if a count is below
  the number of holders, so the invariant states for every AP and DP that its count is at least that
  number (targets in the list and the scan itself for an AP; APs with a reference and the scan for a DP), and that an AP without
  a reference is on a DP without one. The blocks with more references than somebody will give back are
  no more than the losses counted so far, which bounds what nobody can reach.

- `SwdAccessProofs`: `ReportsAreExact` (`ReportIsExact`), `SessionsStayOnTheirDp` (`SessionOnItsDp`), `ScansFindAll`
  (`ScanFindsAll`) and `SwdTypes`, for any number of ports on the bus and any number of disturbances. An operation is the
  sequence `todo` of the accesses it has still to make, so the invariant speaks of what may be left in it:
  - `Session`: whatever part of a session's operation is left, the selected port is its own or none is, unless the next
    access reselects it. `dp->fault` is set only if the port has a sticky error or an access was given up, unless the
    recovery that clears it is under way; recovery is always made in one piece (`Chained`). `Between` keeps the same for the time between two
    packets. This is why a fault left by one packet cannot void the accesses of the next without a trace.
  - `MemPacket`: until CTRLSTAT is read, the failures of the packet are sticky errors of the port, and nothing else is;
    from then on they are in what was read. A sticky error that was there before the packet
    makes the SELECT that opens it fail, so it becomes a failure of this packet.
  - `Scan` and `ScanProgress`: as long as nothing went wrong no port has an error (`Quiet`), the list holds
    exactly the ports below the one being tried, that one has still to be listed and its core halted for the probe
    (`BeforeProbe`) or is listed and will be left running (`AfterProbe`).

Only model-checked:

- All liveness properties (fairness and `ENABLED` are beyond the prover).
- The safety properties of `GdbLink`. They are not true for every value of the constants. A packet is recognised by an
  8-bit sum and an acknowledgement is a single byte: with a request that contains `+` and three lost bytes, a byte
  of a repeated request can be taken for the acknowledgement of an answer, and with four the sum
  no longer tells a damaged request from a sent one. `gdb_link` shows them for requests without `+` or `-` and at most its number of
  faults, and says nothing beyond.
- The safety properties of `FlashChips`. Each of its drivers is a program of its own, so an inductive
  invariant has a case for each place in each of them, and says of each what the controller holds there; the
  programs are data, put together by folds.

`TypeOK` (`MemTypeOK` of `MemManager`) is proved for `MemManager`, `DeviceConfig`, `GdbServer`, `Breakwatch`, `FlashBuffer`, `CdcRx`, `UsbUart`, `Adiv5` and
`SwdAccess`; `GdbLink` and `FlashChips` state theirs as documentation of the state, and each was checked with its run's bounds.

## Assumptions

- The CRC tells a configuration from the mixtures a torn save can leave.
- Flash regions are aligned to the buffer size, and GDB addresses only the memory
  map it was given.
- In `breakwatch` and its proofs, GDB does not set what it has been granted already.
- The hardware facts listed under `UsbUart`, and the debug ports and flash controllers as
  described under `SwdAccess` and `FlashChips`.

## What is not modelled

- The PIO programs and bit sequences of SWD and JTAG, `adiv5_jtagdp.c`, the isolated variant of the
  interface: timing and bit layout. `SwdAccess` starts at the acknowledgement.
- Cortex-A run control, single stepping and fault unwinding of the Cortex-M.
- The tables of the chip drivers (identifiers, memory maps, meaning of option bits), and their GPNVM, UICR, EEPROM, boot and
  security commands: data without order. They are the larger part of these files.
- Monitor commands other than scans, `hard_srst`, mass erase and option bytes, remote control packets,
  descriptors, start-up code: stateless or text.
- The pin expander task.
- Vendored code (SEGGER SystemView and RTT, the W5500 driver, sockets, DHCP) and the tasks that are written
  but never started; the platforms of other boards and the PC-hosted build, which this firmware does not contain.
  Together they are more than half of the lines of the tree.

## Plan

1. `MuxTask`: the pin expander, whose setters race with the shifting.
2. `PioTap`: the words exchanged with the PIO programs, against the bit sequences of the generic code.
3. The JTAG port as a second instance of `SwdAccess`.
