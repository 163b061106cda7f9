# CortexProg firmware and host tool: a verification development

CortexProg is a debugger and programmer for ARM Cortex-M targets.  A firmware
(`*.c` in the top directory) speaks SWD to the target and USB to a host; a host
tool (`tool/`) offers commands, flash scripts and a GDB server.  This directory
holds TLA+ models of the parts where the difficulty lies, TLC configurations
that check them on small instances, and proofs checked by TLAPS.

## 1. The system

```
 gdb ── TCP ──  tool/opDebug.c ─┐
 scripts, commands (tool/op*.c) ├─ tool/cpu.c ── tool/debugger.c ══ USB HID ══ main.c
 flash scripts (tool/script.c) ─┘                                                │
      target ══ SWD wire ══ wire-*.c ── swd.c ── memap.c ── cortex.c ────────────┤
      target ══ UART ══ plat-efm.c (circular buffers, ISRs) ── second USB pipe ──┤
      target ══ power ══ plat-efm.c (switch, DAC over bit-banged I2C) ───────────┤
      uploaded wire code: codegen.c, codegen-run-generic.c ──────────────────────┘
```

| component | state | operations | what makes it correct |
|---|---|---|---|
| MEM-AP driver `memap.c`, SWD transport `swd.c` | `mApSel`, `mSelected`, `mCurAddr`; in the target SELECT, CSW, TAR, the access in progress, the read buffer, the sticky errors | `memapInit`, `memapReselect`, `memapSetAddr`, `memapReadMultiple`, `memapWriteMultiple` and the one-word calls | success means that the words were moved, whatever was posted, retried or refused, and across every page boundary |
| AP enumeration `swd.c` | none (SELECT in the target) | `swdDapInit`, `swdAttachAndEnumApsWithAhbs` | each AHB AP is reported once; the driver's idea of SELECT is restored |
| core control `cortex.c` | `mInfo`; DHCSR, DFSR, DCRSR/DCRDR in the target | init, register access, step, stop, go, reset, stop reason | a register transfer reports success only when the core was ready; a stop reason is not lost |
| command dispatcher `main.c` | the packet buffer | one handler per command | one reply per command that wants one; a handler validates before it acts |
| power `plat-efm.c` | `mCurVoltage`, pins, DAC | on/off, set voltage | what is reported as set is what the supply does |
| UART bridge `plat-efm.c` | two 256-byte rings, interrupt enables | RX ISR, TX ISR, USB callback, `platWork` | bytes keep their order, none is lost while there is room, TX never stalls |
| code generator `codegen.c` | `mOpcodes[256]`, front and rear cursors | emit, labels, jumps | a false return never leaves half an instruction to run; every label lies in the code |
| code interpreter `codegen-run-generic.c` | pc, registers, two stacks | `codegenRun` | what codegen.h documents of each opcode |
| boot loader updater `blupdate-efm.c`, host `tool/opFwUpdate.c` | flash, boot loader version | update | an interrupted or repeated update does not brick the device |
| USB link, host side `tool/debugger.c` | one outstanding packet | `debuggerDoOneDevCmd`: send, wait, resend | the answer taken is the answer to the question asked; a command with an effect happens once |
| CPU access `tool/cpu.c` | `struct Cpu` (selected core, capabilities) | attach, registers, memory, run control | results of commands are not mixed up, a failure is reported as one |
| GDB server `tool/opDebug.c` | register cache, breakpoint and watchpoint slots, run state | one handler per packet | the cache and the slots mirror the hardware whenever the core runs |
| flash scripts `tool/script.c`, `tool/opWrite.c`, `tool/opErase.c` | script description, target memory and registers | load, run a stage, write, erase | blocks cover the range exactly once, inside the flash |
| byte access `tool/memio.c`, gdb's memory packets, `tool/opRead.c`, `tool/opUpload.c` | none of their own | read, write and upload ranges of bytes | the bytes asked for and no others; what stands beside them survives |
| other commands `tool/op*.c`, `tool/main.c` | none of their own | pipelines of the above | |

Left aside as vendored or not part of the running system: `EFM32HG/` (device
headers), `tool/hidapi`, `tool/lua-5.3.4`, `tool/oldtool`, the assembly flash
loaders of `tool/SCRIPTS` and the Lua scripts of `tool/SPECIAL`.

### How the parts interact

The firmware is one loop (`main.c:234`): `platWork`, `usbWork`, then at most one
command, run to completion.  Concurrency comes from the target (an access port
completes accesses on its own), from the UART interrupts, and from the host,
which times out and sends a command again while the firmware may still be busy
with it.  Failures: the wire may lose or damage a transaction, the target may
answer WAIT or FAULT, USB reports may be lost or late, gdb may interrupt.

## 2. Plan

| # | modules | subject | state |
|---|---|---|---|
| 1 | `MemAp`, `MemApInv`, `TargetMemory`, `MemApImpl`, `MemApProofs` | block transfers over SWD: every result of the tool rests on them | done |
| 2 | `UsbLink`, `UsbLinkProofs` | request, timeout and resend between tool and firmware | done |
| 3 | `GdbServer`, `GdbServerProofs` | run state, register cache and breakpoint slots against the core and gdb | done |
| 4 | `UartBridge`, `Pipe`, `UartBridgeProofs` | the two rings with RX and TX interrupts; each direction implements a pipe | done |
| 5 | `Codegen`, `CodegenImpl`, `ScriptMachine`, `CodegenProofs` | the opcode allocator with its two cursors, labels and jumps; the interpreter implements the script that was asked for | done |
| 6 | `Attach`, `CoreControl`, `AttachProofs`, `CoreControlProofs` | AP enumeration and core selection; DHCSR/DFSR/DCRSR handshakes with a core that runs | done |
| 7 | `FlashTables`, `FlashScript`, `FlashScriptProofs`, `MemBytes`, `ByteMemory` | blocks of flash, work on a range of them; byte access on top of word access | done, `MemBytes` proved in `MemApProofs` |
| 8 | power supply, firmware update | | dropped, see section 7 |

Abstract specifications: `TargetMemory` is refined by `MemAp`, `Pipe` by each
direction of `UartBridge`, `ScriptMachine` by `Codegen`, `ByteMemory` by `MemBytes`.
All are also proved, but for what they promise of liveness (section 5).

## 3. The models

### MemAp

`MemAp` is `memap.c` with the transactions of `swd.c` and, as an external part,
the debug port and the access ports of the target.  `mApSel`, `mSelected` and
`mCurAddr` are the statics of `memap.c`; `buf`, `payload`, `num`, `addr` the
caller's arguments; `pc` says which SWD transaction of the call is next (`select`:
`memapSelectRegRange`; `access`, `cycle`: a simple read or write and the RDBUFF
read behind it; `post`, `next`, `flush`, `last`: the loop of
`memapReadMultiple`; `put`, `drain`: that of `memapWriteMultiple`; `abort*`: its
ABORT writes).  `tryNo` counts the retries of `swdWireBusReadInt` and
`swdWireBusWriteInt`.  `Accepted`, `Wait`, `Faulted`, `Lost`, `Garbled`, `Damaged` and
`GiveUp` are what can come of one transaction; `After...` is what the driver does
with success, `Fail...` what it does with failure.  `Complete` is the access port
finishing the access it accepted, at any later time: that is the interleaving.

`TargetMemory` promises block transfers without naming a register or a
transaction; `MemApImpl` maps the driver onto it (`Promise`).  A driver whose
SELECT write was lost does not keep the promise (section 6), so the refinement
is checked under `SelectSpec`, in which SELECT writes arrive.

### UsbLink

`cpu.c` and `debugger.c` on one side, the dispatcher of `main.c` on the other, two
pipes between them.  `cmd`, `base`, `left`, `ver`, `ack` are the arguments and the loop
variables of `cpuMemReadWrite`; `pc` and `tries` those of `debuggerDoOneDevCmd`;
`curCore` is `cpu->curCore`, `devCore` the firmware's selected access port.  `Send`,
`GiveUp`, `Timeout`, `Receive` are the send loop, `PacketDone`, `Refused` and `Stale`
what the caller makes of an answer, `Handle...` the command handlers, `Lose` and
`Garbage` the link.  `CallRun` is `cpuStep` and `cpuGo`, `CallTrace` and `HandleTrace` the read
of the trace log, whose answer may be empty.  The loop that takes answers does not read again
after `continue`: `pc` is `spin` where an empty answer to another command keeps it for
ever, `runt` where a packet shorter than its header does.  The tool is taken up after an
attach whose own selection of a core went well (section 6).  Each word carries the place it was written for, so that a
word that turns up elsewhere shows.  The history variable `late` says that an answer
has come after the tool had asked again.

### GdbServer

The loop of `debugGdbServer` (`Poll`, `Packet`, `Quit`), one `Handle...` per packet of
`debugReplyToGdb` that changes state, the core (`CoreStops`, registers `hw`, comparators
`cmp`), and gdb (`Gdb...`).  `isRunning`, `regsValid`, `regsDirty`, `regs` and `bpts` are
the variables of the same name in the code; a register value says which register it
is the value of and from which stop, so that a stale or misplaced one shows.
`Cell` is the place of a register in the cache, `Meant` the register gdb names by a number: R
registers by their own, the eight-byte F numbers and FPS, CPSR by one far above;
`HandleWriteReg` writes the cell of that number whatever it names.
Every command of the debugger may fail where it is called (`Abort`,
`FlushFails`, `Comparator`), after having had part of its effect or all of it.
History variables record what gdb was told: `want`, `inserted`, `doubtful`, `stops`.

Packet parsing and checksums are left out: they do not touch this state, except that
a bad packet ends the session, which `Abort` and `HandleLeave` cover.  Watchpoints use
the same slots code with another unit.

### UartBridge

The rings `uartDataFromPc` (`tx`) and `uartDataFromDut` (`rx`) with their cursors, the
interrupt mask `ien`, and three threads of control: `platWork` in the main loop (`WorkPeek`,
`WorkSend`, `WorkSendFails`, `WorkDequeue`, its place `pc`), `platUsbToSerialDataRxCbk` (`Packet`, `WriteFirst`,
`WriteSecond`, `WriteEnds`, `TestEmpty`, `LoadIen`, `StoreIen`, its place `at`), and the handler of the TX
interrupt (`TxTest`, `TxTake`, `TxOff`, its place `irq`); that of the RX interrupt touches nothing the
callback does and is one step.  The callback is called by the USB stack, which is the boot loader's and not
in the repository: from `usbWork` in the main loop, or from the USB interrupts that `plat-efm.c:771-783`
forwards to it, while the USART interrupts have the lowest priority (line 99).  `ctx` chooses one of the
two per behaviour: a callback in the main loop is cut by the handlers, one in an interrupt cuts into
them.  `cut` remembers that the last packet came between the TX handler's test and its
change of `IEN`.  Each thread is split wherever it touches what another may.  The rings'
elements are not volatile, so the compiler may put the two stores of `cbWrite` in
either order: `order` chooses one per behaviour.  With the cursor first the interrupt can send
what the slot held before; the bytes are then wrong but their number is not, and
`Pipe`'s constant `exact` says so.

### Codegen

The calls of `codegen.h` in a phase that builds, `codegenRun` in one that runs.  `ops`,
`head`, `tail` are `mOpcodes` and its cursors; `asked`, `start`, `cells` remember what the host
asked for.  `vpc`, `regs`, `recur`, `data`, `ofst` are the locals of `codegenRunInternal`.  A
word of 32 bits is scaled to four quarters of one bit, so `LoadImm`
has all of its encodings.  `ScriptMachine` runs the list of instructions the host asked
for, without opcodes, cells or offsets, and `Codegen` implements it; the mapping is in
`CodegenImpl`: a position becomes the number of its instruction, one in the label cells what
the chain of cells leads to (`Passed`, `Ends`), and the middle of a load counts as behind it.  Both
share the arithmetic, which is a constant of `ScriptMachine`.  Assumed of the host: it fills each predeclared label, does not run into the cells at the end of
the array, and starts anew after a call that returned false, as the packet's definition
demands.  Left out of the scripts for which the claim is made
are those the interpreter gets wrong (section 6); `Everything` puts them back.

### Attach

ATTACH and SELECT_CPU of `main.c` with what they call: `swdDapInit` (`Dap`),
`swdAttachAndEnumApsWithAhbs` (`NextAhb`, `EnumV1`, `EnumV2`), `memapInit`, the stages of
`cortexInit`, and `cpuAttach` and `cpuSelectCore` on the host.  The target is a row of access ports,
with a CPU of three kinds behind them, none, a big-endian bus or no bus.
Every access may fail.  History: `faulted`, `lost`, `was`.

### CoreControl

The commands of run control and register access, one access to the target per
step, against a core that executes, halts and is reset in between, by the probe (`Resets`) or by
its pin or a watchdog (`ResetsUnasked`).  `val`,
`ctr`, `i`, `buf`, `res` are the handler's locals; `op`, `todo`, `saved` the host's
operation and what is left of it, so that `cpuResetStop` is a sequence of commands that may
each fail.  `untold` holds the stop reasons that arose and were not yet told or lost, `again` those of the
answer on its way that arose once more.  What a reset nobody asked for makes untrue, and the code cannot
notice, is kept apart: `freed`, it let the core go after the probe had seen S_HALT; `steady` and `sure` become
false.

### FlashTables, FlashScript

`FlashTables` has the pure part of `script.c` as functions and operators: decoding sizes,
expanding, sorting and checking the blocks, areas, range checks.  `FlashScript` is
`eraseOpDo`, `writeOpDo` and `scriptRun` (`Prepare`, `Go`, `Stopped`, `Waiting`, `TimedOut`)
with the target: a script that works on a block, fails, hangs or
calls the tool back, as often as it likes, and `flash`, cell by cell.  `Regular` says what the two loops rely on
of the tables and do not check; for descriptions that are `Plain` it is part of `TablesRight`, which is proved.  An address unit is a word: write sizes below
a word, for which an upload takes more of the file than the block holds, are not covered.

### MemBytes

`memioRead` as `read` and gdb's `m` use it (`ReadChunk`, `ReadReturns`), `debugMemWrite` with
`debugMemWritePartial` (`PartialReads`, `PartialWrites`, `WriteWords`), `memioWriteFromFile` as
`upload` uses it.  A call of `cpuMemRead` or `cpuMemWrite` is one step that may fail, a write after some of its
words; `MemAp` and `UsbLink` say why.  `ByteMemory` promises a range of bytes, in order,
without words or chunks.  It allows one thing of the words at the ends of a write: a
change that the target makes between their being read and written back is undone.
`ImplementsBytes` adds that every request is answered, unless the file of an upload fails to be
read: `readFileBytes` then never ends (`FileUnreadable`).

## 4. What is checked

| run | shows | bounds |
|---|---|---|
| `memap_read` | `ReadReturnsMemory`; `TarTracksCurAddr`; `ReadyConfigured`: `memapInit` accepts only configured APs; `CallReturns`, whatever the target answers | 2 APs, 4 words in pages of 2, reads of 3 words, 2 tries |
| `memap_impl` | `WriteStored`; `IInv`; `MemAp` implements `TargetMemory` | 1 AP, reads and writes of 3 words; SELECT writes arrive |
| `usb` | `TransfersRight`: while answers are in time reads are fresh and from the selected core, acknowledged writes applied, no word strays; with stale answers queued `ReadRightAddress`, `StepsExecuted`, `IInv`; `CallReturns`: every call returns, but on a runt and, with answers late, on an empty one | 2 cores, 3 words in packets of 2, 2 calls, 2 tries, 2 packets lost or damaged |
| `gdb_fails` | `PictureTrue`: cache, core and gdb agree until gdb interrupts, though commands fail; blocking, breakpoints, one stop per resume, every stop told | 2 registers in a set, 2 comparators, 6 packets, Ctrl-C at any moment |
| `uart` | `QueuesSafe`: no byte is stranded, unless a callback in an interrupt cuts into the TX handler; both directions implement `Pipe`; every byte leaves its ring, with the same exception | rings of 3, packets of 2, 2 values from the PC, 1 from the target |
| `codegen` | `Intact`: code and cells do not meet, labels stay; a call fails only when the array is full; the script runs as asked; a run ends | 5 opcodes, 1 predeclared label, 2 jumps, 1 other instruction, the clock looked at every 2 turns |
| `attach` | `ReplyParses`; every core that answers is listed; cores are left clean; what the host takes for the current core is the selected one, but for the only core of a reply that another port follows (`OnlyCorePassed`); an attach ends | 3 ports of 5 kinds, 2 attaches, room for 2 cores |
| `core` | a stop reason is told once for each time it arose; an answer that the core stands is true when it is sent, unless a reset of its own came after the look; a caught reset catches; registers are right; an operation ends | 2 registers, 1 poll, 2 operations, 1 answer lost |
| `flash` | `TablesRight`, `RangesRight`; a write leaves a prefix of the file and touches nothing else; a success is one; an operation ends, unless the script calls the tool for ever | 8 words, 2 pieces, 3 words of file, 1 answer lost |
| `bytes` | `MemBytes` implements `ByteMemory`, including that every request is answered, but an upload of a file that fails to be read | 4 words of 3 bytes, chunks of 2, one request of every kind, place and length, one change by the target |
| `gdb_forgets`, `attach_only` | the disagreements 1 and 2 of section 6 | as `gdb_fails`, 5 packets; 2 ports |

**Why the bounds are enough.**  A transfer treats its first word, an inner word, the
last word of a page and the last word of the call differently; three words in
pages of two over four words of memory have all of these, in each alignment, and the
wrap at the end of the address space.  Two tries have a first, a repeated and a
last attempt; 256 are only more of them.  A call leaves nothing behind for the
next but the statics, the target's registers and one access in flight, so two
calls meet every such leftover.  On the USB link two calls are needed for an
answer to an earlier call to meet a later one, two tries for a request to be
executed twice.  In the GDB server two registers in a
set show one that is misplaced, two comparators show one breakpoint taking
another's, and five packets hold a failed insert, a second one, a remove and a
resume.  A ring of three holds two bytes: empty, full, neither, and every
position of the wrap; what the target sends differs from what memory starts with, which shows a slot
read before it is written, and that bytes of any value keep their order is proved.  Five opcodes hold two instructions, an exit and a cell, and all ways
for the two cursors to meet.  Three ports show a first, an inner and a last one and
more cores than there is room for; the second attach meets what the first
has left.  Two operations let a stop reason outlive the command during which it arose, and vector catch
the `cpuResetStop` that failed.  Two
pieces of flash touch, overlap, nest, or leave a gap; eight words hold two blocks of two
sizes and the end of the address space.  Words of three bytes have a first, an inner and a last
byte, and four of them make a range with both ends cut, a full chunk and one that is not; a
request leaves nothing for the next but the memory.

Bounds that are not in the code are `MaxCalls` (of `UsbLink`), `MaxLost`, `MaxReqs`, `MaxOps`, `MaxAttach`,
`MaxTouches`, the lengths of programs in `Codegen` and `Asked` in `FlashScript`;
`CHECK_DEADLOCK FALSE` stands where they, or the end of a session, stop the system.
`MemAp`, `UartBridge` and `Codegen` have no deadlock.

**Fairness.**  `MemAp`: the driver is straight-line code in the main loop and the
host side of SWD drives the clock, so `WF(Attempt)`; nothing is asked of the target, which may
answer WAIT for ever.  `UsbLink`: weak fairness of the tool's own steps; the pipe
read returns after 500 ms with or without data, and the firmware owes nothing.
`GdbServer`: weak fairness of the loop and of gdb's reading; `SF(Reports)` says that a
command that is repeated for ever is at some time answered (the loop asks anew on
every turn).  A core that runs need not stop, and gdb need not ask anything.
`UartBridge`: a handler or callback that has begun goes on, a pending interrupt is taken and the main loop goes
round whenever higher priorities leave time, which they do again and again, and the PC reads its endpoint
now and then: strong fairness of `TxIrq`, `WorkPeek`, `WorkDequeue` and `WorkSend`, weak of the callback.
`Codegen`, `Attach`, `CoreControl`, `FlashScript`, `MemBytes`: weak fairness of the program's own steps; the
script, the core and the target owe nothing, and in `Codegen` time passes.

## 5. What is proved

For every value of the constants that the `...Assumption` of a module allows.
Each of the eight modules has an inductive invariant (`MemApProofs` two); the runs check those of `MemAp` and
`UsbLink` as well, and of the others the properties they strengthen.

- `MemApProofs`: `ReadCorrect`, `WriteCorrect`, `AddressTracked`, `Configured`,
  `TypeCorrect`.  `MemApInv` has the invariant.  The properties speak of a call that
  has returned, so on their own they say nothing of the middle of a transfer;
  `IInv` relates, at each label, `mCurAddr` to the word the call is at (`CurAddrInv`),
  TAR to `mCurAddr` (`TarInv`), the posted read or the read buffer to the next word
  of `buf` (`ReadInv`), the write in flight to the last word handed over (`WriteInv`), and
  says when no write can be in flight any more (`FlightInv`).  `sticky` appears in
  each: once it is set nothing but failure can follow.  All is under `Coherent`, that
  the SELECT write arrived (section 6).  `PromiseKept` is the refinement of `TargetMemory`
  (`ImplementsPromise`), under `SelectSpec`: it adds that the statics then are what SELECT
  holds whenever it is relied on (`CohInv`) and that a word in flight goes to a configured AP
  (`WideInv`).  Putting a word is `Give`, its completion `Land`, a failure `Spoil`, and a call
  ends in one of the two returns; every other transaction is a stutter.
  `BytesServed`, in the same module, is the safety part of the refinement of `ByteMemory` by
  `MemBytes` (`ImplementsBytes` without its liveness), for every word, chunk and memory that is a whole number of words.
  `ByteInv` says how many bytes a read has got when it has passed some words
  (`ReadSoFar`), where in the memory and in the request's data a write stands (`WritesOn`), that the
  word being merged holds at each byte what was there or is there now (`MergeRight`), and that
  what the request has not reached has changed by the target's hand only (`Beyond`); without the
  last, a merge could not be told from a write beside the range.  `ReadRange` shows that the
  rounding of a read either wraps to no words at all or covers the range within the memory; `WordIn` and `BesideRight`
  that a merged word lies in the memory, at an end of what is written.
- `UsbLinkProofs`: `RightAddress`, `StepsReal`, `TypeCorrect`, with answers that may be
  late without limit, and `TransfersInTime` (`TransfersRight`).  `IInv` describes the pipes: each word in them lies at the
  place its packet's address gives it, and there are never more answers of successful
  steps, taken or on their way, than steps the core made.  `TransfersInTime` is about both pipes at once and
  about the loop that takes answers, as long as none is late (`TimeInv`): unanswered packets of writes, for the selected core, are queued in front of at most one
  request that wants an answer, the one the tool waits for (`Queued`); an answer in the pipe is to that request
  and everything before it is executed (`Answered`); and the two sides agree on the core unless a SELECT
  is under way (`Agreed`).
- `GdbServerProofs`: `BlocksOnlyWhenHalted`, `BreakpointsStay`, `TypeCorrect`, with
  Ctrl-C and failures at any moment.  For a breakpoint to stay, the comparator that
  holds it must belong to a slot in use that records its address (`Tracked`); without this
  a remove or an insert could take its comparator.  Without Ctrl-C also `StopsToldOnce`
  (`NoSpareStop`), `GdbBelievesTruth` and `PictureHolds` (`PictureTrue`).  `Calm` says whose turn it is: at
  most one packet is on its way, a stop reply only when gdb waits for one, and the loop has the answers
  it owes.  `Mirrored` and `Cached` relate each cell of the cache to the register of the core it
  stands for and to what gdb last wrote, with the cells that a flush has got to.  `PictureHolds` assumes
  `KnownRegisters`: the core has no FPU and gdb writes R registers only.  With S16..S31 in the cache, or a write
  under the numbers of F registers, FPS or CPSR, `PictureTrue` is false (section 6).
- `UartBridgeProofs`: `BridgeSafe`, for rings and packets of every size, and a callback in the main loop or
  in an interrupt.  `IInv` adds to `QueuesSafe` that the byte of `cbWrite`'s second store is still there and has
  room (`Room`), that the mask the USB callback is about to store has reception enabled, and that what the TX handler
  found out still holds when it changes `IEN`, unless a packet has cut in (`HandlerKnows`).  That one case, `cut`,
  is what `NoneStranded` excepts: there the bytes do stay (section 6).  `BridgeIsPipes` is the refinement
  `ArePipes`: each direction implements a `Pipe`.  Its lemmas say what an enqueue and a dequeue do to the
  content of a ring.
- `AttachProofs`: `RepliesParse`, `CoresFound` (`AllCoresListed`), `CoresClean` (`LeftClean`),
  `CurrentSelected` (`SelectedIsCurrent`), for every number of ports and of breakpoint and watchpoint
  units.  `SelectedIsCurrent` excepts the only core of a multicore reply when another port was looked at
  behind it, where it is false (section 6).  The invariant says what the scan has listed of the ports it has passed, what a reply that is
  being built or parsed still owes, and which steps of the clean-up of a core are behind it.
- `CoreControlProofs`: `ReasonsSafe` (`ReasonsToldOnce`), `AnswersHonest` (`HonestAnswer`), `ResetCaught`
  (`CaughtAtReset`), `RegistersRight` (`RegsRight`), while the core executes, halts, sleeps and is reset at any moment, by
  the probe, its pin or a watchdog.  A reset that nobody asked for does falsify an answer whose look at S_HALT lies
  before it (`freed`); it leaves the vector behind for `CaughtAtReset` (`sure`) and the registers for
  `RegsRight` (`steady`), and the properties except just that.  `Reasons` says where a stop reason is: in DFSR, in the
  answer under way, or told; `Stands` that from the look at S_HALT on nothing but such a reset lets the core
  go; `Moved` how far a loop over the registers has come.
- `CodegenProofs`: `FullOnly` (`FailsOnlyWhenFull`) and `StaysIntact` (`Intact`), for arrays of every size,
  every set of instructions and any number of labels.  The invariant keeps, next to the array, where
  every instruction starts and what every label cell was filled with: `Code` says that each instruction
  still has its opcodes in front of `head`, with the place its label leads to now, `CellsApart` that each
  predeclared label has a cell of its own behind `tail`, and `Known` that a label once valid stays valid.
  What makes them inductive is that the place of a label never changes, not even of one for the next
  instruction once that is added (`WhereKept`, `WhereKeptByCells`).  That registers hold words, which is part
  of `Intact`, is `WordInv`: every opcode of the array has operands that fit, and a load of more than 8 bits
  has the words that belong to it behind it (`FineArray`; `LoadFine` for each encoding of a load), so that
  the interpreter never reads a piece of one instruction as one of another.  `BitsAreWord` says of the bitwise operators, which go
  bit by bit, that two words make a word; it is proved by induction on the number of bits.  `AsAsked` is the refinement of `ScriptMachine`
  (`RunsAsAsked`, with `Everything` FALSE).  It adds that the code has no gaps and ends in erased opcodes
  (`HistInv`), and that the interpreter, and every call it will return to, is at a `Spot`: the first
  opcode of an instruction, a cell, the erased part or the end of the array; or in front of a branch whose
  condition held when it was tested (`InBranch`), or in a load with the register still to be inverted (`InLoad`).  There is
  one lemma per kind of instruction (`FollowCall`, `FollowSkip`, `FollowInverted` and so on): cells and skips are stutters
  of the script, a load is its first opcode, and cells that lead to each other stand for no instruction until the time is over.
- `FlashScriptProofs`: `TablesKept` (`TablesRight`), `RangesAnswered` (`RangesRight`), `PrefixLeft`
  (`LeavesPrefix`) and `SuccessDone` (`SuccessIsDone`), for descriptions, tables, ranges and files of every size and any
  number of lost answers.  The last two have as hypothesis that the pieces are plain or that the tables are
  `Regular` all the same (blocks end at or below the last address, erase blocks are made of whole write
  blocks); the code accepts other descriptions, and section 6 says what becomes of them.

  *The tables.*  The module's recursive functions (`PowerOfTwo`, `Merged`, `SortedChunks`, `Cover`, the library's fold
  and flatten) are solutions of their equations by one recursion theorem (`Recursion`, `Typed`), proved from
  the least number principle; what they compute is then proved of a smallest counterexample (`Smallest`, `Induct`).
  `Sorts`: the merge sort keeps every block as often as it was there (`Same`) and puts them in order.  A plain
  piece is filled by its blocks, which do not overlap, write blocks within erase blocks (`PieceFilled`,
  `PieceNests`); the pass over the sorted blocks finds two that overlap exactly if there are any, in spite of its early
  `break` (`OverlapIs`); the sizes of blocks that are apart add up to the number of cells they hold, so that the
  check of the total refuses nothing that is apart (`TotalIs`).  From that `TableTiles`, for both tables; an area
  begins exactly where a block does not follow its predecessor, and every run of cells without a gap lies in
  one area (`AreasFound`, `RunInArea`, `AreasAreMaximal`).

  *The ranges.*  A walk over blocks that arrives has filled what it went through (`WalkedIsFilled`), and where blocks
  fill a range the walk cannot miss them, since they are apart (`FilledIsWalked`), so that `Cover` is the
  shortest filled range that is long enough (`CoverFills`); `TablesKept` gives what this needs of the tables.

  *The operations.*  `PlaceInv` says that the loop is at the start of a block from which the blocks lead to the very
  end of the range (`Reaches`), `JobInv` that the script's block is the loop's or was, `CoreInv` that
  without a loss the core is still whenever the loop moves on, and `CellInv` what each cell of the range holds: done,
  being worked on, or left by the erasing.  A suggested range can be walked (`Suggested`, `StaysBelow`), and write blocks
  fill what erase blocks fill (`Refined`).

What the proofs assume of the constants beyond what a run needs is that there is at least one
register (`CoreAssumption`), that a reply has place for more than one number (`Low > 1` in
`Attach`), that there are addresses 0 and 1 (`TableAssumption`; a script answers with either), that a description is a
sequence of raw pieces (`LayoutsAssumption`, what `scriptLoad` reads from the target at `script.c:841`) that the operands of an uploaded instruction are what fits into its packet
(`CodegenAssumption`), and that a word has a number of bits, can hold a place in the array, and is what a native function
leaves in a register (`WordAssumption`; 32 bits, 256 places).

Only model-checked: liveness, with it the half of `ImplementsBytes` that says requests are answered.

## 6. Where code and documentation disagree

With a run:

1. `gdb_forgets`: after a failed insert a remove frees the wrong slot, and a
   breakpoint stays in the core (`opDebug.c:1076`).
2. `attach_only`: the only core of a multicore reply, which `cpu.c:285` calls "already selected", is not if
   a port without a CPU follows it (`main.c:319`).  The host then reads and writes through that port.

In the models as the code has them, without a run of their own.

MEM-AP and USB:

- `memapReselect` returns true although its SELECT write failed (`memap.c:39`);
- the loop that drops stuck answers does not notice one to an earlier read of the same
  address (`cpu.c:461`);
- the loop that takes answers does not read again after `continue` (`debugger.c:496`, `:520`): a packet
  shorter than its header, or a late empty answer to a TRACE that the next command meets, keeps it for
  ever, though the comment promises "num bytes of payload or PACKET_RX_FAIL" (`debugger.c:413`): the
  two exceptions of `CallReturns`;
- `cpuGo` and `cpuReset` report success when no answer came (`cpu.c:529`): `OutcomeOfFailure`, and
  the second way to continue in `GdbServer!HandleContinue`.

UART bridge:

- a USB callback that runs in an interrupt (`plat-efm.c:771-783`) can cut into the TX handler between its last
  `cbRead` and `IEN &=~ TXBL` (`plat-efm.c:118-121`); the handler then turns itself off in front of the new bytes, which wait for the
  next packet.  Whether the boot loader calls back from there is not in the repository.

GDB server:

- Ctrl-C that crosses a stop is answered by S11 and then by S05 (`opDebug.c:1184`):
  `NoSpareStop` fails without its `Uninterrupted`;
- registers S16..S31 overwrite S1..S15 in the cache (`opDebug.c:489`, `:514`):
  `PictureTrue` fails with `HasFpu = TRUE` in `GdbFails.cfg`;
- a write of CPSR is answered OK and goes to no register, since the first condition of
  `debugGetRegFromStr` is always true (`opDebug.c:583`): `PictureTrue` fails with `N = 4` and
  `GdbRegs = {0, 7}` in `GdbFails.cfg`;
- the same condition sends a write of F0..F4 to the cells of xPSR, the stack pointers and the controls, and one of FPS to a
  cell that means nothing; of the eight bytes of an F register four are left over, which ends the session without a reply
  (`opDebug.c:890`): `Wide` and `Meant`;
- a packet that writes all registers is never recognised: `G` is compared with the whole packet
  (`opDebug.c:896`).

Scripts for the interpreter: the opcode that ors two registers ands them (`codegen-run-generic.c:123` against
`swdCommsPacket.h:209`): `RunsAsAsked` fails with `M = 8`, `MaxPlain = 2`, `Everything = TRUE` and `Source <- MCDocSource` in
`Codegen.cfg`.  `push` pushes the program counter, shifting left by a
constant ends the script, a jump on negative is never taken, a load of 24 or 32
bits is refused when it would just fit, and `codegenExtNativeFunc`'s second branch in `main.c` cannot be
reached.  Registers 4 to 7 start uninitialised.

Attaching:

- `memapInit`'s failure is reported as one of SWD or the core, though a comment
  says otherwise (`main.c:325`);
- the old attach command does not report that there is no AHB and tries port 0 (`main.c:343`);
- one big-endian AHB hides every core; when no selection succeeds `cpuAttach` goes on with
  `curCore` one past the list (`cpu.c:286-295`).  `Attach` does so; `UsbLink` starts behind an attach that went well;
- a failed access may leave the FPU's access open; a CPUID that cannot be read leaves the breakpoints of high
  number on;
- with 256 ports the last of which is an AHB, the enumeration starts over.  The models have fewer.

Core control:

- a retry counter that runs out leaves 255 and counts as success, a core that gets ready
  exactly at the last poll as failure (`cortex.c:163`): `ranOut` marks it, and `RegsRight`
  excepts it;
- a pin or watchdog reset between the look at S_HALT and the answer makes the answer untrue, one within a
  register command mixes registers of before and after (`freed`, `steady`);
- the read "just to clear the bits" after a reset (`main.c:510`) clears nothing if the core
  halts later;
- a `cpuResetStop` that fails leaves vector catch on (`cpu.c:554`).

Flash:

- a status answer that is lost takes DWPTRAP with it: a call of the tool is read as the end of the script, and
  R0 = 1 as its success.  A "go" that is repeated passes a call over; one that is never
  answered counts as done, with the block's address in R0 as success.  `SuccessIsDone`
  therefore speaks of operations in which nothing was lost;
- a failed "go" leaves the script running; the timeout is looked at only while no stop is told and
  is not restarted after a call (`script.c:678`), so a script that calls the tool for ever is never ended
  (`script.c:693-725`): `OpEnds` excepts it;
- erase sizes that are no multiple of the write size leave holes in the table and
  let the write loop spin on a size of 0; an overlap of the last address is not
  seen, since `end` is 32 bits wide (`script.c:461`).  `TablesRight` takes these out (`Plain`).

Bytes: an error while the file of an upload is read that is not its end keeps `readFileBytes` for ever
(`memio.c:12`): `FileUnreadable`; `FlashScript` takes the file as readable.  The length of an upload is rounded up in 32 bits (`memio.c:24`), so one of the last
three lengths to address 0 moves nothing and succeeds; its address need not be aligned.

## 7. What is not modelled

- Power supply: a switch and one write to a DAC over I2C, straight-line code.
- Firmware update (`tool/opFwUpdate.c`): it sends blocks in turn to a boot loader that is
  not in the repository.  `blupdate-efm.c` writes flash from RAM with interrupts off and, with
  `DESIRED_BL_VER` 1, never runs.
- Trace: the probe's side is one destructive read, the host prints.
- Of the flash scripts: their choice by CPU, their upload and init stages, names of areas,
  erase-all (one `scriptRun`).
- Of the GDB server: text and checksums of packets, watchpoints (as breakpoints).
- Unaligned uploads and uploads without acknowledgement in `MemBytes`; the latter are in `UsbLink` and
  `FlashScript`.
- `codegen-run-armv6m.c`, which the build does not use; the Lua bindings; argument parsing and printing of the
  tool; bit timing on the wire (`wire-*.c`), USB enumeration, the line coding of the UART, LED and start-up:
  straight-line code or I/O.
- Vendored code: device headers, hidapi, Lua, the superseded `tool/oldtool`.  The flash
  loaders of `tool/SCRIPTS` run on the target.
