# A formal model of the RV32I SoC and its tools

TLA+ modules for the processor, the board-level SoC, its firmware and the Python
tools that verify, build and publish it; TLC configurations that check them on
small instances; and TLAPS proofs that hold for every instance. A clocked block is
modelled as its registers and one action per clock edge, its combinational signals
as operators under the names the RTL gives them. A tool is modelled as the files
and processes it touches and one action per step that somebody else can fall
between.

Run one check with `tlc -config MCPipeline.cfg MCPipeline`, one proof with
`tlapm SocBus_proofs.tla`. `PROJECT.json` lists components, runs, mutants
(a plausible bug for each property, which the run must catch), the source lines
of every definition, hazards, findings and theorems.

## 1. The system

| Component | State | Operations | Talks to |
|---|---|---|---|
| `frontend.sv` | fetch PC, IF/ID | fetch, predict, redirect, hold | I-cache, predictor, RAS, back end |
| `branch_predictor.sv` | BTB, 2-bit counters, global history | predict, update | fetch (read), EX (update) |
| `ras.sv` | circular buffer, pointer, count | push, pop, replace | fetch |
| `backend.sv` | ID/EX, EX/MEM, MEM/WB | decode, forward, resolve, commit | register file, CSRs, data port |
| `csr.sv` | M-mode registers, timer, counter offsets | read, write, trap entry, MRET | commit point |
| `icache.sv` | tags, data, victim, refill state | hit, refill, FENCE.I | fetch, memory port |
| `dcache.sv` | tags, dirty bits, data, refill / write-back / flush state | hit, miss, direct access, flush | MEM stage, memory port |
| `wb_master_adapter.sv` (two) | request latch, state | accept, wait, deliver | core port, arbiter |
| `wb_arbiter.sv` | owner, last contested | grant, release | adapters, interconnect |
| `wb_interconnect.sv` | transaction latch | decode, forward, respond | arbiter, slaves |
| `wb_imem.sv`, `wb_dmem.sv` | array, busy flag | one access | interconnect |
| `wb_uart.sv`, `uart_tx.sv` | register state, frame, divider | store, poll, shift | interconnect, the line |
| `wb_gpio_irq.sv` | LED, pending, enable | access, button event | interconnect, debouncer, core |
| `button_debounce.sv` | synchroniser, counter, level | sample | board pin, GPIO |
| `reset_controller.sv` | power-on count, synchroniser | assert, release | board pins, everything |
| `firmware/demo.c`, `start.S` | `irq_count`, program position, trap frame | start-up, banner, interrupt handler | UART, GPIO, CSRs |
| `tools/rand_gen.py`, `rv32i_model.py` | the program so far; registers and memory | generate, execute | Spike, RTL |
| `tools/lockstep.py` | two children, the parser of a growing log, a deadline | start, poll, read, judge, reap | Spike, RTL simulator |
| `tools/prepare_references.py` | a checkout, a build directory and its stamp | fetch, check out, reset, build | git, make |
| `tools/verification.py`, `results.py` | run directory, receipts, `results/` | run, receipt, collect, publish | everything measured |
| `tools/render_portfolio.py`, `evidence_check.py` | generated blocks of the documents | render, compare | `results/`, git |
| `tools/soc_image.py` | section lists, two images, a manifest | parse, check, copy | the firmware ELF |
| `synthesis/run_synth.py`, `summarize_reports.py` | report directory, manifests, rows | stage, route, publish, summarise | git, Vivado |
| `synthesis/soc/run_board.py` | staged copies, published directories | hash, stage, build, simulate, publish | images, git, Vivado |

The hardware blocks share one clock and interact through wires in the same cycle;
the tools interact through the file system. What makes them hard:

* **Two memories, one pipeline.** `pipe_stall` freezes every stage while *either*
  side is not ready. The side that is ready keeps seeing the same, already
  answered request (a second bus write, a second push of the return stack, a
  second count of a miss, a second trap must not follow), and an answer must be
  held rather than pulsed.
* **Registered reads.** Both caches answer from a register loaded one cycle
  earlier; address, way and answer must belong together across redirects,
  refills and flushes. The timer's comparison is registered as well.
* **Speculation.** Prediction by partially tagged tables and a stack that is
  never repaired, flushes, traps and interrupts all redirect fetch in the same
  cycle.
* **Latches along the bus.** Adapter, arbiter and interconnect each hold their
  copy of the transaction; slaves answer a registered cycle later and some need
  a recovery cycle; reset falls in the middle.
* **Asynchronous inputs.** Button bounce, the reset button and the PLL lock; the
  serial line, whose two ends divide the clock differently.
* **An interrupt between two accesses.** Main and handler share the transmitter,
  a poll is not a reservation, and the LEDs are read, changed and written.
* **Processes and files.** Children that hang, fail or outrun their reader; a log
  read while it is written; kills between two renames; sources edited, committed
  and reverted while a tool that will certify them is running.

What makes each correct is stated by the properties in section 3, and the
`hazards` of `PROJECT.json` give the lines where it could go wrong.

## 2. Modules

`A <--- B` reads "B is shown to implement A".

```
 AbstractBus  <----- WbFabric <--- SocBus ---> AtomicSoc      UartLine <--- UartLink
                                     |
                                     SocLatency

 AbstractMemory <---- DCache

 Isa ---> Hart <------ Pipeline ------> CallStack
                        | uses BranchPredictor, Ras

 Units = ICache | UartLink | BoardInputs | TimerInterrupt | Firmware
                             BoardInputs = ResetController + ButtonDebounce
 Tools = RandomProgram | SocImage | Lockstep | SynthReports
 Board = References | BoardFlow                               Evidence
```

| Module | Models | One step is |
|---|---|---|
| `WbFabric` | two adapters, arbiter, interconnect, `bus_fault` | `Tick`: a posedge; `Reset`: a posedge with `rst` |
| `AbstractBus` | what the fabric promises: a request is served once, answered once, at the right client | a cycle: `Present`, `Latch`, `Serve`; `Reset` |
| `SocBus` | the fabric (which it extends) with the real memories, UART and GPIO | `SocTick`, `SocReset` |
| `AtomicSoc` | the register table of `docs/soc.md` as atomic operations | one access, or a device event |
| `SocLatency` | `SocBus` with a history of how long each client waits | `TimedTick`, `TimedReset` |
| `UartLink`, `UartLine` | `uart_tx.sv` and the decoder of `sim/soc_tb.cpp`; a frame as a countdown | a posedge |
| `ButtonDebounce`, `ResetController`, `BoardInputs` | the two asynchronous inputs, alone and composed | a posedge, or a change of the reset input |
| `DCache`, `AbstractMemory` | `dcache.sv` between the MEM stage and a memory | a posedge |
| `ICache` | `icache.sv` between fetch and a memory | a posedge |
| `Isa` | decode, ALU, branches, exceptions, CSR accesses, trap entry | operators only |
| `Hart` | a processor that executes one instruction per step | an instruction, or its exception |
| `BranchPredictor`, `Ras`, `CallStack` | the two predictors; the call stack the RAS approximates | a posedge; a fetch |
| `Pipeline` | `frontend.sv`, `backend.sv`, `rv32i_core.sv` | a posedge |
| `TimerInterrupt` | `mtime`, `mtimecmp`, the registered MTIP, MSIP, `mie`, `mstatus`, interrupt priority, at the commit point | a cycle with what MEM commits in it |
| `Firmware` | `demo.c` and `start.S` over the devices as `AtomicSoc` has them | one device or CSR access, or a device event |
| `RandomProgram` | `rand_gen.py` and the machines its programs run on | one instruction generated, or retired |
| `Lockstep` | `lockstep.py`, both children, the clock | one step of the runner or of a child |
| `References` | `prepare_references.py` with its environment | one git or make command, or an interference |
| `SocImage` | `soc_image.py`: acceptance of sections, copy into images | one iteration of a loop |
| `SynthReports` | `run_synth.py` and `summarize_reports.py` | one routed configuration, one file read, one rename |
| `Evidence` | `verification.py`, the publication of `results.py`, rendering and the evidence check | one command or rename, an edit, a commit, a kill |
| `BoardFlow` | `soc-firmware`, `run_board.py` and `collect-soc` | one hash, copy, rename, write; an edit, a commit, a failure |
| `Units`, `Tools`, `Board` | units, tools and board tools that share nothing, side by side | a step of the one in use |
| `SocBus_proofs`, `DCache_proofs`, `ICache_proofs`, `Pipeline_proofs`, `Units_proofs`, `Tools_proofs`, `Evidence_proofs`, `Board_proofs` | invariants and theorems, section 4 | |
| `MCWbFabric`, `MCSoc`, `MCDCache`, `MCPipeline`, `MCTools`, `MCEvidence`, `MCBoard` | finite instances for TLC; `Units` needs no more than the constants of `MCUnits.cfg` | |

Modules that share nothing are put together in `Units`, `Tools` and `Board`: a
behaviour is of the unit or tool chosen at its start, the others stay in
their initial states, and the fairness of each applies to its own behaviours. The
states are those of the separate runs put side by side. It also gives their
constants, assumptions and proofs one place.

Definitions that begin with "Fault:" in their comment are not part of a
specification. They are plausible bugs, each a changed version of the definition
that follows, with which the property's run must fail.

### How state and actions correspond to the code

**Fabric.** The variables are the registers of the three blocks: `mstate`,
`held`, `fault_pulse` (adapters), `owner`, `last_contested` (arbiter), `active`,
`selection`, `instr_q`, `bus_q` (interconnect), `resp` (the slaves' registered
answers), `bus_fault`. `src` is the core's port. The client contract (hold a
request until ready) is what `docs/soc.md` requires and what the caches and the
frozen pipeline do. A slave in `WbFabric` is anything that answers a selected
transaction at most once; `SocBus` puts the real devices there, and the property
`DevicesKeepContract` says that they are such slaves: the run shows it for one
memory map, `DevicesKeepTheContract` proves it for all.

**Caches.** `port` (or `pc`) is the request the pipeline presents; it changes
only on a step where both sides are ready, which is the pipeline's `advance`. The
other side's readiness is a free input, so every overlap with its stalls is
explored. A value the RTL would never let anyone look at (the registered read
of a line being refilled) is `NoWord`: if it were delivered, a property would
fail. `prev_hit`/`prev_addr` are merged in one variable, `hit_addr`. A word of
`ICache` is its address with the parity of the FENCE.I count when it was read.

**Pipeline.** `if_id`, `id_ex`, `ex_mem`, `mem_wb` are the structs of
`rv32i_pkg.sv` with the control bits folded into the instruction: a bubble is
the instruction `Cleared`, for which every control operator is false. `Clock`
has three inputs: `fetch_ready`, `data_ready` and `irq_external`, free in every
cycle except that a data side without a request is ready. All of EX, the hazard
unit, the forwarding muxes, the commit priority (trap, MRET, CSR, FENCE.I,
interrupt), the redirect priority and the freeze are modelled. Abstractions:

* a word has `WordBits` bits and counts half-words, so that a misaligned address
  (odd, here) exists and an instruction is two units; sub-word loads and stores
  and bit 0 of an address are below this resolution;
* one operation stands for each group of opcodes the pipeline treats alike
  (`add` for register-register, `addi` for register-immediate, `beq`/`bne` for
  branches, `csrrw`/`csrrs`/`csrrwi` for CSR accesses); what differs inside a
  group is combinational;
* of the CSRs, the bits that exist are renumbered to fit the word; `mtval` of an
  illegal instruction is its address instead of its bits; the timer and the
  software interrupt are in `TimerInterrupt`, the counters are left out;
* register fields that carry immediate bits decode as x0;
* the instruction memory is read-only and a data memory stands for the data port;
  the store to `tohost` is an ordinary store; the reset edge is not modelled;
* `settled` is a history variable: data memory as of the last advance, which is
  what the program has seen of it.

**Timer and interrupts.** In each cycle the instruction in MEM traps, returns,
writes one CSR, completes as a plain instruction (behind which a pending interrupt
is taken) or none commits; the timer moves in every cycle, and MTIP is last cycle's
comparison. The program is any sequence of those, so the property holds of every
handler. `Top` is the largest value software can write to `mtimecmp`; one above it
`mtime` stops, because from there on every `mtimecmp` a program can write is due.

**Firmware.** A step is one access: a STATUS poll that found the transmitter free
(the polls that do not are the waiting for it), a TXDATA store, a store to a GPIO
register, a CSR write. The interrupt may fall between any two, except while a store
waits for the line, when the pipeline is frozen. `frame` is the stack frame of
`trap_entry` with `mepc`. Characters are positions in their text. Only the external
interrupt is enabled and no access faults, so the handler's branch for another cause
cannot be reached from this code.

**Tools.** Contents of files are version numbers, and a SHA-256 stands for the
contents it was taken of. `Lockstep` lets Spike's log grow by half lines, so that a
read may end inside one. In `Evidence` and `BoardFlow` a developer edits,
commits and restores between any two steps and a tool may fail or be killed at
each; a directory is replaced by the renames and removals the code performs, one
step each. An edit gives a part a new version or one it had before, and what is built
of restored sources has the bytes it had then. `BoardFlow` notes two histories on which
`SocRecordIsGenuine` depends: in a job, an edit between the identification of the
checkout and the last copy out of it (`overtaken`), and the versions of the firmware
that were left and restored (`returned`), see section 6.

## 3. What the runs check

| Run | Shows | Bounds |
|---|---|---|
| `bus_fabric` | `FabricInv`: adapters carry their client's request, the three copies of a transaction agree, an answer belongs to the slave and client that wait for it; `ImplementsAbstractBus`, resets included | 4 fetch and 9 data requests over every region, hole and misalignment; 2 data values |
| `soc` | `ImplementsAtomicSoc`: with the real devices each access is atomic and answers as the register table says, a TXDATA store starts exactly one frame, no button event is lost to a clear; `DevicesKeepContract`: the real devices are the slaves `WbFabric` assumes; `BoundedLatency`: the exact worst waits are `FrameCycles` for data and `FrameCycles + 4` for fetch | 2 lanes, 2 bytes, one-word memories with an address past the end; three workloads: memory and stores to TXDATA, GPIO with button presses, and UART with polling fetches, in which waits are counted; a frame of 10 cycles, longer than any other wait |
| `soc_stall` | *violation*, finding 1 | the real frame, 4340 cycles |
| `units` | see the next table | |
| `dcache_write_back` | `ImplementsMemory`: the cache and its memory are one memory; `CleanLinesMatchMemory`; `FlushDrains`; `EveryAccessAndFlushCompletes` | 1 set, 1 way, 2-word blocks, 2 blocks competing for the line; 1-bit words; stores to the first and the last cacheable word |
| `dcache_write_through` | `NoDuplicateAccess`: direct accesses reach memory once; `NoDuplicateLines`; `MissCountedOnce`; `ImplementsMemory` | 2 ways, 3 blocks, an uncached register, to which stores go as well |
| `pipeline` | `ImplementsHart`: nothing lost, repeated or done on a wrong path, precise traps, interrupts between instructions; `ForwardingCoversPairs`: each operand has its architectural value; `ImplementsCallStack`: the RAS is a stack of the last calls, moved once per fetch | 2197 programs, see below |
| `pipeline_link` | *violation*, finding 2 | one program |
| `tools` | see the next table | |
| `evidence` | `ReceiptIsOfThisRun`, `SetNeverLost`, `AcceptedSetIsWhole`, `CurrentMeansMeasured`, `EvidenceRecovers`: no result set is lost, none that was altered is accepted, evidence called current was measured on this RTL, and what the check refuses can be mended, but for the two lockouts of section 6 (`LockedOut`) | 2 documents, 2 commits, 2 edits of RTL, testbench, harness tests and pins, 1 failure or kill: a change and its reversal, or changes of two parts, committed or not, around a run that dies once |
| `rtl_commit` | *violation*, finding 3 | as `evidence` |
| `board` | `PreparedIsPinned` (`References`); `SocRecordIsGenuine`: the recorded ELF is the one in the bitstream, unless its sources were restored, and so is the RTL, unless it was edited under the build; `PublishedIsKept` (`BoardFlow`) | 2 pins, unbounded kills and edits; 2 commits and, in separate instances, a build with 1 edit and 1 failure, a build with 2 edits, a post-route simulation with one of each: sources and images change, and change back, under a running build, and two builds follow each other |

| Run, unit | Shows | Bounds |
|---|---|---|
| `units`, `ICache` | `FetchDelivers`: every word IF/ID takes is the right one and younger than the last FENCE.I; `EveryFetchCompletes` | 2 ways, 2-word blocks, 3 blocks |
| `units`, `UartLink` | `DecodesWhatWasSent`: every byte arrives once, in order and without framing error, at every spacing; `ImplementsUartLine`: a frame is ten bit times | 8 bytes (the first and last bits alone, alternating, equal); divisors 19 and 18, the smallest pair with the decoder one short; all divisors and bytes are proved |
| `units`, `BoardInputs` | `InputsAreClean`: reset asserts at once and is released on time, a bounce makes no event and a held level is not missed; `OneEventPerPress` | 16 power-on and 5 stability cycles: longer than the synchronisers, so that a reset can fall at every stage of a press |
| `units`, `TimerInterrupt` | `AcknowledgedStaysQuiet`: a handler that moves `mtimecmp` with interrupts disabled and returns is not entered again before that time | `Top` 5: time to be interrupted, acknowledge, return and be entered again |
| `units`, `Firmware` | `TextIsWhole`: the banner's characters come once and in order, a message of the handler is never cut; `LedsCountPresses`: one LED change per interrupt, never more interrupts than presses; `PressIsShown`: every press after start-up is shown | banner of 3 characters, message of 2, 3 presses: one before, during and after another's message |
| `tools`, `RandomProgram` | `MachinesAgree`; `ToolsTerminate`: each program gets to its loop | 2 instructions, 2 registers, 1-bit data |
| `tools`, `Lockstep` | `VerdictIsTrue`, `NoChildOutlives`; `ToolsTerminate`: a verdict even if both children hang, and `NobodyWaits`, that neither the runner nor the clock is ever blocked before it | 5 logs, 7 traces, one for each way to be equal, different, unfinished or malformed |
| `tools`, `SocImage` | `ImagesAreExact` | 3 sections that touch, overlap, nest, are empty or lie outside, in any order |
| `tools`, `SynthReports` | `SummaryIsOfOneRun`: what a dead run left is not taken for a set; a summary that reads while the directory is replaced is excepted, see section 6 | 2 configurations, 3 runs, 2 commits, 2 failures |

`pipeline` runs every body of three instructions out of thirteen (ALU, load,
store, both branches, two calls, a return, a CSR swap, a read of a read-only CSR
with and without a write attempt, `ecall`, FENCE.I) in a loop, so that the
predictor learns it, with nested functions and a trap handler around it. Three
is the distance at which two instructions can still affect each other through
the pipeline (forwarding from MEM and WB, the write-back bypass in ID). In three
further programs an interrupt may arrive in any cycle; in all, each memory may
stall in any cycle. Four BTB entries for sixteen instructions, with a one-bit tag,
make aliases, and a return stack of two overflows at three calls. The two-bit
counters, gshare with a one-bit history and 5-bit words complete the instance. No
jump in these programs lands on an instruction that reads the jump's own link
register when the jump may be predicted: that case is finding 2.

The cache instances use one set: the sets share the state machine and its
counters but no line metadata. `FlushLeavesNoDirtyLine` proves the walk over any
number of them.

Deadlock is checked wherever clocks run. `tools`, `evidence`, `rtl_commit` and
`board` switch it off: their behaviours end when a tool has finished and the bounds
on commits, edits and failures are used up.

### Fairness

* `SocLatency` needs none: `BoundedLatency` counts cycles and is a safety property.
* `DCache!FairSpec` and the `ICache` part of `units`: the clock runs, resets stop,
  and a memory asked again and again answers some time (strong fairness of the step
  with `mem_ready`); that is what `BoundedLatency` shows of the bus and what
  `mem_timing.sv`'s finite latency gives in simulation. Nothing is assumed about the
  other side of the pipeline: the properties promise that an access is *offered*,
  whenever the pipeline takes it.
* `Firmware`: the processor executes, a frame ends, and a pending, enabled interrupt
  is taken (weak fairness of each). The last is justified by this program: its only
  loops are the poll and `++main_loop_progress`, which contain plain instructions,
  and `backend.sv:516` takes an interrupt behind any of them. `PressIsShown` is
  stated for behaviours whose resets stop; a press that comes while an earlier one is
  being shown stays owed, and `MaxPresses` ends the presses.
* `Lockstep`: the operating system schedules the runner and time passes. Nothing is
  assumed of the children. Weak fairness of a step that is blocked promises nothing,
  so `ToolsTerminate` also checks `NobodyWaits`: the runner can take a step until it
  has a verdict, and the clock until the deadline.
* `RandomProgram`: the machines run.
* `Evidence`: a tool that was started goes on (weak); the developer comes back to
  `render` and to restoring a broken set whenever that is possible (strong). No
  fairness of edits, commits or runs.

`TimerInterrupt`, `References`, `BoardFlow`, `SocImage` and `SynthReports` carry
safety properties only.

## 4. What is proved

Eight modules hold machine-checked proofs, for every value of the constants that
satisfies the named assumptions.

**`SocBus_proofs`**: every request set, set of words, memory map that satisfies
`RegionsAssumption` (the elaboration check of `wb_interconnect.sv`) and any slave
latency; `RequestAssumption` says that the fetch side does not write.
`TypeCorrect`. `FabricInvariant`: `FabricInv` joins `AdapterCarriesRequest`,
`BusAgreement` and `ResponseBelongs`, none inductive alone: that an adapter keeps
its request needs the answer to be its own, and that the interconnect agrees with
the owner needs the owner's adapter not to move. `InstructionPermitted`: no data
device is ever selected for a fetch. `FabricImplements`:
`Spec => ImplementsAbstractBus`; every clock edge maps to a cycle of the abstract
bus, with one more invariant, `SilentData`: a slave that gives no answer drives no
data.

Then the devices: every size of the memories, every content of the instruction
memory and every frame length, with `LayoutAssumption` (regions start at word
addresses and hold what is in them, as `rv32i_soc.sv` lays them out) and
`DeviceAssumption` (a register's value is a byte). `SocInvariant` adds `DeviceInv`:
`AnswersOnce`, a device that answers is in the state that will not take the
transaction again, and `ByteWaits`, the byte that waits for the transmitter is that
of the store still selected. `DevicesKeepTheContract`: with these devices the bus is
a behaviour of `WbFabric`. `SocIsAtomic`: it implements the register table,
`AtomicSoc`; each answer maps to its access, each frame and button event to itself,
every other cycle to a stutter. `LatencyIsBounded`, for frames of at least ten
cycles (`FrameAssumption`; no other wait is longer): the invariant `WaitInv` bounds
what each client has waited by the state of the bus (who owns it, whether the
transaction is latched or answered, what is left of the frame on the line), and
`Prompt` says that a transaction that has just reached a device finds it idle.

**`DCache_proofs`**: every geometry, block set, write policy and memory latency.
`OneLinePerBlock`, `CleanLinesAreCopies`, `DirectAccessOnce`, `MissOnce`,
`FlushLeavesNoDirtyLine`. The invariant joins the request that waits unchanged and
missing through a whole miss (`ModeInv`), uniqueness of lines (`LineInv`), what a
refill, a write-back and a direct store have copied so far (`CopyInv`), the lines a
flush walk has passed (`WalkInv`) and the one-shot of the miss counter
(`CountInv`). `AddressUnique` (two lines share no address) carries `CopyInv`
through stores. `CacheIsMemory`: cache and memory are one memory. An address is
either cached in one line or read in memory (`ContentsSplit`), so the abstract
memory moves in the step that serves a store and in no refill, write-back or flush;
`PortInv` says that what the registered read port and a finished direct access hold
is still the contents when the pipeline takes it. `BusyTimeIsBounded`: a miss is over
within `3 * BLOCK_WORDS` cycles and a flush walk within
`SETS * WAYS * (2 * BLOCK_WORDS + 2) + 1`, the cycles in which memory does not answer
not counted. The measure is `CyclesLeft`; a cycle in which memory answers lowers it, and
none raises it before the work is done.

**`ICache_proofs`**: every geometry, latency and data-side stall. `FetchIsCorrect`
and `RefillsAreForMisses`. An offered word is right because every valid line is its
block as memory was after the last FENCE.I, and that because a refill is for an
address that waits, is in no way, and has its first words in place.
`FetchTakesItsWords`: a fetch is answered within `BLOCK_WORDS + 2` cycles and those in
which memory lets a refill wait.

**`Pipeline_proofs`**: every program, width of word, size and tag of the predictor,
both kinds of prediction, depth of the return-address stack (the powers of two from
2 to 64), every stall of either memory and every interrupt.

* `TypeCorrect`; with the types goes that a valid stage holds the instruction at its
  own address and an invalid one none.
* `ForwardingIsRight`: `[](ForwardingCoversPairs \/ LinkRead)`. What an instruction
  read in ID is right unless write-back has a later value, and no load is in MEM
  ahead of its reader (`OperandInv`). `LinkRead` is finding 2, so that finding is the
  *only* way in which forwarding fails.
* `PipelineIsAHart`: `Spec /\ []~LinkRead => ImplementsHart`. The hypothesis is
  about programs, and the ones of the run `pipeline` satisfy it. Each advance with a
  valid instruction in MEM is one step of `Hart`, every other cycle a stutter, under
  the mapping that names the oldest instruction's address, the registers as it finds
  them and the memory as it finds it. The invariant: each valid stage's prediction is the address
  of the next valid one, and what is behind MEM is what follows it in the program
  (`PathInv`); the instruction in MEM was computed from the registers it must see
  (`ExecutedInv`), which needs `OperandInv`; memory is what the program has seen or
  one store ahead of it, that of the instruction still in MEM (`StoreInv`).
* `HartSaysWhen` replaces the hypothesis by one about the hart alone: no instruction
  that a jump of the hart lands on reads the register the jump links. `CallsAreSafe` is
  a condition on the text of a program that implies it: the target of a JAL does not
  read its link, and no instruction reads what a JALR links. `SafeProgramsRunOnAHart`
  and `SafeProgramsForwardRight` then need no hypothesis about behaviours. 1731 of the
  run's 2200 programs satisfy it; the program of finding 2 does not.
* `StackIsACallStack`: with `Holds`, the circular buffer read downwards from its
  pointer (`Below`) is the sequence of the abstract stack; a push onto a full buffer
  overwrites exactly the oldest entry. `[]~LinkRead` is not needed.

`WordAssumption` is arithmetic that is true of every `WordBits` and that the provers
cannot derive: `2 ^ WordBits` is an even number of at least 4, and the number made
of some of the bits of a word is a word. TLC evaluates it for the instance.

**`Units_proofs`**

* Serial line: every pair of divisors with `UartDivisor = DIVISOR >= 2`, or
  `UartDivisor = DIVISOR - 1 >= 18`, and every set of bytes. `BytesArrive`,
  `TransmitterIsALine`. Sample *n* falls half a bit, less *n* cycles when the
  divisors differ, into bit *n*: nine cycles of drift must stay inside half a bit,
  which is where the 18 comes from.
* Inputs: every power-on time and every `STABLE_CYCLES`, resets at any moment.
  `InputsStayClean`, `PressesAreSingle`. A stage of the synchroniser is still set
  exactly while too few edges have passed (`ControllerInv`); the counter counts
  exactly the latest samples that differ from the accepted level (`ButtonInv`).
* Timer: `TimerStaysQuiet`, for every `Top` and every sequence of committed
  instructions. The pending bit may be stale for one cycle; `TimerInv` says that an
  acknowledged timer is not in that cycle once interrupts are on again.
* Firmware: every length of banner and message and any number of presses.
  `TextsAreWhole`, `LedsCount`. `DemoInv` joins where main may be interrupted
  (`ControlInv`), the places a press can be in (`CountInv`) and how the line ends when
  main or the handler stands where it does (`TextInv`). `PressesComeCloser`: once
  main has configured the interrupt no press is lost, only the handler and a store that
  waits for a frame keep one from being taken, and each step of the handler, of the
  configuration and of taking the interrupt brings the LED change nearer (`StepsToShow`,
  at most `3 * MessageLength + 8`).

**`Tools_proofs`**

* `RandomProgramsAgree`: every length of program, number of registers, value set and
  arithmetic. The machines agree on a register once the prologue has set it; the
  body begins when all are set.
* `ImagesAreTheProgram`: every memory map and every ELF file, from an invariant that
  says of each loop what it has established so far.
* `RandomProgramsTerminate`: the generator only jumps forward, so each step brings a
  program nearer to its final loop, which it reaches after at most twice as many steps
  as it has instructions.
* `ChildrenAreReaped` and `VerdictsAreTrue`: every log, every trace and every
  interleaving of the runner, its children and the clock. What the runner has seen of
  a child is still so when it judges (`SeenInv`), and each way to a verdict has its
  reason (`ReasonInv`): a PASS had equal, complete streams of a simulator that
  succeeded and a Spike that did not fail. That the streams compared are those of the
  whole log, however it was cut into reads, is `ParserInv`: the parser is in the state
  that folding the complete lines before its offset gives. The parser is a fold over
  the lines; the proof goes by induction on their number, which is stated over sets of
  numbers (`Induction`) because the provers cannot instantiate an operator.
* `LockstepEnds`: `Spec /\ []NobodyWaits => LockstepDecides`, a liveness proof from the
  stated fairness. `Onward` lists where the runner can go from each of its program
  points once the deadline has passed; that graph has no cycle before the verdict.
  `NobodyWaits` is about `ENABLED`, which cannot be proved; the run `tools` checks it
  together with `LockstepDecides`.
* `SummariesAreOfOneRun`: any configurations, runs, commits and failures. A report
  directory is of one run except between two renames; what was read of it and not
  overtaken is still there (`SummaryInv`).

**`Evidence_proofs`**: any documents, any number of edits, commits, kills and
failures. `ReceiptsAreFresh`, `ResultsAreKept`, `SetsAreWhole`, `CurrentIsMeasured`.
The invariant: a receipt is removed before the first command it would speak of
(`JobInv`); at each rename the old or the new set is in one of its two places
(`KeptInv`); a set can only differ from the one published in rows that can be
repaired (`WholeInv`); and the commit a record names has the RTL of the commit it was
measured at, because `git log -1` found the last one that changed it (`TraceInv`).

**`Board_proofs`**: every set of commits and of versions, and any number of edits,
builds, commits, failures and collections. `SpikeIsThePinnedOne`,
`StampIsNeverAhead`: what carries the first from one run to the next is that a stamp
naming a commit never stands beside the binary of another. `RecordIsGenuine`,
`DirectoriesAreKept`. Manifests are compared for equal hashes, and equal hashes say
nothing of what was there between them. What makes them mean anything is `Past`: a
version of the firmware that is in neither the tree nor the linked ELF cannot get onto
the disk again unless its sources are restored. `FlowInv` says that an image on the disk
is of the linked ELF or past (`ImageInv`), and that what a run hashed is what it
staged, or past (`JobInv`), which holds of what it publishes (`OutputInv`) and of what is
collected (`ResultInv`). A record is of the linked ELF, which is past only when restored.

The remaining assumptions (`DCacheAssumption`, `IsaAssumption`, `Sizes`,
`TextAssumption`, `FlowAssumption`, `LogsAssumption` and the like) say that sizes are
numbers, that logs are sequences, that the geometry is one the RTL elaborates with, and
that the values standing for "none" are none of the values.

Every safety invariant, action property and refinement of section 3 is stated by a
theorem. Only model-checked are the five liveness properties. Deriving them needs
`ENABLED`, which no backend treats, and, where a size is a parameter, induction over
temporal formulas, which the library's theorems cannot be instantiated for. What can be
proved of them is that a measure bounds the work and no step takes it back:

| Property | Proved | Left to TLC |
|---|---|---|
| `EveryFetchCompletes` | `FetchTakesItsWords` | that fairness keeps the measure moving |
| `EveryAccessAndFlushCompletes` | `BusyTimeIsBounded`, for misses and flush walks | the same, and the direct accesses |
| `PressIsShown` | `PressesComeCloser` | the same, and start-up |
| `ToolsTerminate` | `LockstepEnds`, from `NobodyWaits`; `RandomProgramsTerminate` | `NobodyWaits`; the fairness of the machines |
| `EvidenceRecovers` | nothing | all: it rests on strong fairness of the developer |

## 5. Findings

1. **A stall of 4340 cycles against an assertion of 256** (`soc_stall`).
   `wb_uart.sv:87` keeps a TXDATA store waiting while a frame is on the line, as
   `docs/soc.md` specifies. `a_stall_bounded` in `rv32i_core.sv:130` asserts that
   the pipeline never stalls for more than 256 cycles. A program that polls
   `STATUS` before each store stays within the bound unless an interrupt handler
   transmits between the poll and the store, as the demo firmware's does: in
   `Firmware` that is the step from `store` to `wait`.
2. **The link register of a predicted jump is forwarded wrongly**
   (`pipeline_link`). EX/MEM forwards `alu_result`, which for JAL and JALR is not
   the link address. Behind a jump that was *not* predicted there are two bubbles,
   so nothing reads it there. Behind a predicted one the target is in EX while
   the jump is in MEM; if it reads the link register it gets the adder's output.
   A function that consists of its `ret` alone, called twice, returns to a wrong
   address. `docs/architecture.md:71` says that forwarding covers distance-1
   pairs. `LinkRead` is that case, and `ForwardingIsRight` proves that it is the only
   one; `SafeProgramsForwardRight` gives a condition on programs that excludes it.
3. **The recorded RTL commit ignores the testbench** (`rtl_commit`).
   `results.py:1640` takes it from `git log -1 -- rtl`; `results/FORMAT.md:39-41`
   says that it identifies the last commit affecting RTL or the testbench. After a
   commit of `sim/cpu_tb.cpp` alone, a freshly measured set names an older commit
   and is rendered as historical.

## 6. Observations

Seen while modelling; no run depends on them.

* **`mtimecmp` after 2^32 cycles.** `csr.sv:215` writes `64'(csr_new)`: the upper
  half becomes zero. Once `mtime` has passed 2^32 (86 s at 50 MHz) no value a
  program can write makes the comparison false, although the comment at
  `csr.sv:61-64` says that writing `mtimecmp` is what clears the interrupt;
  `tests/t16_irq_timer.s` disarms the timer with a large value. From there on only
  `mie` silences it. In `TimerInterrupt` this is `mtime = Top + 1`.
* **A verification timeout** (`verification.py:150`) kills `make` alone; simulators
  and Spike it started live on.
* **An edit under a running build.** `run_board.py` identifies the checkout before
  it copies the sources. An edit between the two that is reverted or committed later
  reaches the bitstream without a trace; `SocRecordIsGenuine` states the rest and
  exempts such records by the history `overtaken`.
* **Firmware that is changed, built and changed back under a running build.**
  `run_board.py` hashes the images (`:346-347`), then copies them (`:118-119`);
  `results.py:1386` compares the hashes with the images that are there when the record
  is collected. If `make soc-firmware` builds other sources between hash and copy, and
  the old ones are restored and built again before the collection, all hashes agree:
  `soc.json` names an ELF whose images are not in the bitstream. Two edits suffice, both
  within the bounds of `board`; `SocRecordIsGenuine` excepts ELFs whose sources were
  restored (`returned`). Hashing the staged copies would close it.
* **Two changes lock the evidence check.** A current set must show the number of
  harness tests of the working tree (`results.py:922`), and any set the pinned versions
  of the tree (`results.py:636-650`). After a test is added while RTL and testbench are
  those of the set, or after a pin moves, the check refuses the set; and it is part of
  `make check`, the first command of the `make verify` with which
  `results/FORMAT.md:18` says a new set is made. The change has to be undone or the
  records removed by hand; for the harness, a change of the RTL or the testbench helps
  too. `EvidenceRecovers` excepts these two (`LockedOut`) and shows that there are no
  others.
* **A failed image build keeps the old receipt.** The run removes the receipt before its
  first command (`verification.py:256-257`), but in container mode it is the run inside
  the container that does so, and a failed image build returns before it
  (`:283-285`): the command has failed and the receipt of an earlier one is still there.
  `ReceiptIsOfThisRun` is about the run itself.
* **A summary while reports are replaced.** `summarize_reports.py` hashes the reports
  (`:106-111`) and reads them again for their numbers (`:143-144`); rows may then show
  numbers of reports that were never hashed. `SummaryIsOfOneRun` excepts the summary
  that was overtaken like this.
* The UART transcript of the board record is not tied to the bitstream by a hash.
* `cover_points` is a constant of `results.py:1143`, not counted in the sources as
  the property counts are.

## 7. Not modelled, and why

* `lsu.sv`, the remaining ALU functions and the instruction encodings: combinational;
  unit and compliance tests enumerate them.
* `mcycle`/`minstret` and `perf_counters.sv`, except the one-shot of the D-cache miss.
* `mem_timing.sv`'s counter: memories answer at any time, which includes it.
* The composition of pipeline, caches and bus in one model: each is checked against
  the contract the next one assumes (the pipeline holds a request until both
  sides advance; the cache holds its memory request until answered; the bus
  answers). An error response that fills a cache line, wrong-path fetches outside
  the map, and a core without a D-cache in front of a device need it.
* Of `results.py`: the fields of single records and the parsing of logs. Of
  `run_board.py`: `run_program`, which calls the programmer. Of `run_synth.py`: the
  command lines for the vendor tool. Of `evidence_check.py`: text matching of
  workflows and links.
* `build_environment.py` caches builds in the pattern of `References`; the remaining
  scripts parse options and draw.
* Of `verification.py`: the modes that build the container image and start the run
  inside it.
* In `BoardFlow` one record is collected per behaviour, and board builds and post-route simulations are explored in separate
  behaviours (`Requested`); nothing is collected from the latter.
* PLL, I/O buffers, metastability beyond "a sampled level is either one".
* Processes left by a killed `make`: `Lockstep` models a runner that is left to
  finish.

## 8. Plan

Done, in this order: fabric and its abstract bus, devices, latency, serial line,
board inputs, caches, pipeline; the tools from random programs to the published
board record; timer and firmware; the proofs of section 4, among them the
refinements of the bus, of the SoC, of the data cache, of the pipeline and of the
return-address stack, and a theorem for every safety property the runs check.

Next, by importance:

1. `CachedCore`: pipeline abstracted to its two ports, both caches and the bus,
   with error responses; whether a wrong-path fetch can raise `bus_fault`.
2. `PerfCounters`: the relations between the counters that `results/` relies on, and
   `minstret` against the instructions that retire.
3. `Lsu` as operators against a byte-wise reference.
4. Of the proofs, only liveness remains (end of section 4).
