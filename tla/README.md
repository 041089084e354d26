# Register windows for FreeRTOS context switches: a TLA+ development

The repository partitions the integer register file of a RISC-V hart into
*windows*. A task that owns a window keeps its registers in the file while other
tasks run, so FreeRTOS can switch to and from it without storing 31 registers.
The extension is implemented twice, in the CVA6 core and in the Spike simulator,
and the FreeRTOS RISC-V port uses it. This directory models those
three parts and what holds them together, and the parts of the FreeRTOS kernel
that decide which task the port switches to: timer, scheduler and queues.

## 1. Inventory

### Parts of the system

| Part | Code | State | Operations |
|---|---|---|---|
| CVA6 window logic | `cva6/core/ariane_regfile_ff.sv`, `ariane_regfile_fpga.sv`, `csr_regfile.sv` | physical registers `mem`, CSR 0x800 `window_config_q`, CSR 0x801 `prev_window_config_q` | register read and write through the window, `csrw 0x800/0x801`, trap entry, `mret`, reset |
| Spike window logic | `riscv-isa-sim/riscv/decode.h`, `processor.cc`, `insns/mret.h` | `data`, `base_offset`/`window_size` of `regfile_t`, `window_active`, `window_staged`, `previous_window_config` | the same, plus the register dump in `put_csr` |
| CVA6 pipeline | `cva6/core/issue_read_operands.sv`, `raw_checker.sv`, `scoreboard.sv`, `commit_stage.sv`, `controller.sv`, `csr_buffer.sv` | the scoreboard: issued instructions, their operands and results | issue with operand read and forwarding, write back, commit on two ports, CSR commit, flush |
| Port: context switch | `FreeRTOS-Kernel/portable/GCC/RISC-V/portContext.h`, `portASM.S` | frames on the task stacks, `pxTopOfStack`, `port_current_task_window_base`, integrity counters | full and minimal save, full and minimal restore, start of the first task (two forms), trap dispatch |
| Port: window assignment | `port.c`, `portmacro.h`, `tasks.c`, `include/task.h` | `ulPortWindowConfig`, `ucPortBorrowKernelWindow` of the TCB, `xCriticalNesting` | `vPortTaskSetRegisterWindow`, `vPortTaskSetKernelBorrowing`, critical sections |
| Port: machine timer | `port.c`, `portASM.S`, `riscv-isa-sim/riscv/clint.cc` | `mtime`, `mtimecmp`, the pending bit, `ullNextTime` | set-up, update on each tick, both by 32-bit words |
| Scheduler | `tasks.c`, `list.c`, `include/list.h` | ready, delayed, overflow, suspended and pending-ready lists, `xTickCount`, `xNextTaskUnblockTime`, `xPendedTicks`, `uxSchedulerSuspended`, `xYieldPending` | delay, block on an event, suspend, resume, suspend and resume the scheduler, tick, switch, and their forms for interrupts |
| Queues | `queue.c` | ring buffer with two pointers, message count, two lock counts, two lists of waiting tasks | send to back or front, overwrite, receive, peek, with time-outs, and their forms for interrupts |
| Other kernel services | `timers.c`, `event_groups.c`, `stream_buffer.c`, ... | - | upstream, unused by the demos |
| Demos and tests | `FreeRTOS-Kernel/demo/Spike_FYP`, `demo/CVA6_FYP`, `cva6/verif/tests/custom/context_switch` | window assignments, a slot allocator for 100 tasks | supply the programs |
| Vendored rest | CVA6 core and SoC, Spike instructions and devices, other ports | - | - |

### How they interact

* A task writes registers; the hart translates the register number through the
  window in force and drops what falls outside it.
* A trap forces the kernel window (base 0). CVA6 stores the interrupted window in
  CSR 0x801; Spike stores it in a variable nothing reads and leaves CSR 0x801 as
  the last restore staged it.
* The handler saves the interrupted task. It chooses the path by
  `port_current_task_window_base`, a copy made by the last restore: 0 takes the
  *full* path (31 registers into the frame), anything else the *minimal* path
  (`mepc`, `mstatus`, critical nesting and CSR 0x801 only). Both find the frame
  through the kernel window's `sp`.
* The restore takes the minimal path for a frame of type minimal with a non-zero
  window word and the full path otherwise, stages the word in CSR 0x801, and
  `mret` makes it the mapping.
* `main()` writes the window word of a task into its TCB and straight into the
  frame at `pxTopOfStack`.
* The timer interrupt updates the compare register and calls
  `xTaskIncrementTick`; if that, or a queue function, makes a task of a higher
  priority ready, `vTaskSwitchContext` chooses the task the restore returns to.
* A queue function that must wait suspends the scheduler and locks the queue.
  While it does, interrupts still send and receive: they count what they did in
  the lock, and `prvUnlockQueue` wakes as many tasks. Ticks that come are pended
  and replayed by `xTaskResumeAll`.

### What is hard about it

Nothing saves a windowed task's registers, so their survival depends on every
other write in the system. The three copies of "which window" (the mapping, CSR
0x801, `port_current_task_window_base`) change at different moments and
differently on the two harts. The register used to carry the word is itself part
of the context. The word is 16 + 16 bits, with a base that may pass the file and
a size that may be 0 or larger than any register number. In the pipeline an
instruction reads through one mapping and writes through another if the window
changes in between, and forwarding compares register numbers, not registers. The
timer's 64-bit registers are read and written in halves while the counter runs.
In the kernel, every gap between two critical sections is open to interrupts: a
wake-up, a tick or a yield that falls into one must be carried over it in a
count (`cTxLock`, `xPendedTicks`) or a flag (`xYieldPending`). `PROJECT.json` lists
each such place under `hazards`, with the property that would notice it go wrong.

### What makes each part correct

* Register file: no write leaves the window whatever the word; nothing outside
  reads as anything but 0; a debugging dump changes nothing.
* The two harts: a program cannot tell one from the other.
* Context switch: a task finds its registers, its stack pointer and its critical
  nesting as it left them, in its own window; frames stay where they belong.
* Window assignment: the TCB, the frame and the mapping agree.
* Pipeline: instructions have the operands of sequential execution, and the window
  changes under none of them.
* Timer: one tick for each period, none early.
* Scheduler: a task sleeps exactly its block time, is in one list, and runs when
  it is the most urgent; no tick and no wake-up is lost.
* Queue: a bounded FIFO; no task sleeps on a message or a place it should have.

## 2. Modules

| Module | Models |
|---|---|
| `WindowConfig` | the 32-bit word: packing and unpacking, in 16-bit halves |
| `CVA6Window` | CVA6's register file and CSRs; actions `Commit`, `CsrWrite800`, `CsrWrite801`, `Trap`, `Mret`, `Reset` |
| `SpikeWindow` | Spike's; same actions, with `size_t` wrap-around (`SizeT`) in `set_window_config`, the dump in `CsrWrite801`, and the word applied twice in `Mret` |
| `HartCosim` | both harts executing one program in lockstep: `INSTANCE`s of the two modules, every action the conjunction of the two |
| `HartWords` | each hart alone under arbitrary window words |
| `PortContext` | the port on either hart (`Platform`), using `Read`, `Write` and the `mret` rules of the two hart modules |
| `CVA6Pipeline` | `CVA6Window` with a scoreboard before it |
| `MTimer` | the CLINT and the RV32 code that drives it |
| `Scheduler` | the scheduler on one core, preemptive, with time slicing |
| `BoundedQueue` | abstract: what a queue promises |
| `Queue` | `queue.c`; refines `BoundedQueue` |
| `WindowConfigProof`, `HartWordsProof`, `HartCosimProof`, `PortContextProof`, `CVA6PipelineProof`, `MTimerProof`, `SchedulerProof`, `QueueProof` | lemmas and theorems, checked by TLAPS |
| `MC...` | values of the constants for TLC |

`PROJECT.json` maps every definition to source lines. Definitions under the
comment "Seeded fault" are the mutants: each is a plausible bug in the definition
below it, and TLC finds the named property violated when it takes that
definition's place.

### PortContext: state and actions

`mem`, `win` and `staged` are the hart. `frame[t]` is the context at
`pxTopOfStack[t]`: register slots, nesting, MPIE, the window word (word 31) and
the type (word 32). The history variables `wrote`, `left`, `pushed` and `nest` record what each task did, to compare with what it finds.

| Action | Code |
|---|---|
| `vPortTaskSetRegisterWindow`, `vPortTaskSetKernelBorrowing` | the port.c functions with the tasks.c accessors they call |
| `xPortStartFirstTask`, `xPortStartFirstTaskWindowed` | portASM.S 260-362 |
| `TaskWrite`, `TaskMoveSp` | an instruction of the running task; a prologue or epilogue |
| `portENTER_CRITICAL`, `portEXIT_CRITICAL` | portmacro.h |
| `portYIELD`, `TimerInterrupt` | trap entry, `portcontextSAVE_...`, switch to the ISR stack |
| `RestoreContext(t)` | `vTaskSwitchContext` choosing `t`, `portcontextRESTORE_CONTEXT`, `mret` |

Decisions:

* One hart and handlers with interrupts off: a trap is two steps, save and
  restore. Nothing else can run between them.
* `vTaskSwitchContext` may choose any task. That covers every scheduling policy,
  a tick that does not switch, and application interrupts.
* Code that runs in the kernel window may leave anything in the registers it
  uses; the model writes `Junk` to all of them (over-approximation).
* `mepc` is not told apart from other frame words: no property is about program
  counters. A yield and an interrupt differ in when they may occur.
* The start of the first task is atomic. Interrupts are enabled (portASM.S 274) before
  its registers are loaded; a tick in between saves and restores start-up state
  only.
* The window calls are atomic. In `main()`, before the scheduler starts, that is
  exact; calls by running tasks are enabled by `RuntimeBorrow`, off in every run.
* Memory that nothing wrote reads as `StackFill`, 0 for static stacks.
* Registers are classes: 0 `zero`, 1 `sp`, 2 `t0`, 3 `a0` (standing for any
  register the port treats alike), 4 `t2`/`t4`, 5 `t5`/`t6`.
* `Spike!Init` leaves `window_active` and `window_staged` open, because no
  constructor initialises them.
* `port_window_kernel_borrow_restores` and the stage counter beside it are bumped
  at one place and under one condition; one variable stands for both.
* `integrity_test.c` gives a task the kernel's own window (base 0, size 32). It
  counts as a task without a window: the port takes the full path for it.

### HartCosim

Handlers and programs both write CSR 0x801 (`Stage`), at any time; `stager` is who did
last. `Return` asks that it was a handler: in this trap, as `portcontextRESTORE_CONTEXT`
always does, or in an earlier one with the program leaving 0x801 alone since, as a handler
unaware of windows may rely on. `wanted` and `left` are history in the terms of
the software: the word handlers last asked for, and what programs left in each
window. They do not look at the mapping of either hart, so a property that compares
`left` with what a register reads is about the mapping in force.

### CVA6Pipeline

`sb` is the scoreboard, oldest first. A cycle is one action: what commits, and what
the issue stage adds in the same cycle (`Issue`), which sees the scoreboard and the
register file as they were before the commit. Operands are read at issue, from the
youngest older instruction that writes the same register *number* or through the
window. A CSR instruction keeps every fixed-latency unit busy until it commits
(`csr_buffer.sv`, `ex_stage.sv`), so only the load-store unit goes on behind it.
`csrw 0x800` does not flush; trap entry and `mret` do. One source operand stands for
the three, ALU for every fixed-latency unit, LOAD for the load-store unit. An
instruction whose write goes nowhere (a store) has destination `x0`. Memory values
are open. Branches are not modelled: a mispredicted branch removes instructions
that have not issued.

### MTimer

Pairs `[lo, hi]` of words with `W` values stand for the 64-bit registers. Each load
or store of a word is a step, and `mtime` runs between any two. The compiler chooses
the order of the two stores of the first compare value; both are there. The
interrupt is taken any time after its bit is set, which covers every critical
section. `xTaskIncrementTick` is counted in `ticks`.

### Scheduler

`k` is the kernel's state; kernel functions are operators on it, one critical
section each. `pc[t]` is where a task is between two of them:

| Point | Code | Leaves by |
|---|---|---|
| `run` | the task's own code | any call |
| `block` | scheduler suspended by `vTaskDelay` or a blocking queue function | `vTaskDelay`, `vTaskPlaceOnEventList` |
| `blocked` | off the ready list, before `xTaskResumeAll` | `EndBlock` |
| `yield` | before `portYIELD_WITHIN_API` | `portYIELD` |
| `reset`, `resetSelf` | `vTaskSuspend` between its critical sections | `SuspendReset` |

A ready list is a ring with its end marker; the sequence starts at `pxIndex`, so
inserting at the end appends and moving the index rotates. `left` and `uptime` are
history: ticks of the block time still to come, tick interrupts taken. One event
list stands for the queues' lists. An interrupt that wakes a task of a higher
priority may or may not ask for the switch (`portYIELD_FROM_ISR` is up to the
application); `xYieldPending` makes up for it. In
`EndBlock` `xTaskResumeAll` yields if `xYieldPending` is set, and otherwise the caller
yields at its next step.

### Queue

`q` is the `Queue_t`, `sched` the task that has suspended the scheduler. Each step is
a critical section or a call under the suspended scheduler: `Try...`, `SuspendAndLock`,
`CheckAndTest`, `Place`, `UnlockTx`, `UnlockRx`, `Resume`, `Recheck`. Which waiting task
is woken, and which runnable task runs, is open, so every priority assignment is
covered; `Elapse` is the tick that ends a block time, at any moment the tick is not
pended. The two unlock loops run in one critical section each and are one step each.
`SendFromISR` and `ReceiveFromISR` come at any point of any task's call. The data
copied by a send is chosen at the step that copies it. `BoundedQueue` is the promise:
`Messages` reads the ring from `pcReadFrom`, and every step is a step of the FIFO or
leaves it alone.

## 3. Runs

| Run | Instance | Shows |
|---|---|---|
| `hart_words` | 7 physical registers, 3 nameable, 6 words in and out of range | `CVA6WritesStayInWindow`: writes never leave the window nor touch physical register 0; `OutOfWindowReadsZero` and `DumpTransparent` on Spike, sizes that wrap included |
| `cosim` | 9 physical registers, 3 nameable, 4 words of non-zero size | `SameView`; `StagedWindowKeepsRegisters`: a window holds what was left in it, on both harts, although programs stage words of their own; `KernelRegistersFrozen` |
| `pipeline` | 4 physical registers, 2 nameable, 3 scoreboard entries, 2 words | `RetiresArchitecturally`, `CsrSerialises`, `MappingChangesAlone` |
| `timer` | words of 6 values, period 4, `mtime` from any value up to 27 in steps of 1 and 3 | `ReadNotTorn`, `TicksOnTime`, `CompareNeverBelow`; `CatchesUp` (liveness) |
| `scheduler` | 2 tasks and idle, 3 priority assignments, ticks modulo 5, delays 1, 2, 4 | `SleepsExactly`, `OneList`, `HighestRuns`, `NoTickLost`; `EventuallyAwake`, `GetsItsTurn` (liveness) |
| `queue` | 2 tasks, 2 messages, lengths 1 and 3 | `NoLostMessage`, `NoLostRoom`, `ImplementsFifo` (refinement) |
| `port_spike` | idle, started first and without a window, + 2 windowed tasks, tick interrupts, nesting up to 2 | `WindowIsolation`, `RunsInOwnWindow`, `LegacyRegistersPreserved`, `FrameInPlace`, `NoInvalidMinimalRestore`, `CriticalNestingPreserved` |
| `port_cva6` | the same on CVA6, cooperative (`portasmHAS_MTIME` is 0 there), no nesting | `WindowIsolation`, `RunsInOwnWindow`, `FrameInPlace`, `NoInvalidMinimalRestore`; `LegacyRegistersPreserved` fails there (see `legacy_cva6`) |
| `legacy_cva6`, `legacy_scratch`, `first_task`, `entry_parameter` | instances as above | a documented statement that the code does not meet (section 5) |

Bounds.

* Port: two windowed tasks and one without are the least with which every kind of
  switch happens (full to minimal, minimal to minimal of another task, back). The
  windows are (6, 4), which fits the file, and (10, 4), which runs past the 13
  registers of the file. `MaxPush` = 1 lets `sp` differ from its initial value,
  `MaxNesting` = 2 distinguishes the nesting depth from the interrupt flag
  (`NestOrPush` keeps tasks in critical sections and words on their stacks apart;
  the theorems have every combination),
  `CounterCap` = 1 distinguishes "never" from "some time". One value per register
  (`UserData`) is enough because 0 and `Junk` are other values.
* Pipeline: three entries hold two writers of one register and a reader of it, or a
  CSR instruction with two loads behind it. Two nameable registers and a file of
  four are two windows side by side. A register may hold the word of the other
  window, so `csrw` really moves it.
* Timer: the period (4) does not divide a word (6), so the carry comes at every
  phase; 27 is past the fourth wrap of the low word, and critical sections may last
  over several periods.
* Scheduler: with 5 tick values every delay wraps. The priorities put the tasks level,
  apart, and one of them level with idle. Delay 4 is `portMAX_DELAY`, which blocks
  forever on an event and for 4 ticks in `vTaskDelay`. Two pended ticks and two
  levels of suspension tell one from several.
* Queue: a length of 1 allows overwriting and makes full and empty adjacent; with 3,
  which exceeds the number of tasks, the lock count reaches its cap while
  messages still arrive.

The proofs remove these bounds for every safety property of a passing run.

Deadlock is checked in all runs but `timer`, where `mtime` stops at its bound and the
timer with it.

Fairness.

* `MTimer`: weak fairness of taking a pending interrupt and of the handler's steps.
  The bit stays set until the compare register is written, critical sections are
  finite, and the handler runs with interrupts off. `mtime` itself need not go on:
  `CatchesUp` speaks of periods that have passed.
* `Scheduler`: weak fairness of the tick (the timer keeps running), weak fairness of
  leaving a point inside a kernel function (kernel functions have no loop that
  waits), and `[]<>Running`: a task that suspends the scheduler resumes it, the
  documented duty of its caller. Nothing is assumed of a task's own code: it may
  compute forever. `EventuallyAwake` and `GetsItsTurn` therefore rest on the tick
  alone, as they do in the code.
* No fairness elsewhere; the other properties are safety properties.

## 4. Proofs

All theorems hold for every value of the constants within the named assumptions.
Every safety property of a passing run is one of them.

**`HartWordsProof`** assumes `SpikeAssumption` and `CVA6Assumption` (sizes; a
configuration word is any natural number). For Spike the invariant is the type, in
which `base_offset` stays inside the file though a base past it is ignored and a size
may wrap in `size_t`, and that physical register 0 holds 0. That is what `regfile_t`
returns for a register outside the window, so `OutOfWindowReadsZero` rests on no write
ever reaching it. The dump calls `set_window_config` with the values
in force; `DumpRestores` shows that the size this computes maps the same registers even
where it is a different number. Theorems: `WordTypes` (`WordTypeOK`), `ReadsZero`
(`OutOfWindowReadsZero`), `WritesInWindow` (`CVA6WritesStayInWindow`) and `DumpInvisible`
(`DumpTransparent`); the last two are action properties.

**`HartCosimProof`** assumes `CosimAssumption` (sizes) and `WindowsAssumption` (a base
inside the file, a non-zero size, no window that begins inside another, task
windows beyond the kernel's registers). The word 0, which the port stages for a task
without a window, is excluded by the second: the harts differ on it (`legacy_cva6`).
`SameView` is not inductive: CVA6 lets a write to `x0` reach the register at the base
of the window, so the two files differ. The invariant `IInv` adds: the mappings agree
register by register (`SameMapping`); the contents agree except at window bases
(`SameContents`), which no window can read because of `WindowsAssumption`; CSR 0x801
holds the handler's word on both harts whenever `mret` is allowed, for a different
reason on each (`SameStaging`); and the physical registers of a window hold what was left in
it (`Kept`), which rests on no two windows sharing one (`Disjoint`). Theorems: `TypeCorrect`, `Equivalence`
(`SameView`), `WindowKeeps` (`StagedWindowKeepsRegisters`), `Frozen`
(`KernelRegistersFrozen`, an action property).

**`PortContextProof`** assumes `PortAssumption` and `SupportedUse`: windows are
disjoint, begin beyond the kernel's registers and inside the file; the first task
has none; stacks start zeroed; no window changes once tasks run. Both platforms,
any number of tasks, any file. `MCPortSupported` makes TLC evaluate
`SupportedUse` on the instances of the passing runs. The invariant adds to the
properties themselves what they rest on: `ConfigOK` (the TCB word is the assigned
one or 0), `FrameOK` (the frame of a windowed task holds the TCB's word; the frame of
any other task names base 0 and is of type full), `RunningOK` (the running task's
mapping, CSR 0x801 and `port_current_task_window_base` name its word, and the kernel's `sp` is the top of
a windowed task's stack) and `MainOK` (before the scheduler starts). Without
`RunningOK` a minimal save could store any word and place the frame anywhere.
Theorems: `TypeCorrect`, `Isolation` (`WindowIsolation`), `OwnWindow`
(`RunsInOwnWindow`), `FramesStay` (`FrameInPlace`), `NoInvalidRestore`
(`NoInvalidMinimalRestore`).

Two more properties have invariants of their own. `CriticalNesting`
(`CriticalNestingPreserved`) needs no `SupportedUse`: nesting and MPIE pass through the
frame on every path, so `NestOK` says that a task's depth is in the hart while it runs
and in its frame otherwise, whatever its window. `LegacyRegisters`
(`LegacyRegistersPreserved`) is about Spike (on CVA6 it fails, see section 5) and adds
the hypothesis `WholeKernelWindow`: a word with base 0 has size 0 or covers the
kernel's registers, as the one in `integrity_test.c` does; a smaller size would hide
registers from the task. `LegacyOK` says where the registers of a task without a
window are: in the file at their own numbers while it runs, in its frame otherwise, and
its word maps all of them. `MCPortSupported` checks both hypotheses on the instances.

**`QueueProof`** assumes `QueueAssumption`: finitely many tasks, some message, lengths
greater than 0. `BufferInv` is `QueueTypeOK` and
the ring (`Ring`: `pcWriteTo` is `uxMessagesWaiting` + 1 places past `pcReadFrom`, modulo
the length), which task holds the locks (`LockInv`) and where `overwrite` may occur
(`OpInv`). Under it each copy is a step of the FIFO (`Refinement`). The lost wake-up
theorems need more: `WaitInv` (who can be on an event list, and where in its
call) and `PlaceInv`: a task about to be placed knows that every message that came
since its test is in the lock count, or the count is at its cap, which is the number of tasks
and so wakes everybody. `NoLostMessage` and `NoLostRoom` are inductive only
together with these. Theorems: `TypeCorrect`, `Refinement` (`ImplementsFifo`),
`MessagesNotLost`, `RoomNotLost`.

**`CVA6PipelineProof`** assumes `PipelineAssumption`, any register file, any
scoreboard, any set of instruction shapes. `RetiresArchitecturally` speaks of the
oldest instruction only. The invariant states it of all (`Operands`): the operand of an entry is what
its source reads after the older entries have written: the result of the youngest older entry that writes the
register number, if there is one, else the register read through the window - for every entry that does
not race. `Serial` is `CsrSerialises`, and `RacingMarked` says that whatever is
behind a `csrw 0x800` is marked. Theorems: `TypeCorrect`, `Serialisation`,
`Sequential`, `MappingAlone` (an action property).

**`MTimerProof`** assumes `MTimerAssumption`: the period fits in a word, and time does
not wrap 64 bits. The invariant adds the value of the pending bit and the
bounds on `mtime` (`BitInv`), what the set-up has learnt at each load
(`SetupInv`: the high word it holds is not ahead of the counter, so an equal second
reading proves the pair whole) and what the handler has written at each store (`TickInv`).
Theorems: `TypeCorrect`, `SetupReading`, `OnTime`, `NeverBelow`.

**`SchedulerProof`** assumes `SchedulerAssumption`: finitely many tasks, idle at priority
0, more than one tick value, block times from 1 to `portMAX_DELAY`. Any number
of tasks and priorities, any width of the tick counter. No property of the run is
inductive alone. `IInv` consists of:

| Part | Says | Needed for |
|---|---|---|
| `Kernel` | the types of the fields | everything |
| `RingsOK`, `TopOK` | a ready list is a ring without repetitions that holds the end marker and tasks of its priority; `uxTopReadyPriority` is not below a ready task | `vTaskSwitchContext` finds the highest ready list that is not empty |
| `SleepOK` | both delayed lists are sorted; an item's value is `xTickCount` plus the ticks left, in the overflow list less the wrap | waking at the head of the list wakes exactly who is due; the lists may change places when the counter wraps |
| `NextOK` | `xNextTaskUnblockTime` is not later than any item of the current list; it may be earlier (stale) | a tick that skips the list skips no one |
| `DueOK` | no task in a delayed list has had its time | `SleepsExactly` |
| `PlaceOK`, `EventOK` | a state item is in one list; an event item is in the event list or in `xPendingReadyList`, and then the task is not ready | `OneList`; no list receives a task twice |
| `PendOK` | something waits in `xPendingReadyList` only with the scheduler suspended | `OneList`, and the tick drains nothing |
| `HighOK` | in its own code the current task is ready, and a more urgent ready task implies `xYieldPending` | `HighestRuns` |
| `PcOK` | only the current task is inside a blocking call, with one level of suspension; none yields with the scheduler suspended; idle does not block | `EndBlock` really resumes; some task is always ready |

Each kernel function has a lemma that says what it keeps (`RemoveIs`, `AddIs`, `UnblockIs`,
`IncrementIs`, `DrainIs`, `ReplayIs`, `SwitchIs`, ...), each action a lemma that combines
them. `DueOK` fails between the advance of the clock and the unblocking loop; the
lemmas of these functions state it conditionally. The
list operators rest on `SubsequenceIs`: what remains of a list after a removal is
embedded in it in order. Facts that would be inductions over data (the least element
of a set, the replay of several pended ticks) are proved by least counterexample
(`NatMin`, from the well-foundedness of < on the naturals). TLC has checked `IInv` on the
instance of the run. Theorems: `Invariance`, `SchedulerTypes` (`TypeOK`), `ExactSleep`
(`SleepsExactly`), `ListsDisjoint` (`OneList`), `PriorityRuns` (`HighestRuns`), `TicksCounted`
(`NoTickLost`).

Only model-checked: liveness (`CatchesUp`, `EventuallyAwake`, `GetsItsTurn`). Liveness
under fairness and ENABLED are out of the prover's reach.

## 5. Findings

Each is a run TLC refutes; `PROJECT.json` quotes the documents.

* `legacy_cva6`: a staged word of 0, which the port uses for "no window", is a
  window of size 0 on CVA6. Reads return 0 and writes are dropped.
* `legacy_scratch`: the full path is not the standard 32-register switch. `t0` is
  overwritten before it is stored; `t2`, `t4` (and `t5`, `t6`) after they are loaded.
* `first_task`: `xPortStartFirstTaskWindowed` (portASM.S 331) keeps the word in `t0`
  while it loads the frame, slot of `t0` included, so a windowed first task does not
  start in its window although `port_current_task_window_base` says so. The passing
  runs and the theorems of `PortContextProof`, except `CriticalNesting`, start a task without a window
  (`SupportedUse`). `prvAddNewTaskToReadyList` (tasks.c 2091) makes the last created task of the
  highest priority the first one; in `main.c`, `latency_test.c`, `scale_test.c`,
  `workload_test.c`, `sequence_test.c` and `borrow_test.c` it has a window, so nothing is claimed of these programs.
* `entry_parameter`: the first restore of a windowed task puts `pvParameters` in the
  kernel window, not in the task's `a0`.

Also seen and not the subject of a run:

* Enabling kernel borrowing (port.c 271) erases the window that disabling it is
  documented to return to (`include/task.h` 3801).
* CVA6's trap entry (csr_regfile.sv 2029) overwrites a word staged before `ecall`,
  the protocol the README of the bare-metal tests describes; Spike keeps it.
  `Return` of `HartCosim` excludes exactly this: a handler that returns on a word the program
  wrote. Without its second conjunct TLC finds `SameView` violated.
* Spike's trap entry does not write CSR 0x801 although its comment says so (the port
  works because 0x801 still holds the word of the last restore, which `RunningOK`
  states).
* `vPortTaskSetKernelBorrowing` on a switched-out windowed task (`RuntimeBorrow` =
  TRUE) leads to a frame of type minimal restored in full.
* `csrw 0x800` on CVA6 races with loads, stores and the one instruction that issues
  while it commits: they read through the old window and write through the new one. The
  port never executes it; the bare-metal `context_switch_window.c` does, in C code
  that goes on using its registers. `RetiresArchitecturally` and
  `MappingChangesAlone` except exactly the instructions that race.

## 6. Not modelled

* The floating-point register file, VPU context and the cycle-profiling variants of
  the save and restore (not enabled by default).
* In the scheduler: tasks created or deleted at run time, `xTaskAbortDelay`,
  `xTaskCatchUpTicks`, `vTaskPrioritySet` and priority inheritance, task notifications,
  tickless idle, SMP (`configNUMBER_OF_CORES` is 1).
* In the queues: mutexes, queue sets, `xQueueGenericReset` of a queue in use,
  `vQueueDelete`. `xTaskCheckForTimeOut` is the decision that a block time has passed, not
  the arithmetic on the tick count that finds out.
* Software timers, event groups, stream buffers, co-routines, heaps: upstream code
  that the demos do not use.
* The RV64 form of the timer update: a single store.
* CVA6's front end, caches, MMU and SoC, Spike's instructions and devices, the other
  ports, the demos' measurement code.

The repository vendors three upstream projects whole: of about 500,000 lines of C, C++
and SystemVerilog, nearly all are ports to other architectures, a SoC with its
test environment, and instruction descriptions in two copies of Spike, none of which a
window, a task of this project or its tick passes through. The modules cover the code
that the project itself wrote or changed, and the upstream code that decides when it
runs and which task it switches to. They do not aim at a share of the whole tree.

## 7. Plan

In this order.

1. The two harts and their equivalence. *Done.*
2. The port's save and restore on both harts. *Done.*
3. Theorems for both. *Done.*
4. `csrw 0x800` against instructions already past operand read (`CVA6Pipeline`).
   *Done, with theorems.*
5. The two-word timer registers (`MTimer`). *Done, with theorems; liveness checked.*
6. Scheduler with liveness, queue with its refinement. *Done, with theorems; liveness
   checked.*
7. Abstract specification: tasks with private register files and an atomic switch,
   and `PortContext` shown to implement it.
8. Mutexes with priority inheritance, and `vTaskPrioritySet`, on top of `Scheduler`
   and `Queue`.
9. The slot allocator of the 100-task stress test and its windows beyond the file.
