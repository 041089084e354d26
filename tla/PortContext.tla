----------------------------- MODULE PortContext ----------------------------
(***************************************************************************)
(* The FreeRTOS RISC-V port with register windows: how a context is saved  *)
(* on a trap and restored before mret (portContext.h, portASM.S), how a    *)
(* window is given to a task (port.c, tasks.c), and the window logic of    *)
(* the hart underneath (module CVA6Window or SpikeWindow).                 *)
(*                                                                         *)
(* Handlers run with interrupts disabled on the only hart, so a trap is    *)
(* two steps: the save, and the choice of the next task with its restore.  *)
(* Which task vTaskSwitchContext picks is left open.                       *)
(***************************************************************************)
EXTENDS WindowConfig

CONSTANTS
  Tasks,          \* the tasks created by main()
  FirstTask,      \* pxCurrentTCB when the scheduler starts
  Assign,         \* the window word main() may give to each task, 0 for none
  Param,          \* pvParameters of each task
  StackTop,       \* the stack pointer each task starts with
  Platform,       \* "CVA6" or "Spike"
  HasTimer,       \* portasmHAS_MTIME: machine timer interrupts are taken
  RuntimeBorrow,  \* tasks may call vPortTaskSetKernelBorrowing while running
  NPHYS, NREG, SizeT,
  sp, a0, t0,     \* register numbers
  RestoreScratch, \* t2, t4: used by a full restore after it loads the frame
  CounterScratch, \* t5, t6: used to bump the integrity counters
  portCONTEXT_SIZE, xISRStackTop,
  StackFill,      \* what untouched stack memory holds (static stacks: 0)
  Junk,           \* what kernel code leaves in the registers it uses
  UserRegs, UserData,          \* what tasks write
  MaxNesting, MaxPush, CounterCap  \* bounds of the model

VARIABLES
  mode,           \* "main", "kernel" (in a handler) or "task"
  mem, win, staged,            \* the hart: registers, mapping, CSR 0x801
  mie,            \* mstatus.MIE (a trap keeps it in MPIE, and the frame)
  pxCurrentTCB,
  pxTopOfStack,   \* first member of each TCB
  frame,          \* the context found at pxTopOfStack
  tcb,            \* ulPortWindowConfig and ucPortBorrowKernelWindow
  xCriticalNesting,
  port_current_task_window_base,
  port_window_invalid_minimal_restore,
  port_window_kernel_borrow_restores,
  \* History: what each task did, to compare with what it finds.
  wrote,          \* the registers it has written
  left,           \* and the values it left in them
  pushed,         \* words it has on its stack
  nest            \* critical sections it is in

CVA6 == INSTANCE CVA6Window WITH
  PHYSICAL_REGS <- NPHYS, Data <- Int, Configs <- Nat,
  window_config_q <- ulWindowConfig(win.base, win.size),
  prev_window_config_q <- staged
Spike == INSTANCE SpikeWindow WITH
  NXPR <- NPHYS, Data <- Int, Configs <- Nat, data <- mem, xpr <- win,
  window_active <- 0, window_staged <- staged, previous_window_config <- 0

hartVars == <<mem, win, staged>>
portVars == <<pxCurrentTCB, pxTopOfStack, frame, tcb, xCriticalNesting,
              port_current_task_window_base,
              port_window_invalid_minimal_restore,
              port_window_kernel_borrow_restores>>
history == <<wrote, left, pushed, nest>>
vars == <<mode, hartVars, mie, portVars, history>>

Regs == 0 .. NREG - 1
Phys == 0 .. NPHYS - 1
\* Registers with a slot in the frame (sp is the address of the frame).
Saved == Regs \ {0, sp}

ASSUME PortAssumption ==
  /\ FirstTask \in Tasks
  /\ Assign \in [Tasks -> Nat]
  /\ Param \in [Tasks -> Int] /\ StackTop \in [Tasks -> Int]
  /\ Platform \in {"CVA6", "Spike"}
  /\ HasTimer \in BOOLEAN /\ RuntimeBorrow \in BOOLEAN
  /\ NPHYS \in Nat /\ NREG \in 3 .. 32 /\ NREG <= NPHYS
  /\ SizeT \in Nat /\ 3 * Half < SizeT /\ 2 * NPHYS < Half
  /\ {sp, a0, t0} \subseteq Regs \ {0} /\ sp # a0 /\ sp # t0 /\ a0 # t0
  /\ RestoreScratch \subseteq Saved /\ CounterScratch \subseteq Saved
  /\ portCONTEXT_SIZE \in Nat \ {0} /\ xISRStackTop \in Int
  /\ StackFill \in Int /\ Junk \in Int
  /\ UserRegs \subseteq Saved /\ UserData \subseteq Int
  /\ MaxNesting \in Nat /\ MaxPush \in Nat /\ CounterCap \in Nat \ {0}

\* Context types of a frame, word 32.
Full == 0
Minimal == 1

Bump(c) == IF c < CounterCap THEN c + 1 ELSE c

-----------------------------------------------------------------------------
(* The hart. *)

KernelWindow == [base |-> 0, size |-> NREG]

ReadReg(r) == IF Platform = "CVA6" THEN CVA6!Read(mem, win, r)
                                   ELSE Spike!Read(mem, win, r)

WriteReg(r, v) == IF Platform = "CVA6" THEN CVA6!Write(mem, win, r, v)
                                       ELSE Spike!Write(mem, win, r, v)

\* Seeded fault: the trap records the window it has just forced.
StagedTooLate == ulWindowConfig(0, NREG)

\* CSR 0x801 after a trap: CVA6 records the interrupted window there.
StagedByTrap ==
  IF Platform = "CVA6" THEN ulWindowConfig(win.base, win.size) ELSE staged

\* The mapping mret installs.
MretWindow(cfg) ==
  IF Platform = "CVA6"
  THEN Window(cfg)
  ELSE Spike!window_config_write(
         Spike!set_window_config(KernelWindow, window_base(cfg), window_size(cfg)),
         cfg)

\* Seeded fault: the trap leaves the interrupted mapping in force.
LoadThroughWindow(regs, stack) ==
  [p \in Phys |-> IF p - win.base \in Saved THEN regs[p - win.base]
                  ELSE IF p = win.base + sp THEN stack ELSE mem[p]]

\* Kernel code runs in the kernel window, where register r is physical r.
LoadKernel(regs, stack) ==
  [p \in Phys |-> IF p \in Saved THEN regs[p]
                  ELSE IF p = sp THEN stack ELSE mem[p]]

-----------------------------------------------------------------------------
(* main(): tasks are created, windows are given, the scheduler starts. *)

\* The context built by pxPortInitialiseStack.
InitialFrame(t) ==
  [regs    |-> [r \in Saved |-> IF r = a0 THEN Param[t] ELSE StackFill],
   nesting |-> 0,
   mpie    |-> TRUE,
   cfg     |-> 0,
   type    |-> Full]

Init ==
  /\ mode = "main"
  /\ mem = [p \in Phys |-> 0]
  /\ win = IF Platform = "CVA6" THEN KernelWindow ELSE [base |-> 0, size |-> NPHYS]
  /\ staged \in IF Platform = "CVA6" THEN {0} ELSE {Assign[t] : t \in Tasks} \cup {0}
  /\ mie = FALSE
  /\ pxCurrentTCB = FirstTask
  /\ pxTopOfStack = [t \in Tasks |-> StackTop[t] - portCONTEXT_SIZE]
  /\ frame = [t \in Tasks |-> InitialFrame(t)]
  /\ tcb = [t \in Tasks |-> [cfg |-> 0, borrow |-> FALSE]]
  /\ xCriticalNesting = 0 - 1           \* 0xaaaaaaaa: not a nesting depth
  /\ port_current_task_window_base = 0
  /\ port_window_invalid_minimal_restore = 0
  /\ port_window_kernel_borrow_restores = 0
  /\ wrote = [t \in Tasks |-> {}]
  /\ left = [t \in Tasks |-> [r \in Regs |-> 0]]
  /\ pushed = [t \in Tasks |-> 0]
  /\ nest = [t \in Tasks |-> 0]

\* The TCB and the frame at pxTopOfStack get the word, whatever the frame holds.
SetWindowingContext(t, cfg, borrow) ==
  /\ tcb' = [tcb EXCEPT ![t] = [cfg |-> cfg, borrow |-> borrow]]
  /\ frame' = [frame EXCEPT ![t].cfg = cfg]
  /\ UNCHANGED <<mode, hartVars, mie, pxCurrentTCB, pxTopOfStack, xCriticalNesting,
                 port_current_task_window_base, port_window_invalid_minimal_restore,
                 port_window_kernel_borrow_restores, wrote, left, pushed, nest>>

vPortTaskSetRegisterWindow(t) ==
  /\ mode = "main"
  /\ Assign[t] # 0
  /\ SetWindowingContext(t, Assign[t], FALSE)

vPortTaskSetKernelBorrowing(t, xEnable) ==
  /\ mode = "main" \/ (RuntimeBorrow /\ mode = "task")
  /\ SetWindowingContext(t, IF xEnable THEN 0 ELSE tcb[t].cfg, xEnable)

\* A first task whose frame has no window word is entered with ret.
xPortStartFirstTask ==
  /\ mode = "main"
  /\ frame[FirstTask].cfg = 0
  /\ mem' = LoadKernel(frame[FirstTask].regs, pxTopOfStack[FirstTask] + portCONTEXT_SIZE)
  /\ xCriticalNesting' = frame[FirstTask].nesting
  /\ mie' = TRUE
  /\ mode' = "task"
  /\ UNCHANGED <<win, staged, pxCurrentTCB, pxTopOfStack, frame, tcb, history,
                 port_current_task_window_base, port_window_invalid_minimal_restore,
                 port_window_kernel_borrow_restores>>

\* Otherwise with mret. The word was read into t0, and t0 is then loaded from
\* the frame before csrw 0x801, t0; sp stays at the base of the frame.
xPortStartFirstTaskWindowed ==
  /\ mode = "main"
  /\ frame[FirstTask].cfg # 0
  /\ port_current_task_window_base' = window_base(frame[FirstTask].cfg)
  /\ mem' = LoadKernel(frame[FirstTask].regs, pxTopOfStack[FirstTask])
  /\ xCriticalNesting' = frame[FirstTask].nesting
  /\ staged' = frame[FirstTask].regs[t0]
  /\ win' = MretWindow(staged')
  /\ mie' = TRUE
  /\ mode' = "task"
  /\ UNCHANGED <<pxCurrentTCB, pxTopOfStack, frame, tcb, history,
                 port_window_invalid_minimal_restore,
                 port_window_kernel_borrow_restores>>

-----------------------------------------------------------------------------
(* The running task. *)

\* An instruction of the running task with destination r.
Execute(r, v) ==
  /\ mode = "task"
  /\ mem' = WriteReg(r, v)
  /\ wrote' = [wrote EXCEPT ![pxCurrentTCB] = @ \cup {r}]
  /\ left' = [left EXCEPT ![pxCurrentTCB][r] = v]
  /\ UNCHANGED <<mode, win, staged, mie, portVars, nest>>

TaskWrite(r, v) ==
  /\ Execute(r, v)
  /\ UNCHANGED pushed

\* A function prologue (d = 1) and its epilogue (d = -1).
TaskMoveSp(d) ==
  /\ pushed[pxCurrentTCB] + d \in 0 .. MaxPush
  /\ Execute(sp, ReadReg(sp) - d)
  /\ pushed' = [pushed EXCEPT ![pxCurrentTCB] = @ + d]

portENTER_CRITICAL ==
  /\ mode = "task"
  /\ nest[pxCurrentTCB] < MaxNesting
  /\ mie' = FALSE
  /\ xCriticalNesting' = xCriticalNesting + 1
  /\ nest' = [nest EXCEPT ![pxCurrentTCB] = @ + 1]
  /\ UNCHANGED <<mode, hartVars, pxCurrentTCB, pxTopOfStack, frame, tcb,
                 port_current_task_window_base, port_window_invalid_minimal_restore,
                 port_window_kernel_borrow_restores, wrote, left, pushed>>

portEXIT_CRITICAL ==
  /\ mode = "task"
  /\ nest[pxCurrentTCB] > 0
  /\ xCriticalNesting' = xCriticalNesting - 1
  /\ mie' = (xCriticalNesting' = 0 \/ mie)
  /\ nest' = [nest EXCEPT ![pxCurrentTCB] = @ - 1]
  /\ UNCHANGED <<mode, hartVars, pxCurrentTCB, pxTopOfStack, frame, tcb,
                 port_current_task_window_base, port_window_invalid_minimal_restore,
                 port_window_kernel_borrow_restores, wrote, left, pushed>>

-----------------------------------------------------------------------------
(* The trap handler. *)

\* Seeded fault: the nesting slot keeps its initial value.
SavedFrameNoNesting(regs, cfg, type) ==
  [regs |-> regs, nesting |-> 0, mpie |-> mie, cfg |-> cfg, type |-> type]

SavedFrame(regs, cfg, type) ==
  [regs |-> regs, nesting |-> xCriticalNesting, mpie |-> mie,
   cfg |-> cfg, type |-> type]

\* Seeded fault: sp is stored in the context_type slot instead of x0.
FullSaveTypeSlot ==
  SavedFrame([[r \in Saved |-> mem[r]] EXCEPT ![t0] = 0], 0, mem[sp])

\* portcontextSAVE_CONTEXT_INTERNAL, full path: t0 has been loaded with the
\* window base (0 here) before the registers are stored.
FullSave ==
  SavedFrame([[r \in Saved |-> mem[r]] EXCEPT ![t0] = 0], 0, Full)

\* Seeded fault: the minimal path does not store CSR 0x801 in the frame.
MinimalSaveNoConfig == SavedFrame(frame[pxCurrentTCB].regs, 0, Minimal)

\* Minimal path: the register slots keep what memory held.
MinimalSave ==
  SavedFrame(IF mem[sp] - portCONTEXT_SIZE = pxTopOfStack[pxCurrentTCB]
             THEN frame[pxCurrentTCB].regs
             ELSE [r \in Saved |-> StackFill],
             StagedByTrap, Minimal)

\* Trap entry, the save, and the switch to the ISR stack. The save works in the
\* kernel window: its sp is physical register sp, whoever was interrupted.
SaveContext ==
  /\ win' = KernelWindow
  /\ staged' = StagedByTrap
  /\ frame' = [frame EXCEPT ![pxCurrentTCB] =
                 IF port_current_task_window_base = 0 THEN FullSave ELSE MinimalSave]
  /\ pxTopOfStack' = [pxTopOfStack EXCEPT ![pxCurrentTCB] = mem[sp] - portCONTEXT_SIZE]
  /\ mem' = LoadKernel([r \in Saved |-> Junk], xISRStackTop)
  /\ mie' = FALSE
  /\ mode' = "kernel"
  /\ UNCHANGED <<pxCurrentTCB, tcb, xCriticalNesting, port_current_task_window_base,
                 port_window_invalid_minimal_restore,
                 port_window_kernel_borrow_restores, history>>

portYIELD == mode = "task" /\ SaveContext

TimerInterrupt == mode = "task" /\ HasTimer /\ mie /\ SaveContext

\* Seeded fault: sp is left at the base of the frame.
FullRestoreNoPop(t) ==
  /\ mem' = LoadKernel(frame[t].regs, pxTopOfStack[t])
  /\ UNCHANGED <<port_window_kernel_borrow_restores,
                 port_window_invalid_minimal_restore>>

\* portcontextRESTORE_CONTEXT, from the choice of t to mret. A full restore loads
\* the frame in the kernel window, then uses t2 and t4 (and t5, t6 when the word
\* is 0) to stage the window.
FullRestore(t) ==
  LET scratch == RestoreScratch \cup
                 (IF frame[t].cfg = 0 THEN CounterScratch ELSE {})
  IN  /\ mem' = LoadKernel([r \in Saved |-> IF r \in scratch THEN Junk
                                            ELSE frame[t].regs[r]],
                           pxTopOfStack[t] + portCONTEXT_SIZE)
      /\ port_window_kernel_borrow_restores' =
           IF frame[t].cfg = 0 THEN Bump(port_window_kernel_borrow_restores)
                               ELSE port_window_kernel_borrow_restores
      /\ port_window_invalid_minimal_restore' =
           IF frame[t].type = Minimal THEN Bump(port_window_invalid_minimal_restore)
                                      ELSE port_window_invalid_minimal_restore

\* Seeded fault: sp is left at the base of the frame.
MinimalRestoreNoPop(t) ==
  /\ mem' = LoadKernel([r \in Saved |-> Junk], pxTopOfStack[t])
  /\ UNCHANGED <<port_window_kernel_borrow_restores,
                 port_window_invalid_minimal_restore>>

MinimalRestore(t) ==
  /\ mem' = LoadKernel([r \in Saved |-> Junk], pxTopOfStack[t] + portCONTEXT_SIZE)
  /\ UNCHANGED <<port_window_kernel_borrow_restores,
                 port_window_invalid_minimal_restore>>

RestoreContext(t) ==
  /\ mode = "kernel"
  /\ pxCurrentTCB' = t
  /\ port_current_task_window_base' = window_base(frame[t].cfg)
  /\ IF frame[t].type = Minimal /\ frame[t].cfg # 0
     THEN MinimalRestore(t)
     ELSE FullRestore(t)
  /\ staged' = frame[t].cfg
  /\ win' = MretWindow(staged')
  /\ xCriticalNesting' = frame[t].nesting
  /\ mie' = frame[t].mpie
  /\ mode' = "task"
  /\ UNCHANGED <<pxTopOfStack, frame, tcb, history>>

-----------------------------------------------------------------------------
Next ==
  \/ \E t \in Tasks : \/ vPortTaskSetRegisterWindow(t)
                      \/ \E b \in BOOLEAN : vPortTaskSetKernelBorrowing(t, b)
                      \/ RestoreContext(t)
  \/ xPortStartFirstTask
  \/ xPortStartFirstTaskWindowed
  \/ \E r \in UserRegs, v \in UserData : TaskWrite(r, v)
  \/ \E d \in {-1, 1} : TaskMoveSp(d)
  \/ portENTER_CRITICAL
  \/ portEXIT_CRITICAL
  \/ portYIELD
  \/ TimerInterrupt

Spec == Init /\ [][Next]_vars

-----------------------------------------------------------------------------
(* Properties. *)

\* How the windows have to be handed out for the design to work. A window begins
\* beyond the kernel's registers and inside the file, is not empty, and overlaps
\* no other; the first task has none; static stacks start zeroed; and nobody
\* changes a window once tasks run.
SupportedUse ==
  LET base(t) == window_base(Assign[t])
      size(t) == window_size(Assign[t])
  IN  /\ ~RuntimeBorrow
      /\ base(FirstTask) = 0
      /\ StackFill = 0
      /\ \A t \in Tasks :
           /\ Assign[t] \div Half < Half     \* a 32-bit word
           /\ base(t) # 0 => NREG <= base(t) /\ base(t) < NPHYS /\ size(t) > 0
      /\ \A t, u \in Tasks : t # u /\ base(t) # 0 /\ base(u) # 0 =>
           base(t) + size(t) <= base(u) \/ base(u) + size(u) <= base(t)

\* A word that names the kernel's own window names all of it, as integrity_test.c
\* does, or leaves the size out.
WholeKernelWindow ==
  \A t \in Tasks : window_base(Assign[t]) = 0 =>
    window_size(Assign[t]) = 0 \/ NREG <= window_size(Assign[t])

Windowed(t) == window_base(tcb[t].cfg) # 0

\* Register r of task t has a physical register of its own.
InOwnWindow(t, r) == /\ r # 0 /\ r < window_size(tcb[t].cfg)
                     /\ window_base(tcb[t].cfg) + r < NPHYS

\* Registers a full save or a full restore uses before it stores, or after it
\* loads, the task's own value.
Clobbered == {t0} \cup RestoreScratch \cup CounterScratch

Frames == [regs : [Saved -> Int], nesting : Int, mpie : BOOLEAN,
           cfg : Nat, type : {Full, Minimal}]

\* Every variable keeps its type.
TypeOK ==
  /\ mode \in {"main", "kernel", "task"}
  /\ mem \in [Phys -> Int]
  /\ win \in [base : Nat, size : Nat]
  /\ staged \in Nat
  /\ mie \in BOOLEAN
  /\ pxCurrentTCB \in Tasks
  /\ pxTopOfStack \in [Tasks -> Int]
  /\ frame \in [Tasks -> Frames]
  /\ tcb \in [Tasks -> [cfg : Nat, borrow : BOOLEAN]]
  /\ xCriticalNesting \in Int
  /\ port_current_task_window_base \in Nat
  /\ port_window_invalid_minimal_restore \in 0 .. CounterCap
  /\ port_window_kernel_borrow_restores \in 0 .. CounterCap
  /\ wrote \in [Tasks -> SUBSET Regs]
  /\ left \in [Tasks -> [Regs -> Int]]
  /\ pushed \in [Tasks -> 0 .. MaxPush]
  /\ nest \in [Tasks -> 0 .. MaxNesting]

\* The point of the design: although a minimal save stores no register, what a
\* windowed task left in a register of its window is still there whatever ran
\* since - other tasks, the tick handler, full and minimal restores.
WindowIsolation ==
  \A t \in Tasks : Windowed(t) =>
    \A r \in wrote[t] : InOwnWindow(t, r) =>
      mem[window_base(tcb[t].cfg) + r] = left[t][r]

\* portcontextRESTORE_CONTEXT leaves the hart in the window of the task that is
\* current, and port_current_task_window_base names it, so that the next save
\* takes the path that fits the registers actually in use.
RunsInOwnWindow ==
  mode = "task" =>
    /\ port_current_task_window_base = window_base(tcb[pxCurrentTCB].cfg)
    /\ Windowed(pxCurrentTCB) => win = MretWindow(tcb[pxCurrentTCB].cfg)

\* A task without a window finds every register a full save and restore does
\* not itself clobber, sp included, as it left it.
LegacyRegistersPreserved ==
  mode = "task" /\ ~Windowed(pxCurrentTCB) =>
    \A r \in wrote[pxCurrentTCB] \ Clobbered : ReadReg(r) = left[pxCurrentTCB][r]

\* xCriticalNesting is one variable shared by all the tasks: on every switch, at
\* any nesting depth, a task finds its own depth in it, and runs with interrupts
\* enabled exactly when it is in no critical section.
CriticalNestingPreserved ==
  mode = "task" =>
    /\ xCriticalNesting = nest[pxCurrentTCB]
    /\ mie = (nest[pxCurrentTCB] = 0)

\* A minimal save addresses the frame through the kernel window's sp, which the
\* last restore left there: a windowed task's context stays in the frame laid
\* out when the task was created and never creeps down its stack.
FrameInPlace ==
  \A t \in Tasks : Windowed(t) => pxTopOfStack[t] = StackTop[t] - portCONTEXT_SIZE

\* No frame marked minimal is restored without a window word, which would load
\* registers that were never saved.
NoInvalidMinimalRestore == port_window_invalid_minimal_restore = 0

-----------------------------------------------------------------------------
(* What comments and documents say, and some runs refute. *)

\* "normal 32-register save/restore" of a task without a window.
AllLegacyRegistersPreserved ==
  mode = "task" /\ ~Windowed(pxCurrentTCB) =>
    \A r \in wrote[pxCurrentTCB] : ReadReg(r) = left[pxCurrentTCB][r]

\* A staged word of 0 selects window 0, in which a task without a window has all
\* its registers.
LegacyRunsInWindow0 ==
  mode = "task" /\ ~Windowed(pxCurrentTCB) =>
    win.base = 0 /\ win.size >= NREG

\* xPortStartFirstTaskWindowed: "the first task instruction executes with the
\* staged task mapping". So does every later one of a task with a window.
RunsInStagedMapping ==
  mode = "task" /\ Windowed(pxCurrentTCB) => win = MretWindow(tcb[pxCurrentTCB].cfg)

\* A task that has not written any register yet finds its parameter in a0.
EntersWithParameter ==
  mode = "task" /\ wrote[pxCurrentTCB] = {} =>
    ReadReg(a0) = Param[pxCurrentTCB]
=============================================================================
