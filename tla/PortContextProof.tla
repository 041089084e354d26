-------------------------- MODULE PortContextProof --------------------------
(***************************************************************************)
(* The register-window port keeps its promises for every number of tasks,  *)
(* every register file and every set of disjoint windows, on both harts,   *)
(* under every schedule - as long as the windows are used as SupportedUse  *)
(* says.                                                                   *)
(***************************************************************************)
EXTENDS PortContext, WindowConfigProof

\* Before the scheduler starts the frames are the initial ones, apart from the
\* window word, and the hart is in the kernel's window.
MainOK ==
  mode = "main" =>
    /\ pxCurrentTCB = FirstTask
    /\ win.base = 0
    /\ port_current_task_window_base = 0
    /\ \A t \in Tasks :
         /\ wrote[t] = {}
         /\ pxTopOfStack[t] = StackTop[t] - portCONTEXT_SIZE
         /\ frame[t].regs = InitialFrame(t).regs
         /\ frame[t].cfg = tcb[t].cfg
         /\ frame[t].type = Full

\* A task has the window main() gave it, or none.
ConfigOK == \A t \in Tasks : tcb[t].cfg \in {0, Assign[t]}

\* The word in a frame names the task's window; only windowed tasks have minimal
\* frames.
FrameOK ==
  \A t \in Tasks :
    /\ Windowed(t) => frame[t].cfg = tcb[t].cfg
    /\ ~Windowed(t) => window_base(frame[t].cfg) = 0 /\ frame[t].type = Full

\* The hart, the staged word and the kernel's sp belong to the running task.
RunningOK ==
  mode = "task" =>
    /\ port_current_task_window_base = window_base(tcb[pxCurrentTCB].cfg)
    /\ Windowed(pxCurrentTCB) => /\ win = MretWindow(tcb[pxCurrentTCB].cfg)
                                 /\ staged = tcb[pxCurrentTCB].cfg
                                 /\ mem[sp] = StackTop[pxCurrentTCB]
    /\ ~Windowed(pxCurrentTCB) => win.base = 0

Safe == /\ MainOK /\ ConfigOK /\ FrameOK /\ RunningOK
        /\ WindowIsolation /\ FrameInPlace /\ NoInvalidMinimalRestore

IInv == TypeOK /\ Safe

-----------------------------------------------------------------------------
\* What the proofs use of the constants.
LEMMA Sizes ==
  /\ NPHYS \in Nat /\ NREG \in Nat /\ SizeT \in Nat
  /\ 2 < NREG /\ NREG <= 32 /\ NREG <= NPHYS
  /\ 2 * NPHYS < 65536 /\ 3 * 65536 < SizeT
  BY PortAssumption DEF Half

\* The registers with a slot, and sp, are kernel registers other than x0.
LEMMA Registers ==
  /\ sp \in Nat /\ sp # 0 /\ sp < NREG
  /\ t0 \in Saved /\ a0 \in Saved /\ t0 # a0
  /\ \A r \in Saved : r \in Nat /\ r # 0 /\ r < NREG /\ r # sp
  /\ Saved \subseteq Phys /\ sp \in Phys /\ 0 \in Phys
  /\ Saved \subseteq Regs /\ sp \in Regs
  BY PortAssumption, Sizes DEF Saved, Regs, Phys

\* set_window_config clamps a window whose base is inside the file.
LEMMA Clamped ==
  ASSUME NEW w, NEW b \in Nat, b < NPHYS, NEW s \in Nat, s < 65536
  PROVE  Spike!set_window_config(w, b, s) =
           [base |-> b, size |-> IF b + s > NPHYS THEN NPHYS - b ELSE s]
<1>1. /\ NPHYS \in Nat /\ SizeT \in Nat
      /\ b + s \in Nat /\ b + s < SizeT
      /\ NPHYS - b \in Nat /\ NPHYS - b < SizeT
  BY Sizes
<1>2. (b + s) % SizeT = b + s /\ (NPHYS - b) % SizeT = NPHYS - b
  BY <1>1, ModSmall
<1> QED
  BY <1>1, <1>2 DEF Spike!set_window_config

\* The mapping mret installs begins at the base the word names, and a word with
\* a size maps exactly the registers of that window that exist.
LEMMA MretMaps ==
  ASSUME NEW c \in Nat, window_base(c) < NPHYS
  PROVE  /\ MretWindow(c) \in [base : Nat, size : Nat]
         /\ MretWindow(c).base = window_base(c)
         /\ Platform = "CVA6" => MretWindow(c) = Window(c)
         /\ window_size(c) > 0 =>
              \A r \in Nat : window_base(c) + r < NPHYS =>
                (r < MretWindow(c).size <=> r < window_size(c))
<1> DEFINE b == window_base(c)
           s == window_size(c)
           n == IF s = 0 THEN NREG ELSE s
<1>1. b \in Nat /\ b < NPHYS /\ s \in Nat /\ s < 65536 /\ n \in Nat /\ n < 65536
  BY WordParts, Sizes
<1>2. CASE Platform = "CVA6"
  <2>1. MretWindow(c) = [base |-> b, size |-> s]
    BY <1>2 DEF MretWindow, Window
  <2> QED
    BY <1>1, <2>1 DEF Window
<1>3. CASE Platform # "CVA6"
  <2>1. Spike!window_base(c) = b /\ Spike!window_size(c) = s
    BY DEF Spike!window_base, Spike!window_size, Spike!Half,
           window_base, window_size, Half
  <2>2. MretWindow(c) = Spike!set_window_config(
                          Spike!set_window_config(KernelWindow, b, s), b, n)
    BY <1>3, <2>1 DEF MretWindow, Spike!window_config_write
  <2> HIDE DEF b, s, n
  <2>3. MretWindow(c) = [base |-> b, size |-> IF b + n > NPHYS THEN NPHYS - b ELSE n]
    BY <1>1, <2>2, Clamped
  <2>4. s > 0 => n = s
    BY <1>1 DEF n
  <2>5. MretWindow(c) \in [base : Nat, size : Nat]
    BY <1>1, <2>3, Sizes
  <2>6. s > 0 => \A r \in Nat : b + r < NPHYS => (r < MretWindow(c).size <=> r < s)
    BY <1>1, <2>3, <2>4, Sizes
  <2> QED
    BY <1>3, <2>3, <2>5, <2>6 DEF b, s
<1> QED
  BY <1>2, <1>3

\* What a write instruction of the running task does to the file.
LEMMA WriteMaps ==
  ASSUME TypeOK, NEW r \in Saved \cup {sp}, NEW v
  PROVE  WriteReg(r, v) = IF r < win.size /\ win.base + r < NPHYS
                          THEN [mem EXCEPT ![win.base + r] = v] ELSE mem
<1>1. r \in Nat /\ r # 0 /\ win.base \in Nat
  BY Registers DEF TypeOK
<1>2. win.base + r = r + win.base /\ win.base + r # 0
  BY <1>1
<1> QED
  BY <1>1, <1>2 DEF WriteReg, CVA6!Write, CVA6!InWindow, Spike!Write, Spike!Mapped

\* A register of the running task reads as an integer.
LEMMA ReadType ==
  ASSUME TypeOK, NEW r \in Saved \cup {sp}
  PROVE  ReadReg(r) \in Int
<1>1. r \in Nat /\ win.base \in Nat /\ mem \in [Phys -> Int]
  BY Registers DEF TypeOK
<1>2. win.base + r = r + win.base /\ win.base + r \in Nat
  BY <1>1
<1>3. win.base + r < NPHYS => mem[win.base + r] \in Int
  BY <1>1, <1>2, Sizes DEF Phys
<1>4. mem[0] \in Int
  BY <1>1, Registers
<1> QED
  BY <1>1, <1>2, <1>3, <1>4
     DEF ReadReg, CVA6!Read, CVA6!InWindow, Spike!Read, Spike!Mapped

\* Kernel code changes kernel registers only.
LEMMA LoadFacts ==
  ASSUME TypeOK, NEW regs \in [Saved -> Int], NEW stack \in Int
  PROVE  /\ LoadKernel(regs, stack) \in [Phys -> Int]
         /\ LoadKernel(regs, stack)[sp] = stack
         /\ \A p \in Phys : p >= NREG => LoadKernel(regs, stack)[p] = mem[p]
<1>1. \A p \in Phys : p >= NREG => p \notin Saved /\ p # sp
  BY Registers, Sizes DEF Phys
<1>2. sp \in Phys /\ sp \notin Saved
  BY Registers
<1> QED
  BY <1>1, <1>2 DEF LoadKernel, TypeOK

\* What SupportedUse says of the window a task has.
LEMMA WindowFacts ==
  ASSUME SupportedUse, TypeOK, ConfigOK, NEW t \in Tasks
  PROVE  /\ tcb[t].cfg \in Nat
         /\ window_base(tcb[t].cfg) \in Nat
         /\ window_base(tcb[t].cfg) < NPHYS
         /\ window_size(tcb[t].cfg) \in Nat
         /\ window_size(tcb[t].cfg) < 65536
         /\ Windowed(t) => /\ tcb[t].cfg = Assign[t]
                           /\ tcb[t].cfg # 0
                           /\ NREG <= window_base(tcb[t].cfg)
                           /\ window_size(tcb[t].cfg) > 0
                           /\ t # FirstTask
<1>1. tcb[t].cfg \in Nat
  BY DEF TypeOK
<1>2. /\ window_base(tcb[t].cfg) \in Nat
      /\ window_size(tcb[t].cfg) \in Nat
      /\ window_size(tcb[t].cfg) < 65536
  BY <1>1, WordParts
<1>3. tcb[t].cfg \in {0, Assign[t]}
  BY DEF ConfigOK
<1>4. window_base(Assign[t]) # 0 => /\ NREG <= window_base(Assign[t])
                                   /\ window_base(Assign[t]) < NPHYS
                                   /\ window_size(Assign[t]) > 0
  BY DEF SupportedUse
<1>5. window_base(Assign[FirstTask]) = 0
  BY DEF SupportedUse
<1> QED
  BY <1>1, <1>2, <1>3, <1>4, <1>5, ZeroWord, Sizes DEF Windowed

\* Two windowed tasks have no physical register in common.
LEMMA Disjoint ==
  ASSUME SupportedUse, TypeOK, ConfigOK,
         NEW t \in Tasks, NEW u \in Tasks, t # u, Windowed(t), Windowed(u)
  PROVE  \/ window_base(tcb[t].cfg) + window_size(tcb[t].cfg) <= window_base(tcb[u].cfg)
         \/ window_base(tcb[u].cfg) + window_size(tcb[u].cfg) <= window_base(tcb[t].cfg)
<1>1. tcb[t].cfg = Assign[t] /\ tcb[u].cfg = Assign[u]
  BY WindowFacts
<1> QED
  BY <1>1 DEF SupportedUse, Windowed

\* Windows survive a step that changes kernel registers only.
LEMMA KernelKeepsIsolation ==
  ASSUME SupportedUse, TypeOK, ConfigOK, WindowIsolation,
         UNCHANGED <<tcb, wrote, left>>,
         \A p \in Phys : p >= NREG => mem'[p] = mem[p]
  PROVE  WindowIsolation'
<1> SUFFICES ASSUME NEW t \in Tasks, Windowed(t), NEW r \in wrote[t], InOwnWindow(t, r)
             PROVE  mem'[window_base(tcb[t].cfg) + r] = left[t][r]
  BY DEF WindowIsolation, Windowed, InOwnWindow
<1>1. r \in Nat
  BY Sizes DEF TypeOK, Regs
<1>2. window_base(tcb[t].cfg) + r \in Phys /\ window_base(tcb[t].cfg) + r >= NREG
  BY <1>1, WindowFacts, Sizes DEF InOwnWindow, Phys
<1> QED
  BY <1>2 DEF WindowIsolation

-----------------------------------------------------------------------------
\* The context pxPortInitialiseStack builds is a frame.
LEMMA InitialFrameType ==
  ASSUME NEW t \in Tasks
  PROVE  /\ InitialFrame(t) \in Frames
         /\ InitialFrame(t).cfg = 0 /\ InitialFrame(t).type = Full
         /\ InitialFrame(t).nesting = 0
         /\ InitialFrame(t).regs[t0] = StackFill
<1>1. [r \in Saved |-> IF r = a0 THEN Param[t] ELSE StackFill] \in [Saved -> Int]
  BY PortAssumption
<1> QED
  BY <1>1, Registers DEF InitialFrame, Frames, Full, Minimal

\* The state in which main() begins.
LEMMA InitIInv ==
  ASSUME SupportedUse, Init
  PROVE  IInv
<1>1. TypeOK
  <2>1. mem \in [Phys -> Int] /\ win \in [base : Nat, size : Nat] /\ win.base = 0
    BY Sizes DEF Init, KernelWindow
  <2>2. staged \in Nat
    BY PortAssumption DEF Init
  <2>3. pxTopOfStack \in [Tasks -> Int] /\ frame \in [Tasks -> Frames]
    BY PortAssumption, InitialFrameType DEF Init
  <2>4. /\ pxCurrentTCB \in Tasks
        /\ CounterCap \in Nat /\ MaxPush \in Nat /\ MaxNesting \in Nat
    BY PortAssumption DEF Init
  <2>5. /\ wrote \in [Tasks -> SUBSET Regs]
        /\ left \in [Tasks -> [Regs -> Int]]
              /\ tcb \in [Tasks -> [cfg : Nat, borrow : BOOLEAN]]
    BY DEF Init
  <2>6. /\ pushed \in [Tasks -> 0 .. MaxPush] /\ nest \in [Tasks -> 0 .. MaxNesting]
        /\ port_window_invalid_minimal_restore \in 0 .. CounterCap
        /\ port_window_kernel_borrow_restores \in 0 .. CounterCap
    <3>1. 0 \in 0 .. MaxPush /\ 0 \in 0 .. MaxNesting /\ 0 \in 0 .. CounterCap
      BY <2>4
    <3> QED
      BY <3>1 DEF Init
  <2>7. mode \in {"main", "kernel", "task"} /\ mie \in BOOLEAN
    BY DEF Init
  <2>8. xCriticalNesting \in Int /\ port_current_task_window_base \in Nat
    BY DEF Init
  <2> QED
    BY <2>1, <2>2, <2>3, <2>4, <2>5, <2>6, <2>7, <2>8 DEF TypeOK
<1>2. \A t \in Tasks : tcb[t].cfg = 0 /\ ~Windowed(t)
  BY ZeroWord DEF Init, Windowed
<1>3. win.base = 0
  BY DEF Init, KernelWindow
<1>4. MainOK
  BY <1>2, <1>3, InitialFrameType DEF MainOK, Init
<1>5. ConfigOK /\ FrameOK
  BY <1>2, InitialFrameType, ZeroWord DEF ConfigOK, FrameOK, Init
<1>6. RunningOK /\ WindowIsolation /\ FrameInPlace /\ NoInvalidMinimalRestore
  BY <1>2 DEF RunningOK, WindowIsolation, FrameInPlace, NoInvalidMinimalRestore, Init
<1> QED
  BY <1>1, <1>4, <1>5, <1>6 DEF IInv, Safe

\* main() gives a window to a task or takes it away.
LEMMA SetWindowIInv ==
  ASSUME SupportedUse, IInv, mode = "main",
         NEW t \in Tasks, NEW c \in {0, Assign[t]}, NEW b \in BOOLEAN,
         SetWindowingContext(t, c, b)
  PROVE  IInv'
<1>1. c \in Nat
  BY PortAssumption
<1>2. /\ tcb' = [tcb EXCEPT ![t] = [cfg |-> c, borrow |-> b]]
      /\ frame' = [frame EXCEPT ![t].cfg = c]
      /\ UNCHANGED <<mode, mem, win, staged, mie, pxCurrentTCB, pxTopOfStack,
                     xCriticalNesting, port_current_task_window_base,
                     port_window_invalid_minimal_restore,
                     port_window_kernel_borrow_restores, wrote, left, pushed, nest>>
  BY DEF SetWindowingContext, hartVars
<1>3. frame \in [Tasks -> Frames] /\ tcb \in [Tasks -> [cfg : Nat, borrow : BOOLEAN]]
  BY DEF IInv, TypeOK
<1>4. frame' \in [Tasks -> Frames]
  BY <1>1, <1>2, <1>3 DEF Frames
<1>5. tcb' \in [Tasks -> [cfg : Nat, borrow : BOOLEAN]]
  BY <1>1, <1>2, <1>3
<1>6. TypeOK'
  BY <1>2, <1>4, <1>5 DEF IInv, TypeOK
<1>7. MainOK'
  <2>1. \A u \in Tasks : /\ frame'[u].regs = frame[u].regs
                         /\ frame'[u].type = frame[u].type
                         /\ frame'[u].cfg = tcb'[u].cfg
    BY <1>2, <1>3 DEF IInv, Safe, MainOK, Frames
  <2> QED
    BY <1>2, <2>1 DEF IInv, Safe, MainOK, InitialFrame
<1>8. ConfigOK'
  BY <1>2, <1>3 DEF IInv, Safe, ConfigOK
<1>9. FrameOK'
  BY <1>2, <1>7 DEF MainOK, FrameOK, Windowed
<1>10. RunningOK' /\ WindowIsolation' /\ FrameInPlace' /\ NoInvalidMinimalRestore'
  <2>1. RunningOK' /\ NoInvalidMinimalRestore'
    BY <1>2 DEF IInv, Safe, RunningOK, NoInvalidMinimalRestore
  <2>2. WindowIsolation' /\ FrameInPlace'
    BY <1>2, <1>7 DEF MainOK, WindowIsolation, FrameInPlace
  <2> QED
    BY <2>1, <2>2
<1> QED
  BY <1>6, <1>7, <1>8, <1>9, <1>10 DEF IInv, Safe

\* What starting the scheduler needs to know of the first task.
LEMMA FirstTaskFacts ==
  ASSUME SupportedUse, IInv, mode = "main"
  PROVE  /\ FirstTask \in Tasks /\ pxCurrentTCB = FirstTask
         /\ ~Windowed(FirstTask)
         /\ window_base(tcb[FirstTask].cfg) = 0
         /\ frame[FirstTask].cfg = tcb[FirstTask].cfg
         /\ frame[FirstTask].regs \in [Saved -> Int]
         /\ frame[FirstTask].regs[t0] = 0
         /\ frame[FirstTask].nesting \in Int
         /\ pxTopOfStack[FirstTask] \in Int
         /\ \A t \in Tasks : wrote[t] = {}
<1>1. FirstTask \in Tasks
  BY PortAssumption
<1>2. ~Windowed(FirstTask)
  BY <1>1, WindowFacts DEF IInv, Safe
<1>3. StackFill = 0
  BY DEF SupportedUse
<1>4. frame[FirstTask] \in Frames /\ pxTopOfStack[FirstTask] \in Int
  BY <1>1 DEF IInv, TypeOK
<1> QED
  BY <1>1, <1>2, <1>3, <1>4, InitialFrameType
     DEF IInv, Safe, MainOK, Frames, Windowed

\* The first task, which has no window, is entered with ret.
LEMMA StartIInv ==
  ASSUME SupportedUse, IInv, xPortStartFirstTask
  PROVE  IInv'
<1>1. mode = "main"
  BY DEF xPortStartFirstTask
<1> DEFINE stack == pxTopOfStack[FirstTask] + portCONTEXT_SIZE
<1>2. stack \in Int
  BY <1>1, FirstTaskFacts, PortAssumption
<1>3. /\ mem' = LoadKernel(frame[FirstTask].regs, stack)
      /\ xCriticalNesting' = frame[FirstTask].nesting
      /\ mie' = TRUE /\ mode' = "task"
      /\ UNCHANGED <<win, staged, pxCurrentTCB, pxTopOfStack, frame, tcb,
                     port_current_task_window_base,
                     port_window_invalid_minimal_restore,
                     port_window_kernel_borrow_restores,
                     wrote, left, pushed, nest>>
  BY DEF xPortStartFirstTask, history
<1> HIDE DEF stack
<1>4. mem' \in [Phys -> Int] /\ xCriticalNesting' \in Int
  BY <1>1, <1>2, <1>3, FirstTaskFacts, LoadFacts DEF IInv
<1>5. TypeOK'
  BY <1>3, <1>4 DEF IInv, TypeOK
<1>6. MainOK' /\ ConfigOK' /\ FrameOK' /\ FrameInPlace' /\ NoInvalidMinimalRestore'
  BY <1>3 DEF IInv, Safe, MainOK, ConfigOK, FrameOK, FrameInPlace,
              NoInvalidMinimalRestore, Windowed
<1>7. RunningOK'
  BY <1>1, <1>3, FirstTaskFacts DEF IInv, Safe, MainOK, RunningOK, Windowed
<1>8. WindowIsolation'
  BY <1>1, <1>3, FirstTaskFacts DEF WindowIsolation
<1> QED
  BY <1>5, <1>6, <1>7, <1>8 DEF IInv, Safe

\* The first task was given the kernel's own window: it is entered with mret.
LEMMA StartWindowedIInv ==
  ASSUME SupportedUse, IInv, xPortStartFirstTaskWindowed
  PROVE  IInv'
<1>1. mode = "main"
  BY DEF xPortStartFirstTaskWindowed
<1>2. /\ mem' = LoadKernel(frame[FirstTask].regs, pxTopOfStack[FirstTask])
      /\ xCriticalNesting' = frame[FirstTask].nesting
      /\ port_current_task_window_base' = 0
      /\ staged' = 0 /\ win' = MretWindow(0)
      /\ mie' = TRUE /\ mode' = "task"
      /\ UNCHANGED <<pxCurrentTCB, pxTopOfStack, frame, tcb,
                     port_window_invalid_minimal_restore,
                     port_window_kernel_borrow_restores,
                     wrote, left, pushed, nest>>
  BY <1>1, FirstTaskFacts DEF xPortStartFirstTaskWindowed, history
<1>3. mem' \in [Phys -> Int] /\ xCriticalNesting' \in Int
  BY <1>1, <1>2, FirstTaskFacts, LoadFacts DEF IInv
<1>4. win' \in [base : Nat, size : Nat] /\ win'.base = 0
  BY <1>2, MretMaps, ZeroWord, Sizes
<1>5. TypeOK'
  BY <1>2, <1>3, <1>4 DEF IInv, TypeOK
<1>6. MainOK' /\ ConfigOK' /\ FrameOK' /\ FrameInPlace' /\ NoInvalidMinimalRestore'
  BY <1>2 DEF IInv, Safe, MainOK, ConfigOK, FrameOK, FrameInPlace,
              NoInvalidMinimalRestore, Windowed
<1>7. RunningOK'
  BY <1>1, <1>2, <1>4, FirstTaskFacts DEF RunningOK, Windowed
<1>8. WindowIsolation'
  BY <1>1, <1>2, FirstTaskFacts DEF WindowIsolation
<1> QED
  BY <1>5, <1>6, <1>7, <1>8 DEF IInv, Safe

-----------------------------------------------------------------------------
\* The physical register that register x of a windowed task t stands for is not
\* the one an instruction with destination r of the running task writes, unless
\* it is the same register of the same task.
LEMMA Separate ==
  ASSUME SupportedUse, IInv, mode = "task",
         NEW r \in Saved \cup {sp}, r < win.size, win.base + r < NPHYS,
         NEW t \in Tasks, Windowed(t), NEW x \in Regs, InOwnWindow(t, x),
         t # pxCurrentTCB \/ x # r
  PROVE  window_base(tcb[t].cfg) + x # win.base + r
<1> DEFINE c == pxCurrentTCB
<1>1. /\ r \in Nat /\ r < NREG /\ x \in Nat /\ c \in Tasks
      /\ win.base \in Nat
      /\ window_base(tcb[t].cfg) \in Nat /\ NREG <= window_base(tcb[t].cfg)
      /\ window_size(tcb[t].cfg) \in Nat /\ x < window_size(tcb[t].cfg)
  <2>1. r \in Nat /\ r < NREG /\ x \in Nat
    BY Registers, Sizes DEF Regs
  <2>2. c \in Tasks /\ win.base \in Nat
    BY DEF IInv, TypeOK
  <2>3. /\ window_base(tcb[t].cfg) \in Nat /\ NREG <= window_base(tcb[t].cfg)
        /\ window_size(tcb[t].cfg) \in Nat
    BY WindowFacts DEF IInv, Safe
  <2> QED
    BY <2>1, <2>2, <2>3 DEF InOwnWindow
<1>2. CASE ~Windowed(c)
  BY <1>1, <1>2, Sizes DEF IInv, Safe, RunningOK
<1>3. CASE Windowed(c)
  <2>1. /\ tcb[c].cfg \in Nat
        /\ window_base(tcb[c].cfg) \in Nat /\ window_base(tcb[c].cfg) < NPHYS
        /\ window_size(tcb[c].cfg) \in Nat /\ window_size(tcb[c].cfg) > 0
    BY <1>1, <1>3, WindowFacts DEF IInv, Safe
  <2>2. win = MretWindow(tcb[c].cfg)
    BY <1>3 DEF IInv, Safe, RunningOK
  <2>3. win.base = window_base(tcb[c].cfg) /\ r < window_size(tcb[c].cfg)
    BY <1>1, <2>1, <2>2, MretMaps
  <2>4. CASE t = c
    BY <1>1, <2>3, <2>4
  <2>5. CASE t # c
    <3>1. \/ window_base(tcb[t].cfg) + window_size(tcb[t].cfg) <= window_base(tcb[c].cfg)
          \/ window_base(tcb[c].cfg) + window_size(tcb[c].cfg) <= window_base(tcb[t].cfg)
      BY <1>1, <1>3, <2>5, Disjoint DEF IInv, Safe
    <3> HIDE DEF c
    <3> QED
      BY <1>1, <2>1, <2>3, <3>1
  <2> QED
    BY <2>4, <2>5
<1> QED
  BY <1>2, <1>3

\* The running task executes an instruction.
LEMMA ExecuteIInv ==
  ASSUME SupportedUse, IInv, NEW r \in Saved \cup {sp}, NEW v \in Int,
         Execute(r, v), pushed' \in [Tasks -> 0 .. MaxPush]
  PROVE  IInv'
<1> DEFINE c == pxCurrentTCB
           hit == r < win.size /\ win.base + r < NPHYS
<1>1. /\ mode = "task" /\ mode' = mode
      /\ mem' = IF hit THEN [mem EXCEPT ![win.base + r] = v] ELSE mem
      /\ wrote' = [wrote EXCEPT ![c] = @ \cup {r}]
      /\ left' = [left EXCEPT ![c][r] = v]
      /\ UNCHANGED <<win, staged, mie, pxCurrentTCB, pxTopOfStack, frame, tcb,
                     xCriticalNesting, port_current_task_window_base,
                     port_window_invalid_minimal_restore,
                     port_window_kernel_borrow_restores, nest>>
  BY WriteMaps DEF Execute, portVars, IInv
<1>2. /\ c \in Tasks /\ r \in Nat /\ r # 0 /\ r < NREG /\ r \in Regs
      /\ win.base \in Nat
      /\ mem \in [Phys -> Int]
      /\ wrote \in [Tasks -> SUBSET Regs]
      /\ left \in [Tasks -> [Regs -> Int]]
  BY Registers DEF IInv, TypeOK
<1>3. hit => win.base + r \in Phys
  BY <1>2, Sizes DEF Phys
<1> HIDE DEF hit
<1>4. TypeOK'
  <2>1. mem' \in [Phys -> Int]
    BY <1>1, <1>2, <1>3
  <2>2. wrote' \in [Tasks -> SUBSET Regs] /\ left' \in [Tasks -> [Regs -> Int]]
    BY <1>1, <1>2
  <2> QED
    BY <1>1, <2>1, <2>2 DEF IInv, TypeOK
<1>5. MainOK' /\ ConfigOK' /\ FrameOK' /\ FrameInPlace' /\ NoInvalidMinimalRestore'
  BY <1>1 DEF IInv, Safe, MainOK, ConfigOK, FrameOK, FrameInPlace,
              NoInvalidMinimalRestore, Windowed
<1>6. RunningOK'
  <2>1. ASSUME Windowed(c) PROVE mem'[sp] = mem[sp]
    <3>1. /\ tcb[c].cfg \in Nat /\ window_base(tcb[c].cfg) < NPHYS
          /\ NREG <= window_base(tcb[c].cfg)
      BY <1>2, <2>1, WindowFacts DEF IInv, Safe
    <3>2. win.base = window_base(tcb[c].cfg)
      BY <1>1, <2>1, <3>1, MretMaps DEF IInv, Safe, RunningOK
    <3>3. sp # win.base + r
      BY <1>2, <3>1, <3>2, Registers, Sizes
    <3> QED
      BY <1>1, <1>2, <3>3, Registers
  <2>2. MretWindow(tcb[c].cfg)' = MretWindow(tcb[c].cfg)
    BY <1>1 DEF MretWindow
  <2> QED
    BY <1>1, <2>1, <2>2 DEF IInv, Safe, RunningOK, Windowed
<1>7. WindowIsolation'
  <2> SUFFICES ASSUME NEW t \in Tasks, Windowed(t), NEW x \in wrote'[t], InOwnWindow(t, x)
               PROVE  mem'[window_base(tcb[t].cfg) + x] = left'[t][x]
    BY <1>1 DEF WindowIsolation, Windowed, InOwnWindow
  <2>1. x \in Regs /\ x \in Nat /\ window_base(tcb[t].cfg) + x \in Phys
    <3>1. x \in Regs
      BY <1>1, <1>2
    <3>2. window_base(tcb[t].cfg) \in Nat
      BY WindowFacts DEF IInv, Safe
    <3> QED
      BY <3>1, <3>2, Sizes DEF Regs, Phys, InOwnWindow
  <2>2. CASE t = c /\ x = r
    <3>1. /\ tcb[c].cfg \in Nat /\ window_base(tcb[c].cfg) < NPHYS
          /\ window_size(tcb[c].cfg) > 0
      BY <1>2, <2>2, WindowFacts DEF IInv, Safe
    <3>2. win = MretWindow(tcb[c].cfg)
      BY <1>1, <2>2 DEF IInv, Safe, RunningOK
    <3>3. hit /\ win.base = window_base(tcb[c].cfg)
      BY <1>2, <2>2, <3>1, <3>2, MretMaps DEF InOwnWindow, hit
    <3> QED
      BY <1>1, <1>2, <2>1, <2>2, <3>3
  <2>3. CASE t # c \/ x # r
    <3>1. x \in wrote[t] /\ left'[t][x] = left[t][x]
      BY <1>1, <1>2, <2>1, <2>3
    <3>2. mem[window_base(tcb[t].cfg) + x] = left[t][x]
      BY <3>1 DEF IInv, Safe, WindowIsolation
    <3>3. hit => window_base(tcb[t].cfg) + x # win.base + r
      BY <1>1, <2>1, <2>3, Separate DEF hit
    <3> QED
      BY <1>1, <1>2, <2>1, <3>1, <3>2, <3>3
  <2> QED
    BY <2>2, <2>3
<1> QED
  BY <1>4, <1>5, <1>6, <1>7 DEF IInv, Safe

\* Entering and leaving a critical section touches no context.
LEMMA CriticalIInv ==
  ASSUME IInv, portENTER_CRITICAL \/ portEXIT_CRITICAL
  PROVE  IInv'
<1>1. UNCHANGED <<mode, mem, win, staged, pxCurrentTCB, pxTopOfStack, frame, tcb,
                  port_current_task_window_base, port_window_invalid_minimal_restore,
                  port_window_kernel_borrow_restores, wrote, left, pushed>>
  BY DEF portENTER_CRITICAL, portEXIT_CRITICAL, hartVars
<1>2. mie' \in BOOLEAN
  BY DEF portENTER_CRITICAL, portEXIT_CRITICAL
<1>3. xCriticalNesting' \in Int /\ nest' \in [Tasks -> 0 .. MaxNesting]
  <2>1. /\ xCriticalNesting \in Int /\ pxCurrentTCB \in Tasks
        /\ nest \in [Tasks -> 0 .. MaxNesting] /\ MaxNesting \in Nat
    BY PortAssumption DEF IInv, TypeOK
  <2>2. CASE portENTER_CRITICAL
    BY <2>1, <2>2 DEF portENTER_CRITICAL
  <2>3. CASE portEXIT_CRITICAL
    BY <2>1, <2>3 DEF portEXIT_CRITICAL
  <2> QED
    BY <2>2, <2>3
<1>4. TypeOK'
  BY <1>1, <1>2, <1>3 DEF IInv, TypeOK
<1>5. MretWindow(tcb[pxCurrentTCB].cfg)' = MretWindow(tcb[pxCurrentTCB].cfg)
  BY <1>1 DEF MretWindow
<1>6. Safe'
  <2>1. MainOK' /\ ConfigOK' /\ FrameOK' /\ FrameInPlace' /\ NoInvalidMinimalRestore'
    BY <1>1 DEF IInv, Safe, MainOK, ConfigOK, FrameOK, FrameInPlace,
                NoInvalidMinimalRestore, Windowed
  <2>2. RunningOK' /\ WindowIsolation'
    BY <1>1, <1>5 DEF IInv, Safe, RunningOK, WindowIsolation, Windowed, InOwnWindow
  <2> QED
    BY <2>1, <2>2 DEF Safe
<1> QED
  BY <1>4, <1>6 DEF IInv

-----------------------------------------------------------------------------
\* CSR 0x801 at trap entry names the window of a windowed task: because the hart
\* has just recorded it (CVA6), or because the last restore left it (Spike).
LEMMA StagedIsWindow ==
  ASSUME SupportedUse, IInv, mode = "task", Windowed(pxCurrentTCB)
  PROVE  StagedByTrap = tcb[pxCurrentTCB].cfg
<1> DEFINE c == tcb[pxCurrentTCB].cfg
<1>1. pxCurrentTCB \in Tasks /\ win = MretWindow(c) /\ staged = c
  BY DEF IInv, TypeOK, Safe, RunningOK
<1>2. /\ c \in Nat /\ window_base(c) < NPHYS
      /\ c = Assign[pxCurrentTCB]
  BY <1>1, WindowFacts DEF IInv, Safe
<1>3. c \div Half < Half
  BY <1>1, <1>2 DEF SupportedUse
<1>4. CASE Platform = "CVA6"
  <2>1. win = Window(c)
    BY <1>1, <1>2, <1>4, MretMaps
  <2>2. win.base = window_base(c) /\ win.size = window_size(c)
    BY <2>1 DEF Window
  <2> QED
    BY <1>2, <1>3, <1>4, <2>2, WordRoundTrip DEF StagedByTrap
<1>5. CASE Platform # "CVA6"
  BY <1>1, <1>5 DEF StagedByTrap
<1> QED
  BY <1>4, <1>5

\* Both save paths build a frame.
LEMMA SavedType ==
  ASSUME TypeOK
  PROVE  /\ StagedByTrap \in Nat
         /\ FullSave \in Frames /\ FullSave.cfg = 0 /\ FullSave.type = Full
         /\ MinimalSave \in Frames /\ MinimalSave.cfg = StagedByTrap
<1>1. StagedByTrap \in Nat
  BY PackedType DEF TypeOK, StagedByTrap
<1>2. [[r \in Saved |-> mem[r]] EXCEPT ![t0] = 0] \in [Saved -> Int]
  BY Registers DEF TypeOK
<1>3. frame[pxCurrentTCB].regs \in [Saved -> Int]
  BY DEF TypeOK, Frames
<1>4. [r \in Saved |-> StackFill] \in [Saved -> Int]
  BY PortAssumption
<1>5. xCriticalNesting \in Int /\ mie \in BOOLEAN
  BY DEF TypeOK
<1>6. FullSave \in Frames /\ FullSave.cfg = 0 /\ FullSave.type = Full
  BY <1>2, <1>5 DEF FullSave, SavedFrame, Frames, Full, Minimal
<1>7. MinimalSave \in Frames /\ MinimalSave.cfg = StagedByTrap
  BY <1>1, <1>3, <1>4, <1>5 DEF MinimalSave, SavedFrame, Frames, Full, Minimal
<1> QED
  BY <1>1, <1>6, <1>7

\* A trap: the context of the running task is saved.
LEMMA SaveIInv ==
  ASSUME SupportedUse, IInv, mode = "task", SaveContext
  PROVE  IInv'
<1> DEFINE c == pxCurrentTCB
           saved == IF port_current_task_window_base = 0 THEN FullSave ELSE MinimalSave
<1>1. /\ win' = KernelWindow /\ staged' = StagedByTrap
      /\ frame' = [frame EXCEPT ![c] = saved]
      /\ pxTopOfStack' = [pxTopOfStack EXCEPT ![c] = mem[sp] - portCONTEXT_SIZE]
      /\ mem' = LoadKernel([r \in Saved |-> Junk], xISRStackTop)
      /\ mie' = FALSE /\ mode' = "kernel"
      /\ UNCHANGED <<pxCurrentTCB, tcb, xCriticalNesting,
                     port_current_task_window_base,
                     port_window_invalid_minimal_restore,
                     port_window_kernel_borrow_restores,
                     wrote, left, pushed, nest>>
  BY DEF SaveContext, history
<1>2. /\ c \in Tasks /\ mem \in [Phys -> Int] /\ mem[sp] \in Int
      /\ frame \in [Tasks -> Frames] /\ pxTopOfStack \in [Tasks -> Int]
  BY Registers DEF IInv, TypeOK
<1>3. [r \in Saved |-> Junk] \in [Saved -> Int] /\ xISRStackTop \in Int
      /\ portCONTEXT_SIZE \in Int
  BY PortAssumption
<1>4. /\ mem' \in [Phys -> Int]
      /\ \A p \in Phys : p >= NREG => mem'[p] = mem[p]
  BY <1>1, <1>3, LoadFacts DEF IInv
<1>5. /\ saved \in Frames
      /\ Windowed(c) => saved.cfg = tcb[c].cfg
      /\ ~Windowed(c) => saved.cfg = 0 /\ saved.type = Full
  <2>1. Windowed(c) <=> port_current_task_window_base # 0
    BY DEF IInv, Safe, RunningOK, Windowed
  <2> QED
    BY <2>1, SavedType, StagedIsWindow DEF IInv
<1> HIDE DEF saved
<1>6. TypeOK'
  <2>1. win' \in [base : Nat, size : Nat] /\ staged' \in Nat
    BY <1>1, SavedType, Sizes DEF IInv, KernelWindow
  <2>2. frame' \in [Tasks -> Frames] /\ pxTopOfStack' \in [Tasks -> Int]
    BY <1>1, <1>2, <1>3, <1>5
  <2> QED
    BY <1>1, <1>4, <2>1, <2>2 DEF IInv, TypeOK
<1>7. MainOK' /\ ConfigOK' /\ RunningOK' /\ NoInvalidMinimalRestore'
  BY <1>1 DEF IInv, Safe, MainOK, ConfigOK, RunningOK, NoInvalidMinimalRestore
<1>8. FrameOK'
  <2> SUFFICES ASSUME NEW t \in Tasks
               PROVE  /\ Windowed(t) => frame'[t].cfg = tcb[t].cfg
                      /\ ~Windowed(t) => /\ window_base(frame'[t].cfg) = 0
                                         /\ frame'[t].type = Full
    BY <1>1 DEF FrameOK, Windowed
  <2>1. CASE t = c
    BY <1>1, <1>2, <1>5, <2>1, ZeroWord
  <2>2. CASE t # c
    BY <1>1, <1>2, <2>2 DEF IInv, Safe, FrameOK
  <2> QED
    BY <2>1, <2>2
<1>9. FrameInPlace'
  <2> SUFFICES ASSUME NEW t \in Tasks, Windowed(t)
               PROVE  pxTopOfStack'[t] = StackTop[t] - portCONTEXT_SIZE
    BY <1>1 DEF FrameInPlace, Windowed
  <2>1. CASE t = c
    BY <1>1, <1>2, <2>1 DEF IInv, Safe, RunningOK
  <2>2. CASE t # c
    BY <1>1, <1>2, <2>2 DEF IInv, Safe, FrameInPlace
  <2> QED
    BY <2>1, <2>2
<1>10. WindowIsolation'
  BY <1>1, <1>4, KernelKeepsIsolation DEF IInv, Safe
<1> QED
  BY <1>6, <1>7, <1>8, <1>9, <1>10 DEF IInv, Safe

\* The frame of a task names a mapping mret can install.
LEMMA FrameWord ==
  ASSUME SupportedUse, IInv, NEW t \in Tasks
  PROVE  /\ frame[t].cfg \in Nat
         /\ window_base(frame[t].cfg) = window_base(tcb[t].cfg)
         /\ window_base(frame[t].cfg) \in Nat
         /\ window_base(frame[t].cfg) < NPHYS
         /\ frame[t].type = Minimal => frame[t].cfg # 0
<1>1. frame[t].cfg \in Nat
  BY DEF IInv, TypeOK, Frames
<1>2. window_base(frame[t].cfg) = window_base(tcb[t].cfg)
  BY DEF IInv, Safe, FrameOK, Windowed
<1>3. /\ window_base(tcb[t].cfg) \in Nat /\ window_base(tcb[t].cfg) < NPHYS
      /\ Windowed(t) => tcb[t].cfg # 0
  BY WindowFacts DEF IInv, Safe
<1>4. frame[t].type = Minimal => Windowed(t) /\ frame[t].cfg = tcb[t].cfg
  BY DEF IInv, Safe, FrameOK, Full, Minimal
<1> QED
  BY <1>1, <1>2, <1>3, <1>4

\* What either restore path does to the kernel's registers and the counters.
LEMMA RestoreFacts ==
  ASSUME SupportedUse, IInv, NEW t \in Tasks,
         IF frame[t].type = Minimal /\ frame[t].cfg # 0
         THEN MinimalRestore(t) ELSE FullRestore(t)
  PROVE  /\ mem' \in [Phys -> Int]
         /\ mem'[sp] = pxTopOfStack[t] + portCONTEXT_SIZE
         /\ \A p \in Phys : p >= NREG => mem'[p] = mem[p]
         /\ port_window_invalid_minimal_restore' = port_window_invalid_minimal_restore
         /\ port_window_kernel_borrow_restores' \in 0 .. CounterCap
<1> DEFINE stack == pxTopOfStack[t] + portCONTEXT_SIZE
<1>1. stack \in Int /\ Junk \in Int /\ CounterCap \in Nat
  BY PortAssumption DEF IInv, TypeOK
<1>2. frame[t].regs \in [Saved -> Int]
  BY DEF IInv, TypeOK, Frames
<1>3. PICK regs \in [Saved -> Int] : mem' = LoadKernel(regs, stack)
  <2>1. CASE frame[t].type = Minimal /\ frame[t].cfg # 0
    <3>1. [r \in Saved |-> Junk] \in [Saved -> Int]
      BY <1>1
    <3> QED
      BY <2>1, <3>1 DEF MinimalRestore
  <2>2. CASE ~ (frame[t].type = Minimal /\ frame[t].cfg # 0)
    <3> DEFINE scratch == RestoreScratch \cup
                          (IF frame[t].cfg = 0 THEN CounterScratch ELSE {})
               regs == [r \in Saved |-> IF r \in scratch THEN Junk ELSE frame[t].regs[r]]
    <3>1. mem' = LoadKernel(regs, stack)
      BY <2>2 DEF FullRestore
    <3>2. regs \in [Saved -> Int]
      BY <1>1, <1>2
    <3> QED
      BY <3>1, <3>2
  <2> QED
    BY <2>1, <2>2
<1> HIDE DEF stack
<1>4. /\ mem' \in [Phys -> Int] /\ mem'[sp] = stack
      /\ \A p \in Phys : p >= NREG => mem'[p] = mem[p]
  BY <1>1, <1>3, LoadFacts DEF IInv
<1>5. port_window_invalid_minimal_restore' = port_window_invalid_minimal_restore
  BY FrameWord DEF MinimalRestore, FullRestore
<1>6. port_window_kernel_borrow_restores \in 0 .. CounterCap
  BY DEF IInv, TypeOK
<1>7. Bump(port_window_kernel_borrow_restores) \in 0 .. CounterCap
  BY <1>1, <1>6 DEF Bump
<1>8. \/ port_window_kernel_borrow_restores' = port_window_kernel_borrow_restores
      \/ port_window_kernel_borrow_restores' = Bump(port_window_kernel_borrow_restores)
  BY DEF MinimalRestore, FullRestore
<1> QED
  BY <1>4, <1>5, <1>6, <1>7, <1>8 DEF stack

\* The next task is restored.
LEMMA RestoreIInv ==
  ASSUME SupportedUse, IInv, NEW t \in Tasks, RestoreContext(t)
  PROVE  IInv'
<1>1. /\ pxCurrentTCB' = t
      /\ port_current_task_window_base' = window_base(frame[t].cfg)
      /\ staged' = frame[t].cfg
      /\ win' = MretWindow(frame[t].cfg)
      /\ xCriticalNesting' = frame[t].nesting
      /\ mie' = frame[t].mpie
      /\ mode' = "task"
      /\ UNCHANGED <<pxTopOfStack, frame, tcb, wrote, left, pushed, nest>>
  BY DEF RestoreContext, history
<1>2. /\ mem' \in [Phys -> Int]
      /\ mem'[sp] = pxTopOfStack[t] + portCONTEXT_SIZE
      /\ \A p \in Phys : p >= NREG => mem'[p] = mem[p]
      /\ port_window_invalid_minimal_restore' = port_window_invalid_minimal_restore
      /\ port_window_kernel_borrow_restores' \in 0 .. CounterCap
  BY RestoreFacts DEF RestoreContext
<1>3. win' \in [base : Nat, size : Nat] /\ win'.base = window_base(frame[t].cfg)
  BY <1>1, FrameWord, MretMaps
<1>4. TypeOK'
  <2>1. xCriticalNesting' \in Int /\ mie' \in BOOLEAN
    BY <1>1 DEF IInv, TypeOK, Frames
  <2>2. staged' \in Nat /\ port_current_task_window_base' \in Nat
    BY <1>1, FrameWord
  <2> QED
    BY <1>1, <1>2, <1>3, <2>1, <2>2 DEF IInv, TypeOK
<1>5. MainOK' /\ ConfigOK' /\ FrameOK' /\ FrameInPlace' /\ NoInvalidMinimalRestore'
  BY <1>1, <1>2 DEF IInv, Safe, MainOK, ConfigOK, FrameOK, FrameInPlace,
                    NoInvalidMinimalRestore, Windowed
<1>6. RunningOK'
  <2>1. port_current_task_window_base' = window_base(tcb[t].cfg)
    BY <1>1, FrameWord
  <2>2. ASSUME Windowed(t)
        PROVE  /\ win' = MretWindow(tcb[t].cfg) /\ staged' = tcb[t].cfg
               /\ mem'[sp] = StackTop[t]
    <3>1. frame[t].cfg = tcb[t].cfg
      BY <2>2 DEF IInv, Safe, FrameOK
    <3>2. pxTopOfStack[t] = StackTop[t] - portCONTEXT_SIZE
      BY <2>2 DEF IInv, Safe, FrameInPlace
    <3>3. StackTop[t] \in Int /\ portCONTEXT_SIZE \in Int
      BY PortAssumption
    <3> QED
      BY <1>1, <1>2, <3>1, <3>2, <3>3
  <2>3. ~Windowed(t) => win'.base = 0
    BY <1>3, FrameWord DEF Windowed
  <2>4. MretWindow(tcb[pxCurrentTCB].cfg)' = MretWindow(tcb[t].cfg)
    BY <1>1 DEF MretWindow
  <2> QED
    BY <1>1, <2>1, <2>2, <2>3, <2>4 DEF RunningOK, Windowed
<1>7. WindowIsolation'
  BY <1>1, <1>2, KernelKeepsIsolation DEF IInv, Safe
<1> QED
  BY <1>4, <1>5, <1>6, <1>7 DEF IInv, Safe

-----------------------------------------------------------------------------
\* Every step of the port and of its tasks keeps the invariant.
LEMMA NextIInv ==
  ASSUME SupportedUse, IInv, [Next]_vars
  PROVE  IInv'
<1>1. ASSUME NEW t \in Tasks, vPortTaskSetRegisterWindow(t) PROVE IInv'
  <2>1. /\ mode = "main" /\ SetWindowingContext(t, Assign[t], FALSE)
    BY <1>1, PortAssumption DEF vPortTaskSetRegisterWindow, IInv, TypeOK
  <2> QED
    BY <2>1, SetWindowIInv
<1>2. ASSUME NEW t \in Tasks, NEW b \in BOOLEAN, vPortTaskSetKernelBorrowing(t, b)
      PROVE  IInv'
  <2> DEFINE c == IF b THEN 0 ELSE tcb[t].cfg
  <2>1. /\ mode = "main" /\ SetWindowingContext(t, c, b)
    BY <1>2 DEF vPortTaskSetKernelBorrowing, SupportedUse, IInv, TypeOK
  <2>2. c \in {0, Assign[t]}
    BY DEF IInv, Safe, ConfigOK
  <2> HIDE DEF c
  <2> QED
    BY <2>1, <2>2, SetWindowIInv
<1>3. ASSUME NEW t \in Tasks, RestoreContext(t) PROVE IInv'
  BY <1>3, RestoreIInv
<1>4. CASE xPortStartFirstTask
  BY <1>4, StartIInv
<1>5. CASE xPortStartFirstTaskWindowed
  BY <1>5, StartWindowedIInv
<1>6. ASSUME NEW r \in UserRegs, NEW v \in UserData, TaskWrite(r, v) PROVE IInv'
  <2>1. r \in Saved \cup {sp} /\ v \in Int
    BY PortAssumption
  <2>2. Execute(r, v) /\ pushed' \in [Tasks -> 0 .. MaxPush]
    BY <1>6 DEF TaskWrite, IInv, TypeOK
  <2> QED
    BY <2>1, <2>2, ExecuteIInv
<1>7. ASSUME NEW d \in {-1, 1}, TaskMoveSp(d) PROVE IInv'
  <2>1. sp \in Saved \cup {sp} /\ ReadReg(sp) - d \in Int
    <3>1. ReadReg(sp) \in Int
      BY ReadType DEF IInv
    <3> QED
      BY <3>1
  <2>2. Execute(sp, ReadReg(sp) - d) /\ pushed' \in [Tasks -> 0 .. MaxPush]
    BY <1>7 DEF TaskMoveSp, IInv, TypeOK
  <2> QED
    BY <2>1, <2>2, ExecuteIInv
<1>8. CASE portENTER_CRITICAL \/ portEXIT_CRITICAL
  BY <1>8, CriticalIInv
<1>9. CASE portYIELD \/ TimerInterrupt
  BY <1>9, SaveIInv DEF portYIELD, TimerInterrupt
<1>10. CASE UNCHANGED vars
  <2>1. UNCHANGED <<mode, mem, win, staged, mie, pxCurrentTCB, pxTopOfStack, frame,
                    tcb, xCriticalNesting, port_current_task_window_base,
                    port_window_invalid_minimal_restore,
                    port_window_kernel_borrow_restores,
                    wrote, left, pushed, nest>>
    BY <1>10 DEF vars, hartVars, portVars, history
  <2>2. TypeOK'
    BY <2>1 DEF IInv, TypeOK
  <2>3. MretWindow(tcb[pxCurrentTCB].cfg)' = MretWindow(tcb[pxCurrentTCB].cfg)
    BY <2>1 DEF MretWindow
  <2>4. MainOK' /\ ConfigOK' /\ FrameOK' /\ FrameInPlace' /\ NoInvalidMinimalRestore'
    BY <2>1 DEF IInv, Safe, MainOK, ConfigOK, FrameOK, FrameInPlace,
                NoInvalidMinimalRestore, Windowed
  <2>5. RunningOK' /\ WindowIsolation'
    BY <2>1, <2>3 DEF IInv, Safe, RunningOK, WindowIsolation, Windowed, InOwnWindow
  <2> QED
    BY <2>2, <2>4, <2>5 DEF IInv, Safe
<1> QED
  BY <1>1, <1>2, <1>3, <1>4, <1>5, <1>6, <1>7, <1>8, <1>9, <1>10 DEF Next

\* Every reachable state satisfies the invariant.
THEOREM Invariance == ASSUME SupportedUse PROVE Spec => []IInv
<1>1. Init => IInv
  BY InitIInv
<1>2. IInv /\ [Next]_vars => IInv'
  BY NextIInv
<1> QED
  BY <1>1, <1>2, PTL DEF Spec

\* Every variable keeps its type.
THEOREM TypeCorrect == ASSUME SupportedUse PROVE Spec => []TypeOK
<1>1. IInv => TypeOK
  BY DEF IInv
<1> QED
  BY <1>1, Invariance, PTL

\* What a windowed task left in its registers is still there, whatever ran since,
\* although a minimal save stores no register.
THEOREM Isolation == ASSUME SupportedUse PROVE Spec => []WindowIsolation
<1>1. IInv => WindowIsolation
  BY DEF IInv, Safe
<1> QED
  BY <1>1, Invariance, PTL

\* The running task is in its own window, and the port knows it.
THEOREM OwnWindow == ASSUME SupportedUse PROVE Spec => []RunsInOwnWindow
<1>1. IInv => RunsInOwnWindow
  BY DEF IInv, Safe, RunningOK, RunsInOwnWindow
<1> QED
  BY <1>1, Invariance, PTL

\* The frame of a windowed task never moves.
THEOREM FramesStay == ASSUME SupportedUse PROVE Spec => []FrameInPlace
<1>1. IInv => FrameInPlace
  BY DEF IInv, Safe
<1> QED
  BY <1>1, Invariance, PTL

\* The invalid-restore counter never advances.
THEOREM NoInvalidRestore == ASSUME SupportedUse PROVE Spec => []NoInvalidMinimalRestore
<1>1. IInv => NoInvalidMinimalRestore
  BY DEF IInv, Safe
<1> QED
  BY <1>1, Invariance, PTL
-----------------------------------------------------------------------------
(* Critical sections: the depth a task is in travels with its context,      *)
(* however the windows are used.                                            *)

\* A frame has the five members every save gives it.
FrameShape ==
  frame = [t \in Tasks |-> [regs    |-> frame[t].regs,
                            nesting |-> frame[t].nesting,
                            mpie    |-> frame[t].mpie,
                            cfg     |-> frame[t].cfg,
                            type    |-> frame[t].type]]

NestType == /\ mode \in {"main", "kernel", "task"}
            /\ pxCurrentTCB \in Tasks
            /\ nest \in [Tasks -> 0 .. MaxNesting]
            /\ FrameShape

\* The depth and the interrupt enable of the running task are in the hart, those
\* of every other task (of every task, when none runs) in its frame.
NestOK ==
  /\ mode = "main" => pxCurrentTCB = FirstTask /\ \A t \in Tasks : nest[t] = 0
  /\ mode = "task" => /\ xCriticalNesting = nest[pxCurrentTCB]
                      /\ mie = (nest[pxCurrentTCB] = 0)
  /\ \A t \in Tasks : mode # "task" \/ t # pxCurrentTCB =>
       frame[t].nesting = nest[t] /\ frame[t].mpie = (nest[t] = 0)

NestInv == NestType /\ NestOK

\* The window API changes the word of a frame and nothing else of it.
LEMMA SetWindowNest ==
  ASSUME NestInv, NEW t \in Tasks, NEW c, NEW b, SetWindowingContext(t, c, b)
  PROVE  NestInv'
<1>1. /\ frame' = [frame EXCEPT ![t].cfg = c]
      /\ UNCHANGED <<mode, mie, pxCurrentTCB, xCriticalNesting, nest>>
  BY DEF SetWindowingContext
<1>2. FrameShape
  BY DEF NestInv, NestType
<1>3. frame' = [u \in Tasks |-> [regs    |-> frame[u].regs,
                                 nesting |-> frame[u].nesting,
                                 mpie    |-> frame[u].mpie,
                                 cfg     |-> IF u = t THEN c ELSE frame[u].cfg,
                                 type    |-> frame[u].type]]
  BY <1>1, <1>2 DEF FrameShape
<1>4. FrameShape'
  BY <1>3 DEF FrameShape
<1>5. \A u \in Tasks : frame'[u].nesting = frame[u].nesting
                       /\ frame'[u].mpie = frame[u].mpie
  BY <1>3
<1> QED
  BY <1>1, <1>4, <1>5 DEF NestInv, NestType, NestOK

\* A trap stores depth and interrupt enable on either save path.
LEMMA SaveNest ==
  ASSUME NestInv, mode = "task", SaveContext
  PROVE  NestInv'
<1> DEFINE c == pxCurrentTCB
           saved == IF port_current_task_window_base = 0 THEN FullSave ELSE MinimalSave
<1>1. /\ frame' = [frame EXCEPT ![c] = saved]
      /\ mode' = "kernel"
      /\ UNCHANGED <<pxCurrentTCB, xCriticalNesting, nest>>
  BY DEF SaveContext, history
<1>2. PICK regs, cfg, type : saved = SavedFrame(regs, cfg, type)
  BY DEF FullSave, MinimalSave
<1> HIDE DEF saved
<1>3. frame' = [u \in Tasks |-> IF u = c THEN SavedFrame(regs, cfg, type)
                                ELSE [regs    |-> frame[u].regs,
                                      nesting |-> frame[u].nesting,
                                      mpie    |-> frame[u].mpie,
                                      cfg     |-> frame[u].cfg,
                                      type    |-> frame[u].type]]
  BY <1>1, <1>2 DEF NestInv, NestType, FrameShape
<1>4. FrameShape'
  BY <1>3 DEF FrameShape, SavedFrame
<1>5. \A u \in Tasks : /\ frame'[u].nesting = nest[u]
                       /\ frame'[u].mpie = (nest[u] = 0)
  BY <1>3 DEF NestInv, NestOK, SavedFrame
<1>6. NestType'
  BY <1>1, <1>4 DEF NestInv, NestType
<1> QED
  BY <1>1, <1>5, <1>6 DEF NestInv, NestOK

\* Starting the scheduler and restoring a task load both from the frame.
LEMMA RestoreNest ==
  ASSUME NestInv,
         \/ xPortStartFirstTask
         \/ xPortStartFirstTaskWindowed
         \/ \E t \in Tasks : RestoreContext(t)
  PROVE  NestInv'
<1>1. CASE xPortStartFirstTask \/ xPortStartFirstTaskWindowed
  <2>1. /\ mode = "main" /\ mode' = "task" /\ mie' = TRUE
        /\ xCriticalNesting' = frame[FirstTask].nesting
        /\ UNCHANGED <<pxCurrentTCB, frame, nest>>
    BY <1>1 DEF xPortStartFirstTask, xPortStartFirstTaskWindowed, history
  <2>2. /\ frame[FirstTask].nesting = 0 /\ nest[FirstTask] = 0
        /\ pxCurrentTCB = FirstTask
    BY <2>1, PortAssumption DEF NestInv, NestOK
  <2>3. NestType'
    BY <2>1 DEF NestInv, NestType, FrameShape
  <2> QED
    BY <2>1, <2>2, <2>3 DEF NestInv, NestOK
<1>2. CASE \E t \in Tasks : RestoreContext(t)
  <2>1. PICK t \in Tasks : RestoreContext(t)
    BY <1>2
  <2>2. /\ mode = "kernel" /\ mode' = "task" /\ pxCurrentTCB' = t
        /\ mie' = frame[t].mpie
        /\ xCriticalNesting' = frame[t].nesting
        /\ UNCHANGED <<frame, nest>>
    BY <2>1 DEF RestoreContext, history
  <2>3. NestType'
    BY <2>2 DEF NestInv, NestType, FrameShape
  <2> QED
    BY <2>2, <2>3 DEF NestInv, NestOK
<1> QED
  BY <1>1, <1>2

\* Entering and leaving a critical section.
LEMMA CriticalNest ==
  ASSUME NestInv, portENTER_CRITICAL \/ portEXIT_CRITICAL
  PROVE  NestInv'
<1> DEFINE c == pxCurrentTCB
<1>1. /\ c \in Tasks /\ nest \in [Tasks -> 0 .. MaxNesting] /\ MaxNesting \in Nat
      /\ xCriticalNesting = nest[c] \/ mode # "task"
      /\ mie = (nest[c] = 0) \/ mode # "task"
  BY PortAssumption DEF NestInv, NestType, NestOK
<1>2. mode = "task" /\ UNCHANGED <<mode, pxCurrentTCB, frame>>
  BY DEF portENTER_CRITICAL, portEXIT_CRITICAL
<1>3. /\ nest' \in [Tasks -> 0 .. MaxNesting]
      /\ \A t \in Tasks \ {c} : nest'[t] = nest[t]
      /\ xCriticalNesting' = nest'[c]
      /\ mie' = (nest'[c] = 0)
  <2>1. CASE portENTER_CRITICAL
    <3>1. /\ nest[c] < MaxNesting /\ xCriticalNesting' = xCriticalNesting + 1
          /\ nest' = [nest EXCEPT ![c] = @ + 1] /\ mie' = FALSE
      BY <2>1 DEF portENTER_CRITICAL
    <3>2. nest[c] + 1 \in 0 .. MaxNesting /\ nest[c] + 1 # 0
      BY <1>1, <3>1
    <3>3. nest'[c] = nest[c] + 1 /\ (nest'[c] = 0) = FALSE
      BY <1>1, <3>1, <3>2
    <3> QED
      BY <1>1, <1>2, <3>1, <3>2, <3>3
  <2>2. CASE portEXIT_CRITICAL
    <3>1. /\ nest[c] > 0 /\ xCriticalNesting' = xCriticalNesting - 1
          /\ nest' = [nest EXCEPT ![c] = @ - 1]
          /\ mie' = (xCriticalNesting' = 0 \/ mie)
      BY <2>2 DEF portEXIT_CRITICAL
    <3>2. nest[c] - 1 \in 0 .. MaxNesting /\ nest[c] # 0
      BY <1>1, <3>1
    <3>3. nest'[c] = nest[c] - 1 /\ xCriticalNesting' = nest'[c]
      BY <1>1, <1>2, <3>1
    <3>4. mie = FALSE
      BY <1>1, <1>2, <3>2
    <3>5. mie' = (nest'[c] = 0)
      BY <3>1, <3>3, <3>4
    <3> QED
      BY <1>1, <3>1, <3>2, <3>3, <3>5
  <2> QED
    BY <2>1, <2>2
<1>4. NestType'
  BY <1>2, <1>3 DEF NestInv, NestType, FrameShape
<1> QED
  BY <1>2, <1>3, <1>4 DEF NestInv, NestOK

\* On every switch, at any depth, a task finds its own nesting depth in
\* xCriticalNesting and its own interrupt enable in mstatus: on both harts, and
\* for windows of any kind, supported or not.
THEOREM CriticalNesting == Spec => []CriticalNestingPreserved
<1>1. Init => NestInv
  <2> SUFFICES ASSUME Init PROVE NestInv
    OBVIOUS
  <2>1. /\ mode = "main" /\ pxCurrentTCB = FirstTask /\ FirstTask \in Tasks
        /\ nest = [t \in Tasks |-> 0] /\ MaxNesting \in Nat
        /\ frame = [t \in Tasks |-> InitialFrame(t)]
    BY PortAssumption DEF Init
  <2>2. nest \in [Tasks -> 0 .. MaxNesting]
    BY <2>1
  <2>3. FrameShape /\ \A t \in Tasks : frame[t].nesting = 0 /\ frame[t].mpie = TRUE
    BY <2>1 DEF FrameShape, InitialFrame
  <2> QED
    BY <2>1, <2>2, <2>3 DEF NestInv, NestType, NestOK
<1>2. NestInv /\ [Next]_vars => NestInv'
  <2> SUFFICES ASSUME NestInv, [Next]_vars PROVE NestInv'
    OBVIOUS
  <2>1. ASSUME NEW t \in Tasks, vPortTaskSetRegisterWindow(t) PROVE NestInv'
    BY <2>1, SetWindowNest DEF vPortTaskSetRegisterWindow
  <2>2. ASSUME NEW t \in Tasks, NEW b \in BOOLEAN, vPortTaskSetKernelBorrowing(t, b)
        PROVE  NestInv'
    BY <2>2, SetWindowNest DEF vPortTaskSetKernelBorrowing
  <2>3. CASE \/ xPortStartFirstTask \/ xPortStartFirstTaskWindowed
             \/ \E t \in Tasks : RestoreContext(t)
    BY <2>3, RestoreNest
  <2>4. ASSUME NEW r, NEW v, Execute(r, v) PROVE NestInv'
    <3>1. UNCHANGED <<mode, mie, pxCurrentTCB, frame, xCriticalNesting, nest>>
      BY <2>4 DEF Execute, portVars
    <3> QED
      BY <3>1 DEF NestInv, NestType, FrameShape, NestOK
  <2>5. CASE portENTER_CRITICAL \/ portEXIT_CRITICAL
    BY <2>5, CriticalNest
  <2>6. CASE portYIELD \/ TimerInterrupt
    BY <2>6, SaveNest DEF portYIELD, TimerInterrupt
  <2>7. CASE UNCHANGED vars
    <3>1. UNCHANGED <<mode, mie, pxCurrentTCB, frame, xCriticalNesting, nest>>
      BY <2>7 DEF vars, portVars, history
    <3> QED
      BY <3>1 DEF NestInv, NestType, FrameShape, NestOK
  <2> QED
    BY <2>1, <2>2, <2>3, <2>4, <2>5, <2>6, <2>7 DEF Next, TaskWrite, TaskMoveSp
<1>3. NestInv => CriticalNestingPreserved
  BY DEF NestInv, NestOK, CriticalNestingPreserved
<1> QED
  BY <1>1, <1>2, <1>3, PTL DEF Spec
-----------------------------------------------------------------------------
(* Tasks without a window, on Spike: a full save and a full restore give    *)
(* back every register they do not themselves use. (On CVA6 a word of 0     *)
(* maps no register at all.)                                                *)

\* A word that names the kernel's window names all of it.
WholeWord(c) == window_size(c) = 0 \/ NREG <= window_size(c)

\* What register r of task t holds, or will hold when the task is restored.
LegacyFrame(t) ==
  \A r \in wrote[t] \ Clobbered :
    /\ r # sp => frame[t].regs[r] = left[t][r]
    /\ r = sp => pxTopOfStack[t] + portCONTEXT_SIZE = left[t][r]

\* The registers of the running task without a window are in the file, at their
\* own numbers, and the window covers them; those of the others are in their
\* frames, whose words name the whole kernel window.
LegacyOK ==
  /\ \A t \in Tasks : wrote[t] \subseteq Saved \cup {sp}
  /\ \A t \in Tasks : ~Windowed(t) => WholeWord(frame[t].cfg)
  /\ mode = "main" => NREG <= win.size
  /\ mode = "task" /\ ~Windowed(pxCurrentTCB) =>
       /\ NREG <= win.size
       /\ \A r \in wrote[pxCurrentTCB] \ Clobbered : mem[r] = left[pxCurrentTCB][r]
  /\ \A t \in Tasks : ~Windowed(t) /\ (mode # "task" \/ t # pxCurrentTCB) => LegacyFrame(t)

\* Kernel code puts the value of a slot in the register of that number.
LEMMA LoadSlots ==
  ASSUME NEW regs, NEW stack
  PROVE  /\ \A r \in Saved : LoadKernel(regs, stack)[r] = regs[r]
         /\ LoadKernel(regs, stack)[sp] = stack
<1>1. sp \in Phys /\ sp \notin Saved /\ \A r \in Saved : r \in Phys
  BY Registers
<1> QED
  BY <1>1 DEF LoadKernel

\* mret with such a word maps every register an instruction can name.
LEMMA MretWhole ==
  ASSUME Platform = "Spike", NEW c \in Nat, window_base(c) = 0, WholeWord(c)
  PROVE  MretWindow(c).size \in Nat /\ NREG <= MretWindow(c).size
<1>1. window_base(c) < NPHYS /\ window_size(c) \in Nat /\ NREG \in Nat /\ NREG <= NPHYS
      /\ 2 < NREG /\ NPHYS \in Nat
  BY Sizes, WordParts
<1>2. MretWindow(c).size \in Nat
  BY <1>1, MretMaps
<1>3. CASE window_size(c) > 0
  <2>1. NREG - 1 \in Nat /\ 0 + (NREG - 1) < NPHYS /\ NREG - 1 < window_size(c)
    BY <1>1, <1>3 DEF WholeWord
  <2>2. NREG - 1 < MretWindow(c).size
    BY <1>1, <1>3, <2>1, MretMaps
  <2> QED
    BY <1>1, <1>2, <2>2
<1>4. CASE window_size(c) = 0
  <2>1. Spike!window_base(c) = 0 /\ Spike!window_size(c) = 0
    BY <1>4 DEF Spike!window_base, Spike!window_size, Spike!Half,
           window_base, window_size, Half
  <2>2. MretWindow(c) = Spike!set_window_config(
                          Spike!set_window_config(KernelWindow, 0, 0), 0, NREG)
    BY <1>4, <2>1 DEF MretWindow, Spike!window_config_write
  <2>3. MretWindow(c) = [base |-> 0, size |-> IF 0 + NREG > NPHYS THEN NPHYS - 0 ELSE NREG]
    BY <1>1, <2>2, Clamped, Sizes
  <2> QED
    BY <1>1, <2>3
<1> QED
  BY <1>1, <1>3, <1>4

\* Where main() begins.
LEMMA InitLegacy ==
  ASSUME SupportedUse, Platform = "Spike", Init
  PROVE  LegacyOK
<1>1. /\ mode = "main" /\ win = [base |-> 0, size |-> NPHYS]
      /\ \A t \in Tasks : wrote[t] = {} /\ frame[t].cfg = 0
  BY InitialFrameType DEF Init
<1> QED
  BY <1>1, ZeroWord, Sizes DEF LegacyOK, LegacyFrame, WholeWord

\* main() gives windows out before any task has written a register.
LEMMA SetWindowLegacy ==
  ASSUME WholeKernelWindow, IInv, IInv', LegacyOK, mode = "main",
         NEW t \in Tasks, NEW c, NEW b, SetWindowingContext(t, c, b)
  PROVE  LegacyOK'
<1>1. UNCHANGED <<mode, win, wrote>>
  BY DEF SetWindowingContext, hartVars
<1>2. mode' = "main" /\ \A u \in Tasks : wrote'[u] = {} /\ frame'[u].cfg = tcb'[u].cfg
  BY <1>1 DEF IInv, Safe, MainOK
<1>3. ASSUME NEW u \in Tasks, ~Windowed(u)'
      PROVE  WholeWord(frame'[u].cfg)
  <2>1. frame'[u].cfg \in {0, Assign[u]} /\ window_base(frame'[u].cfg) = 0
    BY <1>2, <1>3 DEF IInv, Safe, ConfigOK, Windowed
  <2> QED
    BY <2>1, ZeroWord DEF WholeKernelWindow, WholeWord
<1> QED
  BY <1>1, <1>2, <1>3 DEF LegacyOK, LegacyFrame, WholeWord

\* The scheduler starts the first task.
LEMMA StartLegacy ==
  ASSUME SupportedUse, Platform = "Spike", IInv, LegacyOK,
         xPortStartFirstTask \/ xPortStartFirstTaskWindowed
  PROVE  LegacyOK'
<1>1. /\ mode = "main" /\ mode' = "task"
      /\ UNCHANGED <<pxCurrentTCB, pxTopOfStack, frame, tcb, wrote, left>>
  BY DEF xPortStartFirstTask, xPortStartFirstTaskWindowed, history
<1>2. \A t \in Tasks : wrote[t] = {}
  BY <1>1, FirstTaskFacts
<1>3. NREG <= win'.size
  <2>1. CASE xPortStartFirstTask
    BY <1>1, <2>1 DEF xPortStartFirstTask, LegacyOK
  <2>2. CASE xPortStartFirstTaskWindowed
    <3>1. win' = MretWindow(0)
      BY <1>1, <2>2, FirstTaskFacts DEF xPortStartFirstTaskWindowed
    <3> QED
      BY <3>1, MretWhole, ZeroWord DEF WholeWord
  <2> QED
    BY <2>1, <2>2
<1>4. pxCurrentTCB \in Tasks
  BY DEF IInv, TypeOK
<1> QED
  BY <1>1, <1>2, <1>3, <1>4 DEF LegacyOK, LegacyFrame, Windowed, WholeWord

\* An instruction of a task without a window writes the register of that number;
\* one of a windowed task leaves the other tasks' frames alone.
LEMMA ExecuteLegacy ==
  ASSUME SupportedUse, IInv, LegacyOK, NEW r \in Saved \cup {sp}, NEW v \in Int,
         Execute(r, v)
  PROVE  LegacyOK'
<1> DEFINE c == pxCurrentTCB
           hit == r < win.size /\ win.base + r < NPHYS
<1>1. /\ mode = "task"
      /\ mem' = IF hit THEN [mem EXCEPT ![win.base + r] = v] ELSE mem
      /\ wrote' = [wrote EXCEPT ![c] = @ \cup {r}]
      /\ left' = [left EXCEPT ![c][r] = v]
      /\ UNCHANGED <<mode, win, pxCurrentTCB, pxTopOfStack, frame, tcb>>
  BY WriteMaps DEF Execute, portVars, IInv
<1>2. /\ c \in Tasks /\ r \in Nat /\ r < NREG /\ r \in Phys
      /\ win.base \in Nat /\ win.size \in Nat
      /\ mem \in [Phys -> Int]
      /\ wrote \in [Tasks -> SUBSET Regs]
      /\ left \in [Tasks -> [Regs -> Int]] /\ r \in Regs
  BY Registers DEF IInv, TypeOK
<1>3. /\ \A t \in Tasks \ {c} : wrote'[t] = wrote[t] /\ left'[t] = left[t]
      /\ wrote'[c] = wrote[c] \cup {r}
      /\ left'[c][r] = v /\ \A x \in Regs \ {r} : left'[c][x] = left[c][x]
  BY <1>1, <1>2
<1>4. \A t \in Tasks : wrote'[t] \subseteq Saved \cup {sp}
  BY <1>3 DEF LegacyOK
<1>5. ASSUME ~Windowed(c)
      PROVE  \A x \in wrote'[c] \ Clobbered : mem'[x] = left'[c][x]
  <2>1. win.base = 0 /\ NREG <= win.size
    BY <1>1, <1>5 DEF IInv, Safe, RunningOK, LegacyOK
  <2>2. hit /\ win.base + r = r
    BY <1>2, <2>1, Sizes
  <2> HIDE DEF hit
  <2>3. mem' = [mem EXCEPT ![r] = v]
    BY <1>1, <2>2
  <2> SUFFICES ASSUME NEW x \in wrote'[c] \ Clobbered PROVE mem'[x] = left'[c][x]
    OBVIOUS
  <2>4. CASE x = r
    BY <1>2, <1>3, <2>3, <2>4
  <2>5. CASE x # r
    <3>1. x \in wrote[c] \ Clobbered /\ x \in Regs /\ x \in Phys
      BY <1>2, <1>3, <2>5, Registers DEF LegacyOK
    <3>2. mem[x] = left[c][x]
      BY <1>1, <1>5, <3>1 DEF LegacyOK
    <3> QED
      BY <1>2, <1>3, <2>3, <2>5, <3>1, <3>2
  <2> QED
    BY <2>4, <2>5
<1>6. ASSUME NEW t \in Tasks, ~Windowed(t), t # c PROVE LegacyFrame(t)'
  BY <1>1, <1>3, <1>6 DEF LegacyOK, LegacyFrame
<1> QED
  BY <1>1, <1>4, <1>5, <1>6 DEF LegacyOK, Windowed, WholeWord

\* A trap: the full save stores what the registers hold, t0 excepted.
LEMMA SaveLegacy ==
  ASSUME IInv, LegacyOK, mode = "task", SaveContext
  PROVE  LegacyOK'
<1> DEFINE c == pxCurrentTCB
<1>1. /\ frame' = [frame EXCEPT ![c] = IF port_current_task_window_base = 0
                                       THEN FullSave ELSE MinimalSave]
      /\ pxTopOfStack' = [pxTopOfStack EXCEPT ![c] = mem[sp] - portCONTEXT_SIZE]
      /\ mode' = "kernel"
      /\ UNCHANGED <<pxCurrentTCB, tcb, wrote, left>>
  BY DEF SaveContext, history
<1>2. /\ c \in Tasks /\ mem[sp] \in Int /\ portCONTEXT_SIZE \in Int
      /\ frame \in [Tasks -> Frames] /\ pxTopOfStack \in [Tasks -> Int]
  BY Registers, PortAssumption DEF IInv, TypeOK
<1>3. ASSUME ~Windowed(c) PROVE frame'[c] = FullSave
  BY <1>1, <1>2, <1>3 DEF IInv, Safe, RunningOK, Windowed
<1>4. \A t \in Tasks \ {c} : frame'[t] = frame[t] /\ pxTopOfStack'[t] = pxTopOfStack[t]
  BY <1>1, <1>2
<1>5. ASSUME NEW t \in Tasks, ~Windowed(t) PROVE WholeWord(frame'[t].cfg)
  <2>1. FullSave.cfg = 0
    BY SavedType DEF IInv
  <2> QED
    BY <1>3, <1>4, <1>5, <2>1, ZeroWord DEF LegacyOK, WholeWord
<1>6. ASSUME ~Windowed(c) PROVE LegacyFrame(c)'
  <2> SUFFICES ASSUME NEW r \in wrote[c] \ Clobbered
               PROVE  /\ r # sp => frame'[c].regs[r] = left[c][r]
                      /\ r = sp => pxTopOfStack'[c] + portCONTEXT_SIZE = left[c][r]
    BY <1>1 DEF LegacyFrame, Clobbered
  <2>1. mem[r] = left[c][r] /\ r \in Saved \cup {sp} /\ r # t0
    BY <1>2, <1>6 DEF LegacyOK, Clobbered
  <2>2. r # sp => frame'[c].regs[r] = mem[r]
    <3>1. FullSave.regs = [[x \in Saved |-> mem[x]] EXCEPT ![t0] = 0]
      BY DEF FullSave, SavedFrame
    <3>2. frame'[c] = FullSave
      BY <1>3, <1>6
    <3> QED
      BY <2>1, <3>1, <3>2
  <2>3. pxTopOfStack'[c] + portCONTEXT_SIZE = mem[sp]
    BY <1>1, <1>2
  <2> QED
    BY <2>1, <2>2, <2>3
<1>7. ASSUME NEW t \in Tasks, ~Windowed(t), t # c PROVE LegacyFrame(t)'
  BY <1>1, <1>4, <1>7 DEF LegacyOK, LegacyFrame
<1> QED
  BY <1>1, <1>5, <1>6, <1>7 DEF LegacyOK, Windowed, WholeWord

\* A full restore loads every slot and pops sp; t2, t4, t5 and t6 are then reused.
LEMMA RestoreLegacy ==
  ASSUME SupportedUse, Platform = "Spike", IInv, LegacyOK,
         NEW t \in Tasks, RestoreContext(t)
  PROVE  LegacyOK'
<1>1. /\ mode = "kernel" /\ mode' = "task" /\ pxCurrentTCB' = t
      /\ win' = MretWindow(frame[t].cfg)
      /\ UNCHANGED <<pxTopOfStack, frame, tcb, wrote, left>>
  BY DEF RestoreContext, history
<1>2. ASSUME ~Windowed(t) PROVE NREG <= win'.size
  <2>1. /\ frame[t].cfg \in Nat /\ window_base(frame[t].cfg) = 0
        /\ WholeWord(frame[t].cfg)
    BY <1>2, FrameWord DEF Windowed, LegacyOK
  <2> QED
    BY <1>1, <2>1, MretWhole
<1>3. ASSUME ~Windowed(t), NEW r \in wrote[t] \ Clobbered PROVE mem'[r] = left[t][r]
  <2> DEFINE scratch == RestoreScratch \cup
                        (IF frame[t].cfg = 0 THEN CounterScratch ELSE {})
             regs == [x \in Saved |-> IF x \in scratch THEN Junk ELSE frame[t].regs[x]]
             stack == pxTopOfStack[t] + portCONTEXT_SIZE
  <2>1. frame[t].type # Minimal
    BY <1>3 DEF IInv, Safe, FrameOK, Full, Minimal
  <2>2. mem' = LoadKernel(regs, stack)
    <3>1. FullRestore(t)
      BY <2>1 DEF RestoreContext
    <3> QED
      BY <3>1 DEF FullRestore
  <2>3. r \in Saved \cup {sp} /\ r \notin scratch /\ LegacyFrame(t)
    BY <1>1, <1>3 DEF LegacyOK, Clobbered
  <2>4. r # sp => regs[r] = left[t][r]
    BY <2>3 DEF LegacyFrame
  <2>5. r = sp => stack = left[t][r]
    BY <2>3 DEF LegacyFrame
  <2>6. (r # sp => mem'[r] = regs[r]) /\ mem'[sp] = stack
    <3> HIDE DEF regs, stack, scratch
    <3> QED
      BY <2>2, <2>3, LoadSlots
  <2> QED
    BY <2>4, <2>5, <2>6
<1> QED
  BY <1>1, <1>2, <1>3 DEF LegacyOK, LegacyFrame, Windowed, WholeWord

\* Every step keeps what tasks without a window left in their registers.
LEMMA NextLegacy ==
  ASSUME SupportedUse, WholeKernelWindow, Platform = "Spike", IInv, IInv', LegacyOK,
         [Next]_vars
  PROVE  LegacyOK'
<1>1. ASSUME NEW t \in Tasks, vPortTaskSetRegisterWindow(t) PROVE LegacyOK'
  BY <1>1, SetWindowLegacy DEF vPortTaskSetRegisterWindow
<1>2. ASSUME NEW t \in Tasks, NEW b \in BOOLEAN, vPortTaskSetKernelBorrowing(t, b)
      PROVE  LegacyOK'
  BY <1>2, SetWindowLegacy DEF vPortTaskSetKernelBorrowing, SupportedUse
<1>3. ASSUME NEW t \in Tasks, RestoreContext(t) PROVE LegacyOK'
  BY <1>3, RestoreLegacy
<1>4. CASE xPortStartFirstTask \/ xPortStartFirstTaskWindowed
  BY <1>4, StartLegacy
<1>5. ASSUME NEW r \in UserRegs, NEW v \in UserData, TaskWrite(r, v) PROVE LegacyOK'
  <2>1. r \in Saved \cup {sp} /\ v \in Int
    BY PortAssumption
  <2> QED
    BY <1>5, <2>1, ExecuteLegacy DEF TaskWrite
<1>6. ASSUME NEW d \in {-1, 1}, TaskMoveSp(d) PROVE LegacyOK'
  <2>1. ReadReg(sp) \in Int
    BY ReadType DEF IInv
  <2>2. ReadReg(sp) - d \in Int
    BY <2>1
  <2> QED
    BY <1>6, <2>2, ExecuteLegacy DEF TaskMoveSp
<1>7. CASE portYIELD \/ TimerInterrupt
  BY <1>7, SaveLegacy DEF portYIELD, TimerInterrupt
<1>8. CASE portENTER_CRITICAL \/ portEXIT_CRITICAL \/ UNCHANGED vars
  <2>1. UNCHANGED <<mode, mem, win, pxCurrentTCB, pxTopOfStack, frame, tcb, wrote, left>>
    BY <1>8 DEF portENTER_CRITICAL, portEXIT_CRITICAL, vars, hartVars, portVars, history
  <2> QED
    BY <2>1 DEF LegacyOK, LegacyFrame, Windowed, WholeWord
<1> QED
  BY <1>1, <1>2, <1>3, <1>4, <1>5, <1>6, <1>7, <1>8 DEF Next

\* On Spike a task without a window finds every register that a full save and
\* restore does not itself use, sp included, as it left it.
THEOREM LegacyRegisters ==
  ASSUME SupportedUse, WholeKernelWindow, Platform = "Spike"
  PROVE  Spec => []LegacyRegistersPreserved
<1>1. Init => LegacyOK
  BY InitLegacy
<1>2. IInv /\ IInv' /\ LegacyOK /\ [Next]_vars => LegacyOK'
  BY NextLegacy
<1>3. IInv /\ LegacyOK => LegacyRegistersPreserved
  <2> SUFFICES ASSUME IInv, LegacyOK, mode = "task", ~Windowed(pxCurrentTCB),
                      NEW r \in wrote[pxCurrentTCB] \ Clobbered
               PROVE  ReadReg(r) = left[pxCurrentTCB][r]
    BY DEF LegacyRegistersPreserved
  <2>1. /\ pxCurrentTCB \in Tasks /\ win.base = 0 /\ NREG <= win.size
        /\ win.size \in Nat /\ mem[r] = left[pxCurrentTCB][r]
    BY DEF IInv, TypeOK, Safe, RunningOK, LegacyOK
  <2>2. r \in Saved \cup {sp}
    BY <2>1 DEF LegacyOK
  <2>3. /\ r \in Nat /\ r # 0 /\ r + win.base = r /\ r < win.size
        /\ r + win.base < NPHYS
    BY <2>1, <2>2, Registers, Sizes
  <2> QED
    BY <2>1, <2>3 DEF ReadReg, Spike!Read, Spike!Mapped
<1>4. Spec => []IInv
  BY Invariance
<1> QED
  BY <1>1, <1>2, <1>3, <1>4, PTL DEF Spec
=============================================================================
