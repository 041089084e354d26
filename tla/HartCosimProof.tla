--------------------------- MODULE HartCosimProof ---------------------------
(***************************************************************************)
(* For every size of the register file, every set of disjoint windows and  *)
(* every program: as long as handlers return on a word a handler staged,   *)
(* CVA6 and Spike show the program the same registers, and each window     *)
(* keeps what was left in it.                                              *)
(***************************************************************************)
EXTENDS HartCosim, WindowConfigProof

\* The mapping in force selects the same physical registers on both harts.
SameMapping ==
  /\ window_config_q \in Configs \cup {CVA6!DEFAULT_WINDOW_CONFIG}
  /\ xpr.base = window_base(window_config_q)
  /\ xpr.base + xpr.size <= NPHYS
  /\ \A r \in Regs :
       r < xpr.size <=> /\ r < window_size(window_config_q)
                        /\ xpr.base + r < NPHYS

\* The two files agree except at the bottom of a task window, where only CVA6
\* lets a write to x0 land.
SameContents ==
  /\ mem[0] = 0 /\ data[0] = 0
  /\ \A p \in Phys \ Bases : mem[p] = data[p]

\* CSR 0x801 holds the handler's word on both harts when mret is allowed: on
\* Spike because nobody wrote it since, on CVA6 because the handler wrote it in
\* this trap or because trap entry recorded the window then in force.
SameStaging ==
  /\ window_config_q = IF mode = "handler" \/ wanted = 0
                       THEN CVA6!DEFAULT_WINDOW_CONFIG ELSE wanted
  /\ stager = "handler" => /\ wanted \in Configs
                           /\ window_staged = wanted
                           /\ mode = "handler" => prev_window_config_q = wanted

\* The physical registers of a task window hold what was left in the window.
Kept ==
  \A cfg \in Configs : window_base(cfg) # 0 =>
    \A r \in Regs \ {0} : InFile(cfg, r) =>
      mem[window_base(cfg) + r] = left[window_base(cfg)][r]

IInv == TypeOK /\ SameMapping /\ SameContents /\ SameStaging /\ Kept

-----------------------------------------------------------------------------
\* A configuration word has a size.
LEMMA ConfigNotZero == \A cfg \in Configs : cfg # 0
  BY WindowsAssumption DEF window_size, Half

\* What the proofs use of the sizes of the files.
LEMMA Sizes ==
  /\ NPHYS \in Nat /\ NREG \in Nat /\ SizeT \in Nat
  /\ 0 < NREG /\ NREG <= 32 /\ NREG < NPHYS
  /\ 2 * NPHYS < 65536 /\ 3 * 65536 < SizeT
  BY CosimAssumption DEF Half

\* The kernel's word selects every nameable register at base 0.
LEMMA DefaultParts ==
  /\ CVA6!DEFAULT_WINDOW_CONFIG \in Nat
  /\ window_base(CVA6!DEFAULT_WINDOW_CONFIG) = 0
  /\ window_size(CVA6!DEFAULT_WINDOW_CONFIG) = NREG
  BY CosimAssumption
     DEF CVA6!DEFAULT_WINDOW_CONFIG, CVA6!ulWindowConfig, CVA6!Half,
         window_base, window_size, Half

\* set_window_config clamps a window whose base is inside the file.
LEMMA Clamped ==
  ASSUME NEW w, NEW b \in Nat, b < NPHYS, NEW s \in Nat, s < 65536
  PROVE  Spike!set_window_config(w, b, s) =
           [base |-> b, size |-> IF b + s > NPHYS THEN NPHYS - b ELSE s]
<1>1. /\ NPHYS \in Nat /\ SizeT \in Nat
      /\ b + s \in Nat /\ b + s < SizeT
      /\ NPHYS - b \in Nat /\ NPHYS - b < SizeT
  BY Sizes
<1>2. (b + s) % SizeT = b + s /\ (NPHYS - b) % SizeT = NPHYS - b
  BY <1>1, ModSmall
<1> QED
  BY <1>1, <1>2 DEF Spike!set_window_config

-----------------------------------------------------------------------------
\* The reset states of the two harts satisfy the invariant.
LEMMA InitIInv == Init => IInv
<1> SUFFICES ASSUME Init PROVE IInv
  OBVIOUS
<1> USE DEF Init, CVA6!Init, Spike!Init
<1>1. TypeOK
  <2>1. xpr \in [base : Phys, size : 0 .. NPHYS]
    BY Sizes DEF Phys
  <2>2. mem \in [Phys -> Data] /\ data \in [Phys -> Data]
    BY CosimAssumption DEF CVA6!Phys, Spike!Phys, Phys
  <2>3. left \in [Bases -> [Regs -> Data]]
    BY CosimAssumption
  <2> QED
    BY <2>1, <2>2, <2>3 DEF TypeOK
<1>2. SameMapping
  BY Sizes, DefaultParts DEF SameMapping, Regs
<1>3. SameContents
  BY Sizes DEF SameContents, CVA6!Phys, Spike!Phys, Phys
<1>4. SameStaging
  BY DEF SameStaging
<1>5. Kept
  <2> SUFFICES ASSUME NEW cfg \in Configs, window_base(cfg) # 0,
                      NEW r \in Regs \ {0}, InFile(cfg, r)
               PROVE  mem[window_base(cfg) + r] = left[window_base(cfg)][r]
    BY DEF Kept
  <2>1. window_base(cfg) + r \in CVA6!Phys
    <3>1. cfg \in Nat
      BY CosimAssumption
    <3>2. window_base(cfg) \in Nat /\ r \in Nat
      BY <3>1, WordParts, Sizes DEF Regs
    <3> QED
      BY <3>2, Sizes DEF InFile, CVA6!Phys
  <2>2. window_base(cfg) \in Bases
    BY DEF Bases
  <2> QED
    BY <2>1, <2>2
<1> QED
  BY <1>1, <1>2, <1>3, <1>4, <1>5 DEF IInv

\* A mapped register other than x0 is not at the bottom of any task window.
LEMMA MappedNotBase ==
  ASSUME TypeOK, SameMapping, NEW r \in Regs, r # 0, r < xpr.size
  PROVE  xpr.base + r \in Phys \ Bases
<1>1. /\ xpr.base \in Nat /\ xpr.size \in Nat /\ r \in Nat /\ NPHYS \in Nat
      /\ xpr.base = window_base(window_config_q)
      /\ r < window_size(window_config_q)
      /\ xpr.base + r < NPHYS
      /\ r < NREG
  BY CosimAssumption DEF TypeOK, SameMapping, Regs, Phys
<1>2. \A c \in Configs : c \in Nat
  BY CosimAssumption
<1>3. \A b \in Bases : b \in Nat
  BY <1>2, WordParts DEF Bases
<1>4. ASSUME NEW b \in Bases PROVE xpr.base + r # b
  <2>1. PICK c \in Configs : b = window_base(c)
    BY DEF Bases
  <2>2. NREG <= b
    BY WindowsAssumption, <2>1
  <2>3. CASE xpr.base = 0
    BY <1>1, <1>3, <2>2, <2>3, CosimAssumption
  <2>4. CASE xpr.base # 0
    <3>1. window_config_q \in Configs
      BY <1>1, <2>4, DefaultParts DEF SameMapping
    <3>2. window_base(window_config_q) + 1 <= b
            => window_base(window_config_q) + window_size(window_config_q) <= b
      BY <3>1, WindowsAssumption
    <3>3. window_size(window_config_q) \in Nat
      BY <1>2, <3>1, WordParts
    <3> QED
      BY <1>1, <1>3, <3>2, <3>3
  <2> QED
    BY <2>3, <2>4
<1> QED
  BY <1>1, <1>4 DEF Phys

\* The write port of CVA6 and regfile_t::write, in the mapping both harts have.
LEMMA BothWrites ==
  ASSUME TypeOK, SameMapping, NEW r \in Regs, NEW v
  PROVE  /\ CVA6!Write(mem, CVA6!Window(window_config_q), r, v) =
              IF r < xpr.size /\ xpr.base + r # 0
              THEN [mem EXCEPT ![xpr.base + r] = v] ELSE mem
         /\ Spike!Write(data, xpr, r, v) =
              IF r < xpr.size /\ r # 0
              THEN [data EXCEPT ![xpr.base + r] = v] ELSE data
<1>1. /\ CVA6!Window(window_config_q).base = xpr.base
      /\ CVA6!Window(window_config_q).size = window_size(window_config_q)
  BY DEF SameMapping, CVA6!Window, CVA6!window_base, CVA6!window_size, CVA6!Half,
         window_base, window_size, Half
<1>2. r < xpr.size <=> r < window_size(window_config_q) /\ xpr.base + r < NPHYS
  BY DEF SameMapping
<1>3. /\ xpr.base \in Nat /\ r \in Nat /\ xpr.size \in Nat
      /\ xpr.base + r = r + xpr.base
  BY CosimAssumption DEF TypeOK, Phys, Regs
<1>4. CVA6!InWindow(CVA6!Window(window_config_q), r) <=> r < xpr.size
  BY <1>1, <1>2 DEF CVA6!InWindow
<1>5. Spike!Mapped(xpr, r) <=> r < xpr.size
  BY <1>2, <1>3 DEF Spike!Mapped
<1> QED
  BY <1>1, <1>3, <1>4, <1>5 DEF CVA6!Write, Spike!Write

\* No two task windows share a physical register.
LEMMA Disjoint ==
  ASSUME NEW c \in Configs, NEW d \in Configs,
         window_base(c) # 0, window_base(d) # 0,
         NEW r \in Regs, NEW k \in Regs,
         r < window_size(c), k < window_size(d),
         window_base(c) + r = window_base(d) + k
  PROVE  window_base(c) = window_base(d) /\ r = k
<1>1. c \in Nat /\ d \in Nat
  BY CosimAssumption
<1>2. /\ window_base(c) \in Nat /\ window_size(c) \in Nat
      /\ window_base(d) \in Nat /\ window_size(d) \in Nat
  BY <1>1, WordParts
<1>3. window_base(c) \in Bases /\ window_base(d) \in Bases
  BY DEF Bases
<1>4. /\ window_base(c) + 1 <= window_base(d) =>
           window_base(c) + window_size(c) <= window_base(d)
      /\ window_base(d) + 1 <= window_base(c) =>
           window_base(d) + window_size(d) <= window_base(c)
  BY <1>3, WindowsAssumption
<1>5. r \in Nat /\ k \in Nat
  BY Sizes DEF Regs
<1> QED
  BY <1>2, <1>4, <1>5

\* An instruction that retires keeps every window as its program left it.
LEMMA CommitKept ==
  ASSUME IInv, NEW r \in Regs, NEW v \in Data,
         mem' = IF r < xpr.size /\ xpr.base + r # 0
                THEN [mem EXCEPT ![xpr.base + r] = v] ELSE mem,
         left' = IF mode = "program" /\ window_base(wanted) # 0 /\ InFile(wanted, r)
                 THEN [left EXCEPT ![window_base(wanted)][r] = v] ELSE left
  PROVE  Kept'
<1> SUFFICES ASSUME NEW d \in Configs, window_base(d) # 0,
                    NEW k \in Regs \ {0}, InFile(d, k)
             PROVE  mem'[window_base(d) + k] = left'[window_base(d)][k]
  BY DEF Kept, InFile
<1>1. /\ window_base(d) \in Nat /\ window_base(d) \in Bases /\ NREG <= window_base(d)
      /\ k \in Nat /\ k # 0 /\ k < window_size(d) /\ window_base(d) + k < NPHYS
      /\ window_base(d) + k \in Phys
  BY CosimAssumption, WindowsAssumption, WordParts, Sizes DEF Bases, Regs, InFile, Phys
<1>2. mem[window_base(d) + k] = left[window_base(d)][k]
  BY DEF IInv, Kept
<1>3. /\ xpr.base \in Nat /\ r \in Nat /\ r < NREG
      /\ xpr.base = window_base(window_config_q)
      /\ r < xpr.size <=> r < window_size(window_config_q) /\ xpr.base + r < NPHYS
  BY Sizes DEF IInv, TypeOK, SameMapping, Phys, Regs
<1>4. /\ mem \in [Phys -> Data]
      /\ left \in [Bases -> [Regs -> Data]]
  BY DEF IInv, TypeOK
<1>5. CASE mode = "program" /\ window_base(wanted) # 0
  <2>1. wanted # 0
    BY <1>5 DEF window_base, Half
  <2>2. wanted \in Configs /\ window_config_q = wanted
    BY <1>5, <2>1 DEF IInv, TypeOK, SameStaging
  <2>3. InFile(wanted, r) <=> r < xpr.size
    BY <1>3, <2>2 DEF InFile
  <2>4. CASE r < xpr.size
    <3>1. xpr.base # 0 /\ xpr.base = window_base(wanted) /\ xpr.base \in Bases
      BY <1>3, <1>5, <2>2 DEF Bases
    <3>2. /\ mem' = [mem EXCEPT ![xpr.base + r] = v]
          /\ left' = [left EXCEPT ![xpr.base][r] = v]
      BY <1>3, <1>5, <2>3, <2>4, <3>1
    <3>3. CASE xpr.base + r = window_base(d) + k
      <4>1. xpr.base = window_base(d) /\ r = k
        BY <1>1, <1>3, <1>5, <2>2, <2>4, <3>1, <3>3, Disjoint
      <4> QED
        BY <1>1, <1>4, <3>1, <3>2, <4>1
    <3>4. CASE xpr.base + r # window_base(d) + k
      <4>1. ~ (xpr.base = window_base(d) /\ r = k)
        BY <3>4
      <4>2. mem'[window_base(d) + k] = mem[window_base(d) + k]
        BY <1>1, <1>4, <3>2, <3>4
      <4>3. left'[window_base(d)][k] = left[window_base(d)][k]
        BY <1>1, <1>4, <3>1, <3>2, <4>1
      <4> QED
        BY <1>2, <4>2, <4>3
    <3> QED
      BY <3>3, <3>4
  <2>5. CASE ~ (r < xpr.size)
    BY <1>2, <2>3, <2>5
  <2> QED
    BY <2>4, <2>5
<1>6. CASE ~ (mode = "program" /\ window_base(wanted) # 0)
  <2>1. window_base(window_config_q) = 0
    <3>1. mode = "handler" \/ mode = "program"
      BY DEF IInv, TypeOK
    <3> QED
      BY <1>6, <3>1, DefaultParts DEF IInv, SameStaging
  <2>2. xpr.base + r # window_base(d) + k
    BY <1>1, <1>3, <2>1, Sizes
  <2>3. mem'[window_base(d) + k] = mem[window_base(d) + k]
    BY <1>1, <1>4, <2>2
  <2> QED
    BY <1>2, <1>6, <2>3
<1> QED
  BY <1>5, <1>6

\* An instruction retires on both harts.
LEMMA CommitIInv ==
  ASSUME IInv, NEW r \in Regs, NEW v \in Data, Commit(r, v)
  PROVE  IInv'
<1> DEFINE q == xpr.base + r
<1>1. /\ mem' = IF r < xpr.size /\ q # 0 THEN [mem EXCEPT ![q] = v] ELSE mem
      /\ data' = IF r < xpr.size /\ r # 0 THEN [data EXCEPT ![q] = v] ELSE data
      /\ left' = IF mode = "program" /\ window_base(wanted) # 0 /\ InFile(wanted, r)
                 THEN [left EXCEPT ![window_base(wanted)][r] = v] ELSE left
      /\ UNCHANGED <<window_config_q, prev_window_config_q, xpr, window_active,
                     window_staged, mode, stager, wanted>>
  BY BothWrites DEF IInv, Commit, CVA6!Commit, Spike!Commit
<1>2. /\ xpr.base \in Nat /\ r \in Nat /\ q \in Nat
      /\ 0 \in Phys
      /\ r < xpr.size => q \in Phys
  BY CosimAssumption DEF IInv, TypeOK, SameMapping, Phys, Regs
<1>7. Kept'
  BY <1>1, CommitKept
<1> HIDE DEF q
<1>3. TypeOK'
  <2>1. left' \in [Bases -> [Regs -> Data]]
    BY <1>1 DEF IInv, TypeOK
  <2> QED
    BY <1>1, <1>2, <2>1 DEF IInv, TypeOK
<1>4. SameMapping'
  BY <1>1 DEF IInv, SameMapping
<1>5. SameContents'
  <2>1. CASE ~ (r < xpr.size)
    BY <1>1, <2>1 DEF IInv, SameContents
  <2>2. CASE r < xpr.size /\ r # 0
    <3>1. q # 0
      BY <1>2, <2>2 DEF q
    <3>2. mem' = [mem EXCEPT ![q] = v] /\ data' = [data EXCEPT ![q] = v]
      BY <1>1, <2>2, <3>1
    <3> QED
      BY <1>2, <3>1, <3>2 DEF IInv, TypeOK, SameContents
  <2>3. CASE r < xpr.size /\ r = 0
    <3>1. data' = data
      BY <1>1, <2>3
    <3>2. CASE q = 0
      BY <1>1, <3>1, <3>2 DEF IInv, SameContents
    <3>3. CASE q # 0
      <4>1. q = window_base(window_config_q)
        BY <1>2, <2>3 DEF q, IInv, SameMapping
      <4>2. q \in Bases
        BY <3>3, <4>1, DefaultParts DEF IInv, SameMapping, Bases
      <4>3. mem' = [mem EXCEPT ![q] = v]
        BY <1>1, <2>3, <3>3
      <4> QED
        BY <1>2, <3>1, <3>3, <4>2, <4>3 DEF IInv, TypeOK, SameContents
    <3> QED
      BY <3>2, <3>3
  <2> QED
    BY <2>1, <2>2, <2>3
<1>6. SameStaging'
  BY <1>1 DEF IInv, SameStaging
<1> QED
  BY <1>3, <1>4, <1>5, <1>6, <1>7 DEF IInv

\* The handler or the program writes CSR 0x801; Spike's dump of the file leaves
\* the mapping as it was.
LEMMA StageIInv ==
  ASSUME IInv, NEW cfg \in Configs, Stage(cfg)
  PROVE  IInv'
<1>1. /\ xpr \in [base : Phys, size : 0 .. NPHYS]
      /\ xpr.base \in Nat /\ xpr.base < NPHYS
      /\ xpr.size \in Nat /\ xpr.size < 65536
      /\ xpr.base + xpr.size <= NPHYS
  BY Sizes DEF IInv, TypeOK, SameMapping, Phys
<1>2. \A w : Spike!set_window_config(w, xpr.base, xpr.size) = xpr
  <2> TAKE w
  <2>1. Spike!set_window_config(w, xpr.base, xpr.size) =
          [base |-> xpr.base, size |-> xpr.size]
    BY <1>1, Clamped, Sizes
  <2> QED
    BY <1>1, <2>1
<1>3. /\ UNCHANGED <<mem, data, window_config_q, xpr, window_active, mode, left>>
      /\ prev_window_config_q' = cfg /\ window_staged' = cfg
      /\ wanted' = (IF mode = "handler" THEN cfg ELSE wanted)
      /\ stager' = mode
  BY <1>2 DEF Stage, CVA6!CsrWrite801, Spike!CsrWrite801
<1>4. TypeOK'
  BY <1>3 DEF IInv, TypeOK
<1>5. SameMapping' /\ SameContents' /\ Kept'
  BY <1>3 DEF IInv, SameMapping, SameContents, Kept, InFile
<1>6. SameStaging'
  BY <1>3 DEF IInv, SameStaging
<1> QED
  BY <1>4, <1>5, <1>6 DEF IInv

\* Trap entry: both harts fall back on the kernel's window.
LEMMA EcallIInv ==
  ASSUME IInv, Ecall
  PROVE  IInv'
<1>1. Spike!set_window_config(xpr, 0, NREG) = [base |-> 0, size |-> NREG]
  BY Clamped, Sizes
<1>2. /\ UNCHANGED <<mem, data, window_active, window_staged, wanted, left, stager>>
      /\ prev_window_config_q' = window_config_q
      /\ window_config_q' = CVA6!DEFAULT_WINDOW_CONFIG
      /\ xpr' = [base |-> 0, size |-> NREG]
      /\ mode = "program" /\ mode' = "handler"
  BY <1>1, CosimAssumption DEF Ecall, CVA6!Trap, Spike!Trap
<1>3. TypeOK'
  <2>1. xpr' \in [base : Phys, size : 0 .. NPHYS]
    BY <1>2, Sizes DEF Phys
  <2>2. prev_window_config_q' \in Configs \cup {0, CVA6!DEFAULT_WINDOW_CONFIG}
    BY <1>2 DEF IInv, TypeOK
  <2> QED
    BY <1>2, <2>1, <2>2 DEF IInv, TypeOK
<1>4. SameMapping'
  BY <1>2, Sizes, DefaultParts DEF SameMapping, Regs
<1>5. SameStaging'
  <2>1. ASSUME stager = "handler"
        PROVE  wanted \in Configs /\ window_staged = wanted /\ window_config_q = wanted
    <3>1. wanted \in Configs /\ window_staged = wanted
      BY <2>1 DEF IInv, SameStaging
    <3>2. wanted # 0
      BY <3>1, ConfigNotZero
    <3> QED
      BY <1>2, <3>1, <3>2 DEF IInv, SameStaging
  <2> QED
    BY <1>2, <2>1 DEF SameStaging
<1>6. SameContents' /\ Kept'
  BY <1>2 DEF IInv, SameContents, Kept, InFile
<1> QED
  BY <1>3, <1>4, <1>5, <1>6 DEF IInv

\* mret: CVA6 applies the word as it stands, Spike clamps it twice.
LEMMA ReturnIInv ==
  ASSUME IInv, Return
  PROVE  IInv'
<1> DEFINE b == window_base(wanted)
           s == window_size(wanted)
<1>1. /\ wanted \in Configs /\ wanted \in Nat
      /\ prev_window_config_q = wanted /\ window_staged = wanted
  BY CosimAssumption DEF IInv, SameStaging, Return
<1>2. /\ b \in Nat /\ b < NPHYS /\ s \in Nat /\ s < 65536 /\ s # 0
  BY <1>1, WindowsAssumption, WordParts
<1>3. /\ Spike!window_base(window_staged) = b
      /\ Spike!window_size(window_staged) = s
  BY <1>1 DEF Spike!window_base, Spike!window_size, Spike!Half,
              window_base, window_size, Half
<1>4. /\ UNCHANGED <<mem, data, prev_window_config_q, window_staged, wanted, left,
                     stager>>
      /\ window_config_q' = wanted /\ window_active' = wanted
      /\ xpr' = Spike!window_config_write(
                  Spike!set_window_config(xpr, b, s), window_staged)
      /\ mode' = "program"
  BY <1>1, <1>3 DEF Return, CVA6!Mret, Spike!Mret
<1> HIDE DEF b, s
<1>6. xpr' = [base |-> b, size |-> IF b + s > NPHYS THEN NPHYS - b ELSE s]
  <2>1. xpr' = Spike!set_window_config(Spike!set_window_config(xpr, b, s), b, s)
    BY <1>2, <1>3, <1>4 DEF Spike!window_config_write
  <2> QED
    BY <1>2, <2>1, Clamped
<1>7. TypeOK'
  <2>1. xpr' \in [base : Phys, size : 0 .. NPHYS]
    BY <1>2, <1>6, Sizes DEF Phys
  <2> QED
    BY <1>1, <1>4, <2>1 DEF IInv, TypeOK
<1>8. SameMapping'
  <2>1. window_base(window_config_q') = b /\ window_size(window_config_q') = s
    BY <1>4 DEF b, s
  <2> QED
    BY <1>1, <1>2, <1>4, <1>6, <2>1, Sizes DEF SameMapping, Regs
<1>9. SameContents' /\ SameStaging' /\ Kept'
  BY <1>1, <1>4, ConfigNotZero DEF IInv, SameContents, SameStaging, Kept, InFile
<1> QED
  BY <1>7, <1>8, <1>9 DEF IInv

\* Every step of the two harts keeps the invariant.
LEMMA NextIInv ==
  ASSUME IInv, [Next]_vars
  PROVE  IInv'
<1>1. CASE \E r \in Regs, v \in Data : Commit(r, v)
  BY <1>1, CommitIInv
<1>2. CASE \E cfg \in Configs : Stage(cfg)
  BY <1>2, StageIInv
<1>3. CASE Ecall
  BY <1>3, EcallIInv
<1>4. CASE Return
  BY <1>4, ReturnIInv
<1>5. CASE UNCHANGED vars
  BY <1>5 DEF vars, cva6Vars, spikeVars, IInv, TypeOK, SameMapping, SameContents,
              SameStaging, Kept, InFile
<1> QED
  BY <1>1, <1>2, <1>3, <1>4, <1>5 DEF Next

\* Every reachable state of the pair of harts satisfies the invariant.
THEOREM Invariance == Spec => []IInv
<1>1. Init => IInv
  BY InitIInv
<1>2. IInv /\ [Next]_vars => IInv'
  BY NextIInv
<1> QED
  BY <1>1, <1>2, PTL DEF Spec

\* Every variable of either hart keeps its type.
THEOREM TypeCorrect == Spec => []TypeOK
<1>1. IInv => TypeOK
  BY DEF IInv
<1> QED
  BY <1>1, Invariance, PTL

\* In a state of the invariant the two register files read alike.
LEMMA View ==
  ASSUME IInv
  PROVE  SameView
<1> SUFFICES ASSUME NEW r \in Regs
             PROVE  CVA6!Read(mem, Window(window_config_q), r) = Spike!Read(data, xpr, r)
  BY DEF SameView
<1>1. /\ Window(window_config_q).base = xpr.base
      /\ Window(window_config_q).size = window_size(window_config_q)
  BY DEF IInv, SameMapping, Window
<1>2. /\ xpr.base \in Nat /\ r \in Nat /\ xpr.size \in Nat
      /\ xpr.base + r = r + xpr.base
      /\ r < xpr.size <=> r < window_size(window_config_q) /\ xpr.base + r < NPHYS
  BY Sizes DEF IInv, TypeOK, SameMapping, Phys, Regs
<1>3. CVA6!InWindow(Window(window_config_q), r) <=> r < xpr.size
  BY <1>1, <1>2 DEF CVA6!InWindow
<1>4. Spike!Mapped(xpr, r) <=> r < xpr.size
  BY <1>2 DEF Spike!Mapped
<1>5. CASE r # 0 /\ r < xpr.size
  <2>1. mem[xpr.base + r] = data[xpr.base + r]
    BY <1>5, MappedNotBase DEF IInv, SameContents
  <2> QED
    BY <1>1, <1>2, <1>3, <1>4, <1>5, <2>1 DEF CVA6!Read, Spike!Read
<1>6. CASE ~ (r # 0 /\ r < xpr.size)
  BY <1>3, <1>4, <1>6 DEF CVA6!Read, Spike!Read, IInv, SameContents
<1> QED
  BY <1>5, <1>6

\* Whatever the program does, every register it can name reads the same on
\* Spike's regfile_t and on CVA6's ariane_regfile.
THEOREM Equivalence == Spec => []SameView
<1>1. IInv => SameView
  BY View
<1> QED
  BY <1>1, Invariance, PTL

\* A program put into a task window finds on both harts what was last left in
\* each register of it, whatever other words it wrote to CSR 0x801 itself and
\* whatever ran in between.
THEOREM WindowKeeps == Spec => []StagedWindowKeepsRegisters
<1>1. ASSUME IInv PROVE StagedWindowKeepsRegisters
  <2> SUFFICES ASSUME mode = "program", window_base(wanted) # 0,
                      NEW r \in Regs \ {0}, InFile(wanted, r)
               PROVE  LET kept == left[window_base(wanted)][r]
                      IN  /\ CVA6!Read(mem, Window(window_config_q), r) = kept
                          /\ Spike!Read(data, xpr, r) = kept
    BY DEF StagedWindowKeepsRegisters
  <2>1. wanted # 0
    BY DEF window_base, Half
  <2>2. wanted \in Configs /\ window_config_q = wanted
    BY <1>1, <2>1 DEF IInv, TypeOK, SameStaging
  <2>3. mem[window_base(wanted) + r] = left[window_base(wanted)][r]
    BY <1>1, <2>2 DEF IInv, Kept
  <2>4. CVA6!Read(mem, Window(window_config_q), r) = mem[window_base(wanted) + r]
    BY <2>2 DEF CVA6!Read, CVA6!InWindow, Window, InFile
  <2>5. Spike!Read(data, xpr, r) = CVA6!Read(mem, Window(window_config_q), r)
    BY <1>1, View DEF SameView
  <2> QED
    BY <2>3, <2>4, <2>5
<1>2. IInv => StagedWindowKeepsRegisters
  BY <1>1
<1> QED
  BY <1>2, Invariance, PTL

\* Nothing that runs in a task window changes a register of the kernel's window.
THEOREM Frozen == Spec => KernelRegistersFrozen
<1> DEFINE Keeps == window_base(window_config_q) # 0 =>
                      \A p \in Regs : mem'[p] = mem[p] /\ data'[p] = data[p]
<1>1. ASSUME IInv, [Next]_vars PROVE [Keeps]_vars
  <2> SUFFICES ASSUME window_base(window_config_q) # 0, NEW p \in Regs
               PROVE  mem'[p] = mem[p] /\ data'[p] = data[p]
    OBVIOUS
  <2>1. ASSUME NEW r \in Regs, NEW v \in Data, Commit(r, v)
        PROVE  mem'[p] = mem[p] /\ data'[p] = data[p]
    <3>1. window_config_q \in Configs
      BY <1>1, DefaultParts DEF IInv, SameMapping
    <3>2. /\ xpr.base \in Nat /\ r \in Nat /\ p \in Nat /\ p < NREG
          /\ xpr.base = window_base(window_config_q)
      BY <1>1, Sizes DEF IInv, TypeOK, SameMapping, Phys, Regs
    <3>3. NREG <= xpr.base
      BY <3>1, <3>2, WindowsAssumption DEF Bases
    <3>4. p # xpr.base + r
      BY <3>2, <3>3, Sizes
    <3>5. /\ mem' = IF r < xpr.size /\ xpr.base + r # 0
                    THEN [mem EXCEPT ![xpr.base + r] = v] ELSE mem
          /\ data' = IF r < xpr.size /\ r # 0
                     THEN [data EXCEPT ![xpr.base + r] = v] ELSE data
      BY <1>1, <2>1, BothWrites DEF IInv, Commit, CVA6!Commit, Spike!Commit
    <3> QED
      BY <1>1, <3>4, <3>5 DEF IInv, TypeOK
  <2>2. CASE \E cfg \in Configs : Stage(cfg)
    BY <2>2 DEF Stage, CVA6!CsrWrite801, Spike!CsrWrite801
  <2>3. CASE Ecall
    BY <2>3 DEF Ecall, CVA6!Trap, Spike!Trap
  <2>4. CASE Return
    BY <2>4 DEF Return, CVA6!Mret, Spike!Mret
  <2>5. CASE UNCHANGED vars
    BY <2>5 DEF vars, cva6Vars, spikeVars
  <2> QED
    BY <1>1, <2>1, <2>2, <2>3, <2>4, <2>5 DEF Next
<1>2. IInv /\ [Next]_vars => [Keeps]_vars
  BY <1>1
<1> QED
  BY <1>2, Invariance, PTL DEF Spec, KernelRegistersFrozen
=============================================================================
