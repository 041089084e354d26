--------------------------- MODULE HartWordsProof ---------------------------
(***************************************************************************)
(* Each hart on its own, for every register file and every configuration   *)
(* word software can write - bases past the file, sizes that wrap around.  *)
(***************************************************************************)
EXTENDS HartWords, WindowConfigProof

\* Physical register 0, which stands for whatever is not mapped, stays 0.
SpikeInv == TypeOK /\ data[0] = 0

IInv == SpikeInv /\ CVA6!TypeOK

-----------------------------------------------------------------------------
\* What the proofs use of the constants.
LEMMA Sizes ==
  /\ NXPR \in Nat /\ NREG \in Nat /\ SizeT \in Nat
  /\ 0 < NREG /\ NREG <= 32 /\ NREG <= NXPR /\ NXPR < SizeT /\ 65536 < SizeT
  /\ 0 \in Phys /\ 0 \in Data
  /\ \A c \in Configs \cup {0} : c \in Nat
  BY SpikeAssumption DEF Half, Phys

\* Reduction modulo 2^64 gives a size_t.
LEMMA ModType ==
  ASSUME NEW n \in Nat, 0 < n, NEW x \in Int
  PROVE  x % n \in 0 .. n - 1
  BY Z3

\* set_window_config keeps base_offset in the file and window_size a size_t,
\* whatever base and size it is given.
LEMMA ConfigType ==
  ASSUME NEW w \in [base : Phys, size : 0 .. SizeT - 1],
         NEW b \in Nat, NEW s \in 0 .. SizeT - 1
  PROVE  set_window_config(w, b, s) \in [base : Phys, size : 0 .. SizeT - 1]
<1>1. (IF b < NXPR THEN b ELSE w.base) \in Phys
  BY Sizes DEF Phys
<1>2. (NXPR - b) % SizeT \in 0 .. SizeT - 1
  BY Sizes, ModType
<1>3. (IF (b + s) % SizeT > NXPR THEN (NXPR - b) % SizeT ELSE s) \in 0 .. SizeT - 1
  BY <1>2
<1> QED
  BY <1>1, <1>3 DEF set_window_config

\* The dump of put_csr( 0x801 ) puts the base back, and a size that maps the same
\* registers: it is the old one, or it was past the end of the file and is now
\* clamped there.
LEMMA DumpRestores ==
  ASSUME NEW w \in [base : Phys, size : 0 .. SizeT - 1],
         NEW d
  PROVE  LET n == set_window_config(d, w.base, w.size)
         IN  /\ n.base = w.base
             /\ \A r \in Nat : Mapped(n, r) <=> Mapped(w, r)
<1> DEFINE n == set_window_config(d, w.base, w.size)
           b == w.base
           s == w.size
<1>1. b \in Nat /\ b < NXPR /\ s \in Nat /\ s < SizeT /\ b < SizeT
  BY Sizes DEF Phys
<1>2. n.base = b /\ n.size = IF (b + s) % SizeT > NXPR THEN (NXPR - b) % SizeT ELSE s
  BY <1>1 DEF set_window_config
<1>3. (NXPR - b) % SizeT = NXPR - b
  BY <1>1, Sizes, ModSmall
<1> HIDE DEF n, b, s
<1>4. CASE b + s < SizeT
  <2>1. (b + s) % SizeT = b + s
    BY <1>1, <1>4, Sizes, ModSmall
  <2>2. \A r \in Nat : (r < n.size /\ r + n.base < NXPR) <=> (r < s /\ r + b < NXPR)
    BY <1>1, <1>2, <1>3, <2>1, Sizes
  <2> QED
    BY <1>2, <2>2 DEF Mapped, b, s, n
<1>5. CASE b + s >= SizeT
  <2> DEFINE x == b + s - SizeT
  <2>1. x \in Nat /\ x < SizeT /\ x < NXPR /\ b + s = x + SizeT
    BY <1>1, <1>5, Sizes
  <2>2. (x + SizeT) % SizeT = x
    <3> HIDE DEF x
    <3>1. \A y, m \in Nat : m > 0 /\ y < m => (y + m) % m = y
      BY Z3
    <3> QED
      BY <2>1, <3>1, Sizes
  <2>3. n.size = s
    BY <1>2, <2>1, <2>2, Sizes
  <2> QED
    BY <1>2, <2>3 DEF Mapped, b, s, n
<1> QED
  BY <1>1, <1>4, <1>5, Sizes

-----------------------------------------------------------------------------
(* Spike. *)

\* An instruction writes a register of the file, and never physical register 0.
LEMMA CommitSpike ==
  ASSUME SpikeInv, NEW r \in Regs, NEW v \in Data
  PROVE  Write(data, xpr, r, v) \in [Phys -> Data] /\ Write(data, xpr, r, v)[0] = 0
<1>1. /\ data \in [Phys -> Data] /\ data[0] = 0 /\ xpr.base \in Nat
      /\ r \in Nat /\ NXPR \in Nat
  BY Sizes DEF SpikeInv, TypeOK, Regs, Phys
<1>2. r # 0 /\ Mapped(xpr, r) => r + xpr.base \in Phys /\ r + xpr.base # 0
  BY <1>1 DEF Mapped, Phys
<1> QED
  BY <1>1, <1>2, Sizes DEF Write

\* Reset values.
LEMMA ResetSpike ==
  ASSUME NEW d, d = [p \in Phys |-> 0]
  PROVE  /\ d \in [Phys -> Data] /\ d[0] = 0
         /\ [base |-> 0, size |-> NXPR] \in [base : Phys, size : 0 .. SizeT - 1]
  BY Sizes DEF Phys

\* Every step of Spike keeps its invariant.
LEMMA NextSpike ==
  ASSUME SpikeInv, Next
  PROVE  SpikeInv'
<1>1. /\ xpr \in [base : Phys, size : 0 .. SizeT - 1]
      /\ data \in [Phys -> Data] /\ data[0] = 0
      /\ window_active \in Configs \cup {0} /\ window_staged \in Configs \cup {0}
      /\ previous_window_config \in Nat
  BY DEF SpikeInv, TypeOK
<1>2. CASE Reset
  BY <1>1, <1>2, ResetSpike DEF Reset, SpikeInv, TypeOK
<1>3. ASSUME NEW r \in Regs, NEW v \in Data, Commit(r, v) PROVE SpikeInv'
  BY <1>1, <1>3, CommitSpike DEF Commit, SpikeInv, TypeOK
<1>4. ASSUME NEW cfg \in Configs, CsrWrite800(cfg) PROVE SpikeInv'
  BY <1>1, <1>4 DEF CsrWrite800, SpikeInv, TypeOK
<1>5. ASSUME NEW cfg \in Configs, CsrWrite801(cfg) PROVE SpikeInv'
  <2> DEFINE dumped == set_window_config(set_window_config(xpr, 0, NREG), NREG, NREG)
  <2>1. xpr' = set_window_config(dumped, xpr.base, xpr.size)
    BY <1>5 DEF CsrWrite801
  <2>2. NREG \in 0 .. SizeT - 1 /\ 0 \in Nat /\ NREG \in Nat
    BY Sizes
  <2>3. dumped \in [base : Phys, size : 0 .. SizeT - 1]
    BY <1>1, <2>2, ConfigType
  <2> HIDE DEF dumped
  <2>4. xpr.base \in Nat /\ xpr.size \in 0 .. SizeT - 1
    BY <1>1 DEF Phys
  <2>5. xpr' \in [base : Phys, size : 0 .. SizeT - 1]
    BY <2>1, <2>3, <2>4, ConfigType
  <2> QED
    BY <1>1, <1>5, <2>5 DEF CsrWrite801, SpikeInv, TypeOK
<1>6. CASE Trap
  <2>1. NREG \in 0 .. SizeT - 1 /\ 0 \in Nat
    BY Sizes
  <2>2. xpr' \in [base : Phys, size : 0 .. SizeT - 1]
    BY <1>1, <1>6, <2>1, ConfigType DEF Trap
  <2>3. xpr.base \in Nat /\ xpr.size \in Nat
    BY <1>1, Sizes DEF Phys
  <2>4. previous_window_config' \in Nat
    BY <1>6, <2>3, PackedType DEF Trap
  <2> QED
    BY <1>1, <1>6, <2>2, <2>4 DEF Trap, SpikeInv, TypeOK
<1>7. CASE Mret
  <2> DEFINE b == window_base(window_staged)
             s == window_size(window_staged)
             first == set_window_config(xpr, b, s)
             n == IF s = 0 THEN NREG ELSE s
  <2>1. xpr' = set_window_config(first, b, n)
    BY <1>7 DEF Mret, window_config_write
  <2>2. b \in Nat /\ s \in 0 .. SizeT - 1 /\ n \in 0 .. SizeT - 1
    BY <1>1, Sizes, WordParts
  <2> HIDE DEF b, s, n
  <2>3. first \in [base : Phys, size : 0 .. SizeT - 1]
    BY <1>1, <2>2, ConfigType
  <2> HIDE DEF first
  <2>4. xpr' \in [base : Phys, size : 0 .. SizeT - 1]
    BY <2>1, <2>2, <2>3, ConfigType
  <2> QED
    BY <1>1, <1>7, <2>4 DEF Mret, SpikeInv, TypeOK
<1> QED
  BY <1>2, <1>3, <1>4, <1>5, <1>6, <1>7 DEF Next

\* The dump changes no register an instruction can name, and no other step of
\* Spike changes the staged word.
LEMMA DumpStep ==
  ASSUME SpikeInv, Next, window_staged' # window_staged, NEW r \in Regs
  PROVE  Read(data, xpr, r)' = Read(data, xpr, r)
<1>1. PICK cfg \in Configs : CsrWrite801(cfg)
  BY DEF Next, Reset, Commit, CsrWrite800, Trap, Mret
<1> DEFINE dumped == set_window_config(set_window_config(xpr, 0, NREG), NREG, NREG)
<1>2. xpr' = set_window_config(dumped, xpr.base, xpr.size) /\ data' = data
  BY <1>1 DEF CsrWrite801
<1> HIDE DEF dumped
<1>3. xpr \in [base : Phys, size : 0 .. SizeT - 1] /\ r \in Nat
  BY Sizes DEF SpikeInv, TypeOK, Regs
<1>4. xpr'.base = xpr.base /\ (Mapped(xpr, r)' <=> Mapped(xpr, r))
  <2>1. xpr'.base = xpr.base /\ (Mapped(xpr', r) <=> Mapped(xpr, r))
    BY <1>2, <1>3, DumpRestores
  <2> QED
    BY <2>1 DEF Mapped
<1> QED
  BY <1>2, <1>4 DEF Read

-----------------------------------------------------------------------------
(* CVA6. *)

\* An instruction writes a register of the window, and never physical register 0.
LEMMA CommitCVA6 ==
  ASSUME CVA6!TypeOK, NEW r \in CVA6!Regs, NEW v \in Data, CVA6!Commit(r, v)
  PROVE  /\ mem' \in [CVA6!Phys -> Data]
         /\ \A p \in CVA6!Phys : mem'[p] # mem[p] =>
              /\ p # 0
              /\ CVA6!window_base(window_config_q) <= p
              /\ p < CVA6!window_base(window_config_q)
                     + CVA6!window_size(window_config_q)
<1> DEFINE b == CVA6!window_base(window_config_q)
           s == CVA6!window_size(window_config_q)
<1>1. window_config_q \in Nat
  <2>1. CVA6!DEFAULT_WINDOW_CONFIG \in Nat
    <3>1. CVA6!DEFAULT_WINDOW_CONFIG = ulWindowConfig(0, NREG)
      BY DEF CVA6!DEFAULT_WINDOW_CONFIG, CVA6!ulWindowConfig, CVA6!Half,
             ulWindowConfig, Half
    <3> QED
      BY <3>1, PackedType, Sizes
  <2> QED
    BY <2>1, Sizes DEF CVA6!TypeOK
<1>2. b \in Nat /\ s \in Nat
  BY <1>1, WordParts DEF CVA6!window_base, CVA6!window_size, CVA6!Half,
                         window_base, window_size, Half
<1>3. mem' = IF r < s /\ b + r < NXPR /\ b + r # 0
             THEN [mem EXCEPT ![b + r] = v] ELSE mem
  BY DEF CVA6!Commit, CVA6!Write, CVA6!InWindow, CVA6!Window
<1> HIDE DEF b, s
<1>4. mem \in [CVA6!Phys -> Data] /\ r \in Nat /\ NXPR \in Nat
  BY Sizes DEF CVA6!TypeOK, CVA6!Regs
<1>5. b + r < NXPR => b + r \in CVA6!Phys
  BY <1>2, <1>4 DEF CVA6!Phys
<1>6. mem' \in [CVA6!Phys -> Data]
  BY <1>3, <1>4, <1>5
<1>7. ASSUME NEW p \in CVA6!Phys, mem'[p] # mem[p]
      PROVE  p # 0 /\ b <= p /\ p < b + s
  <2>1. r < s /\ b + r # 0 /\ p = b + r
    BY <1>3, <1>4, <1>5, <1>7
  <2> QED
    BY <1>2, <1>4, <2>1
<1> QED
  BY <1>6, <1>7 DEF b, s

\* Every step of CVA6 keeps the types of its state.
LEMMA NextCVA6 ==
  ASSUME CVA6!TypeOK, CVA6!Next
  PROVE  CVA6!TypeOK'
<1>1. CASE CVA6!Reset
  BY <1>1, Sizes DEF CVA6!Reset, CVA6!TypeOK
<1>2. ASSUME NEW r \in CVA6!Regs, NEW v \in Data, CVA6!Commit(r, v) PROVE CVA6!TypeOK'
  BY <1>2, CommitCVA6 DEF CVA6!Commit, CVA6!TypeOK
<1>3. ASSUME NEW cfg \in Configs, CVA6!CsrWrite800(cfg) \/ CVA6!CsrWrite801(cfg)
      PROVE  CVA6!TypeOK'
  BY <1>3 DEF CVA6!CsrWrite800, CVA6!CsrWrite801, CVA6!TypeOK
<1>4. CASE CVA6!Trap \/ CVA6!Mret
  BY <1>4 DEF CVA6!Trap, CVA6!Mret, CVA6!TypeOK
<1> QED
  BY <1>1, <1>2, <1>3, <1>4 DEF CVA6!Next

\* A step of CVA6 that leaves both CSRs alone and is not a reset changes no
\* physical register outside the window.
LEMMA WriteStep ==
  ASSUME CVA6!TypeOK, CVA6!Next,
         UNCHANGED <<window_config_q, prev_window_config_q>>,
         mem' # [p \in CVA6!Phys |-> 0],
         NEW p \in CVA6!Phys, mem'[p] # mem[p]
  PROVE  /\ p # 0
         /\ CVA6!window_base(window_config_q) <= p
         /\ p < CVA6!window_base(window_config_q) + CVA6!window_size(window_config_q)
<1>1. PICK r \in CVA6!Regs, v \in Data : CVA6!Commit(r, v)
  BY DEF CVA6!Next, CVA6!Reset, CVA6!CsrWrite800, CVA6!CsrWrite801, CVA6!Trap,
         CVA6!Mret
<1> QED
  BY <1>1, CommitCVA6

-----------------------------------------------------------------------------
\* Every reachable state of either hart satisfies the invariant.
THEOREM WordInvariance == WordSpec => []IInv
<1>1. WordInit => IInv
  <2> SUFFICES ASSUME WordInit PROVE IInv
    OBVIOUS
  <2>1. SpikeInv
    BY Sizes, ResetSpike DEF WordInit, Init, SpikeInv, TypeOK
  <2>2. CVA6!TypeOK
    BY Sizes DEF WordInit, CVA6!Init, CVA6!TypeOK
  <2> QED
    BY <2>1, <2>2 DEF IInv
<1>2. IInv /\ [WordNext]_wordVars => IInv'
  <2> SUFFICES ASSUME IInv, [WordNext]_wordVars PROVE IInv'
    OBVIOUS
  <2>1. SpikeInv'
    <3>1. CASE Next
      BY <3>1, NextSpike DEF IInv
    <3>2. CASE UNCHANGED vars
      BY <3>2 DEF vars, IInv, SpikeInv, TypeOK
    <3> QED
      BY <3>1, <3>2 DEF WordNext, wordVars
  <2>2. CVA6!TypeOK'
    <3>1. CASE CVA6!Next
      BY <3>1, NextCVA6 DEF IInv
    <3>2. CASE UNCHANGED cva6Vars
      BY <3>2 DEF cva6Vars, IInv, CVA6!TypeOK
    <3> QED
      BY <3>1, <3>2 DEF WordNext, wordVars
  <2> QED
    BY <2>1, <2>2 DEF IInv
<1> QED
  BY <1>1, <1>2, PTL DEF WordSpec

\* Every variable of both harts keeps its type.
THEOREM WordTypes == WordSpec => []WordTypeOK
<1>1. IInv => WordTypeOK
  BY DEF IInv, SpikeInv, WordTypeOK
<1> QED
  BY <1>1, WordInvariance, PTL

\* On Spike a register outside the window reads 0, whatever windows were in force
\* when registers were written.
THEOREM ReadsZero == WordSpec => []OutOfWindowReadsZero
<1>1. IInv => OutOfWindowReadsZero
  BY DEF IInv, SpikeInv, OutOfWindowReadsZero, Read
<1> QED
  BY <1>1, WordInvariance, PTL

\* On CVA6 an instruction writes only inside the window in force, and never
\* physical register 0.
THEOREM WritesInWindow == WordSpec => CVA6WritesStayInWindow
<1> DEFINE A == UNCHANGED <<window_config_q, prev_window_config_q>>
                /\ mem' # [p \in CVA6!Phys |-> 0] =>
                  \A p \in CVA6!Phys : mem'[p] # mem[p] =>
                    /\ p # 0
                    /\ CVA6!window_base(window_config_q) <= p
                    /\ p < CVA6!window_base(window_config_q)
                           + CVA6!window_size(window_config_q)
<1>1. IInv /\ [WordNext]_wordVars => [A]_CVA6!vars
  <2> SUFFICES ASSUME IInv, [WordNext]_wordVars PROVE [A]_CVA6!vars
    OBVIOUS
  <2>1. CASE CVA6!Next
    BY <2>1, WriteStep DEF IInv
  <2>2. CASE UNCHANGED cva6Vars
    BY <2>2 DEF cva6Vars, CVA6!vars
  <2> QED
    BY <2>1, <2>2 DEF WordNext, wordVars
<1> QED
  BY <1>1, WordInvariance, PTL DEF WordSpec, CVA6WritesStayInWindow, CVA6!WritesStayInWindow

\* On Spike the register dump of put_csr( 0x801 ) is invisible to the program.
THEOREM DumpInvisible == WordSpec => DumpTransparent
<1> DEFINE A == window_staged' # window_staged =>
                  \A r \in Regs : Read(data, xpr, r)' = Read(data, xpr, r)
<1>1. IInv /\ [WordNext]_wordVars => [A]_vars
  <2> SUFFICES ASSUME IInv, [WordNext]_wordVars PROVE [A]_vars
    OBVIOUS
  <2>1. CASE Next
    BY <2>1, DumpStep DEF IInv
  <2>2. CASE UNCHANGED vars
    BY <2>2
  <2> QED
    BY <2>1, <2>2 DEF WordNext, wordVars
<1> QED
  BY <1>1, WordInvariance, PTL DEF WordSpec, DumpTransparent
=============================================================================
