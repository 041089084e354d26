-------------------------- MODULE CVA6PipelineProof -------------------------
(***************************************************************************)
(* The properties of CVA6Pipeline for every register file, every set of    *)
(* windows and every length of the scoreboard.                             *)
(***************************************************************************)
EXTENDS CVA6Pipeline, WindowConfigProof, SequenceTheorems, WellFoundedInduction, TLAPS

-----------------------------------------------------------------------------
\* Sets and sequences.

\* A non-empty set of positions has a last one.
LEMMA LargestExists ==
  ASSUME NEW n \in Nat, NEW T \in SUBSET (1 .. n), T # {}
  PROVE  \E j \in T : \A k \in T : k <= j
<1> DEFINE R == OpToRel(<, Nat)
           U == {n - j : j \in T}
<1>1. U \subseteq Nat /\ U # {}
  <2>1. \A j \in T : j \in Nat /\ j <= n
    OBVIOUS
  <2>2. \A j \in T : n - j \in Nat
    BY <2>1, SMT
  <2> QED BY <2>2
<1>2. \E x \in U : \A y \in U : ~(<<y, x>> \in R)
  <2>1. IsWellFoundedOn(R, Nat) BY NatLessThanWellFounded
  <2> HIDE DEF R, U
  <2> QED BY <1>1, <2>1, WFMin, Zenon
<1>3. \A x, y \in Nat : x < y => <<x, y>> \in R
  BY DEF OpToRel
<1> HIDE DEF R
<1>4. PICK x \in U : \A y \in U : ~(<<y, x>> \in R)
  BY <1>2
<1>5. \A y \in U : ~(y < x)
  BY <1>1, <1>3, <1>4
<1>6. PICK j \in T : x = n - j
  BY <1>4
<1>7. \A k \in T : k <= j
  <2> SUFFICES ASSUME NEW k \in T PROVE k <= j
    OBVIOUS
  <2>1. n - k \in U OBVIOUS
  <2>2. ~(n - k < n - j) BY <1>5, <1>6, <2>1
  <2>3. k \in Int /\ j \in Int BY SMT
  <2> QED BY <2>2, <2>3, SMT
<1> QED BY <1>7

\* What leaves at the front and enters at the back, position by position.
LEMMA Shifted ==
  ASSUME NEW S, NEW s \in Seq(S), NEW t \in Seq(S), NEW n \in Nat, n <= Len(s)
  PROVE  /\ SubSeq(s, n + 1, Len(s)) \o t \in Seq(S)
         /\ Len(SubSeq(s, n + 1, Len(s)) \o t) = Len(s) - n + Len(t)
         /\ \A i \in 1 .. Len(s) - n + Len(t) :
              (SubSeq(s, n + 1, Len(s)) \o t)[i] = (s \o t)[i + n]
<1> DEFINE u == SubSeq(s, n + 1, Len(s))
<1>0. Len(s) \in Nat /\ Len(t) \in Nat /\ \A i \in n + 1 .. Len(s) : s[i] \in S
  <2>1. Len(s) \in Nat /\ Len(t) \in Nat BY LenProperties
  <2>2. \A i \in n + 1 .. Len(s) : i \in 1 .. Len(s) BY <2>1, SMT
  <2> QED BY <2>1, <2>2, ElementOfSeq
<1>1. /\ u \in Seq(S)
      /\ Len(u) = Len(s) - n
      /\ \A i \in 1 .. Len(s) - n : u[i] = s[i + n]
  <2>1. n + 1 \in Int /\ Len(s) \in Int BY <1>0, SMT
  <2>2. /\ u \in Seq(S)
        /\ Len(u) = IF n + 1 <= Len(s) THEN Len(s) - (n + 1) + 1 ELSE 0
        /\ \A i \in 1 .. Len(s) - (n + 1) + 1 : u[i] = s[(n + 1) + i - 1]
    BY <1>0, <2>1, SubSeqProperties
  <2>3. Len(u) = Len(s) - n BY <1>0, <2>2, SMT
  <2>4. ASSUME NEW i \in 1 .. Len(s) - n PROVE u[i] = s[i + n]
    <3>1. i \in 1 .. Len(s) - (n + 1) + 1 /\ (n + 1) + i - 1 = i + n BY <1>0, SMT
    <3> QED BY <2>2, <3>1
  <2> QED BY <2>2, <2>3, <2>4
<1> HIDE DEF u
<1>2. /\ u \o t \in Seq(S)
      /\ Len(u \o t) = Len(s) - n + Len(t)
      /\ \A i \in 1 .. Len(u) + Len(t) :
           (u \o t)[i] = IF i <= Len(u) THEN u[i] ELSE t[i - Len(u)]
  BY <1>1, ConcatProperties
<1>3. \A i \in 1 .. Len(s) + Len(t) :
        (s \o t)[i] = IF i <= Len(s) THEN s[i] ELSE t[i - Len(s)]
  BY ConcatProperties
<1>4. ASSUME NEW i \in 1 .. Len(s) - n + Len(t)
      PROVE  (u \o t)[i] = (s \o t)[i + n]
  <2>1. /\ i \in 1 .. Len(u) + Len(t) /\ i + n \in 1 .. Len(s) + Len(t)
        /\ i <= Len(u) <=> i + n <= Len(s)
        /\ i <= Len(u) => i \in 1 .. Len(s) - n
        /\ i - Len(u) = i + n - Len(s)
    BY <1>0, <1>1, SMT
  <2> QED BY <1>1, <1>2, <1>3, <2>1
<1> QED BY <1>2, <1>4 DEF u

-----------------------------------------------------------------------------
\* The register file.

LEMMA Sizes ==
  /\ PHYSICAL_REGS \in Nat /\ NREG \in Nat /\ 0 < NREG /\ NREG <= PHYSICAL_REGS
  /\ NR_SB_ENTRIES \in Nat /\ 0 < NR_SB_ENTRIES
BY CVA6Assumption, PipelineAssumption, SMT

LEMMA WordNat ==
  /\ Word \subseteq Nat /\ Data \subseteq Word /\ 0 \in Word
  /\ DEFAULT_WINDOW_CONFIG \in Word
<1>1. DEFAULT_WINDOW_CONFIG \in Nat
  <2>1. 0 \in Nat /\ NREG \in Nat BY Sizes
  <2> QED BY <2>1, PackedType DEF DEFAULT_WINDOW_CONFIG
<1> QED BY <1>1, CVA6Assumption, PipelineAssumption DEF Word

LEMMA WindowNat ==
  ASSUME NEW cfg \in Word
  PROVE  Window(cfg).base \in Nat /\ Window(cfg).size \in Nat
BY WordNat, WordParts DEF Window

LEMMA ReadType ==
  ASSUME NEW m \in [Phys -> Word], NEW w, w.base \in Nat, w.size \in Nat, NEW r \in Regs
  PROVE  Read(m, w, r) \in Word
<1>1. 0 \in Word BY WordNat
<1>2. CASE r # 0 /\ InWindow(w, r)
  <2>1. w.base + r \in Phys BY <1>2, Sizes, SMT DEF InWindow, Phys, Regs
  <2> QED BY <1>2, <2>1 DEF Read
<1> QED BY <1>1, <1>2 DEF Read

LEMMA WriteType ==
  ASSUME NEW m \in [Phys -> Word], NEW w, w.base \in Nat, w.size \in Nat,
         NEW r \in Regs, NEW v \in Word
  PROVE  Write(m, w, r, v) \in [Phys -> Word]
BY DEF Write

\* Distinct registers of one window are distinct physical registers.
LEMMA ReadWrite ==
  ASSUME NEW m \in [Phys -> Word], NEW w, w.base \in Nat, w.size \in Nat,
         NEW r \in Regs, NEW d \in Regs, NEW v \in Word, r # 0, InWindow(w, r)
  PROVE  /\ d = r => Read(Write(m, w, d, v), w, r) = v
         /\ d # r => Read(Write(m, w, d, v), w, r) = Read(m, w, r)
<1>1. r \in Nat /\ d \in Nat BY Sizes, SMT DEF Regs
<1>2. w.base + r \in Phys /\ w.base + r # 0
  BY <1>1, Sizes, SMT DEF InWindow, Phys
<1>3. d # r => w.base + d # w.base + r
  BY <1>1, SMT
<1> QED BY <1>2, <1>3 DEF Read, Write

-----------------------------------------------------------------------------
\* The invariant.

\* The operand of entry i comes from the last older instruction in flight that writes
\* its source, whose result was there when it was forwarded; without such an
\* instruction it is what the register file still holds.
OperandOf(m, w, s, i) ==
  /\ s[i].rs = 0 => s[i].opa = 0
  /\ \A j \in 1 .. i - 1 :
       /\ s[i].rs # 0 /\ s[j].rd = s[i].rs
       /\ \A k \in j + 1 .. i - 1 : s[k].rd # s[i].rs
       => Forwardable(s[j]) /\ s[i].opa = s[j].result
  /\ s[i].rs # 0 /\ (\A j \in 1 .. i - 1 : s[j].rd # s[i].rs)
       => s[i].opa = Read(m, w, s[i].rs)

Operands(m, w, s) ==
  \A i \in 1 .. Len(s) :
    ~s[i].racing /\ InWindow(w, s[i].rs) => OperandOf(m, w, s, i)

Serial(s) ==
  \A i, j \in 1 .. Len(s) : i < j /\ s[i].op \in CsrOps => s[j].op = "LOAD"

RacingMarked(s) ==
  \A i, j \in 1 .. Len(s) : i < j /\ s[i].op = "csrw800" => s[j].racing

IInv == PipeTypeOK /\ Serial(sb) /\ RacingMarked(sb) /\ Operands(mem, win, sb)

\* The oldest entry leaves and writes the register file. A CSR instruction may
\* write anything: nothing in flight took its operand from it.
LEMMA Retire ==
  ASSUME NEW m \in [Phys -> Word], NEW w, w.base \in Nat, w.size \in Nat,
         NEW s \in Seq(Entries), NEW u \in Seq(Entries),
         Len(s) >= 1, Len(u) = Len(s) - 1, \A i \in 1 .. Len(u) : u[i] = s[i + 1],
         NEW v \in Word, s[1].op \in CsrOps \/ v = s[1].result,
         Operands(m, w, s)
  PROVE  Operands(Write(m, w, s[1].rd, v), w, u)
<1>0. Len(s) \in Nat /\ Len(u) \in Nat
  BY LenProperties
<1>1. SUFFICES ASSUME NEW i \in 1 .. Len(u), ~u[i].racing, InWindow(w, u[i].rs)
               PROVE  OperandOf(Write(m, w, s[1].rd, v), w, u, i)
  BY DEF Operands
<1>2. /\ i \in Nat /\ i + 1 \in 1 .. Len(s) /\ u[i] = s[i + 1]
      /\ 1 \in 1 .. Len(s) /\ 1 \in 1 .. (i + 1) - 1 /\ (i + 1) - 1 = i
  BY <1>0, SMT
<1>3. OperandOf(m, w, s, i + 1)
  BY <1>1, <1>2 DEF Operands
<1>4. s[1] \in Entries /\ u[i] \in Entries
  BY <1>2, ElementOfSeq
<1>5. s[1].rd \in Regs /\ u[i].rs \in Regs
  BY <1>4 DEF Entries
<1>6. \A j \in 1 .. i - 1 : j + 1 \in 1 .. i /\ u[j] = s[j + 1]
  BY <1>0, <1>2, SMT
<1>7. u[i].rs = 0 => u[i].opa = 0
  BY <1>2, <1>3 DEF OperandOf
<1>8. ASSUME NEW j \in 1 .. i - 1, u[i].rs # 0, u[j].rd = u[i].rs,
             \A k \in j + 1 .. i - 1 : u[k].rd # u[i].rs
      PROVE  Forwardable(u[j]) /\ u[i].opa = u[j].result
  <2>1. j + 1 \in 1 .. (i + 1) - 1 /\ u[j] = s[j + 1]
    BY <1>2, <1>6
  <2>2. ASSUME NEW k \in (j + 1) + 1 .. (i + 1) - 1 PROVE s[k].rd # s[i + 1].rs
    <3>1. k - 1 \in j + 1 .. i - 1 /\ k - 1 \in 1 .. i - 1 /\ (k - 1) + 1 = k
      BY <1>2, SMT
    <3> QED BY <1>2, <1>6, <1>8, <3>1
  <2> QED BY <1>2, <1>3, <1>8, <2>1, <2>2 DEF OperandOf
<1>9. ASSUME u[i].rs # 0, \A j \in 1 .. i - 1 : u[j].rd # u[i].rs
      PROVE  u[i].opa = Read(Write(m, w, s[1].rd, v), w, u[i].rs)
  <2>0. ASSUME NEW k \in 1 + 1 .. (i + 1) - 1 PROVE s[k].rd # s[i + 1].rs
    <3>1. k - 1 \in 1 .. i - 1 /\ (k - 1) + 1 = k
      BY <1>2, SMT
    <3> QED BY <1>2, <1>6, <1>9, <3>1
  <2>1. CASE s[1].rd = u[i].rs
    <3>1. Forwardable(s[1]) /\ s[i + 1].opa = s[1].result
      BY <1>2, <1>3, <1>9, <2>0, <2>1 DEF OperandOf
    <3>2. v = s[1].result
      BY <3>1 DEF Forwardable
    <3> QED BY <1>1, <1>2, <1>5, <1>9, <2>1, <3>1, <3>2, ReadWrite
  <2>2. CASE s[1].rd # u[i].rs
    <3>1. ASSUME NEW j \in 1 .. (i + 1) - 1 PROVE s[j].rd # s[i + 1].rs
      <4>1. j = 1 \/ j \in 1 + 1 .. (i + 1) - 1 BY <1>2, SMT
      <4> QED BY <1>2, <2>0, <2>2, <4>1
    <3>2. s[i + 1].opa = Read(m, w, s[i + 1].rs)
      BY <1>2, <1>3, <1>9, <3>1 DEF OperandOf
    <3> QED BY <1>1, <1>2, <1>5, <1>9, <2>2, <3>2, ReadWrite
  <2> QED BY <2>1, <2>2
<1> QED BY <1>7, <1>8, <1>9 DEF OperandOf

\* raw_checker finds the youngest writer when there is one.
LEMMA LastWriterFact ==
  ASSUME NEW s \in Seq(Entries), NEW r, HasRaw(s, r)
  PROVE  /\ LastWriter(s, r) \in 1 .. Len(s)
         /\ s[LastWriter(s, r)].rd = r
         /\ \A k \in LastWriter(s, r) + 1 .. Len(s) : s[k].rd # r
<1>0. Len(s) \in Nat /\ DOMAIN s = 1 .. Len(s)
  BY LenProperties
<1> DEFINE T == {j \in 1 .. Len(s) : s[j].rd = r}
<1>1. T \in SUBSET (1 .. Len(s)) /\ T # {}
  BY <1>0 DEF HasRaw
<1>2. PICK j \in T : \A k \in T : k <= j
  BY <1>0, <1>1, LargestExists
<1>3. \A k \in j + 1 .. Len(s) : s[k].rd # r
  <2> SUFFICES ASSUME NEW k \in j + 1 .. Len(s), s[k].rd = r PROVE FALSE
    OBVIOUS
  <2>1. j \in Nat /\ 1 <= j BY <1>0, <1>2, SMT
  <2>2. k \in T BY <1>0, <2>1, SMT
  <2> QED BY <1>2, <2>1, <2>2, SMT
<1>4. \E x \in DOMAIN s : s[x].rd = r /\ \A k \in x + 1 .. Len(s) : s[k].rd # r
  BY <1>0, <1>3
<1> HIDE DEF T
<1>5. /\ LastWriter(s, r) \in DOMAIN s
      /\ s[LastWriter(s, r)].rd = r
      /\ \A k \in LastWriter(s, r) + 1 .. Len(s) : s[k].rd # r
  BY <1>4, Zenon DEF LastWriter
<1> QED BY <1>0, <1>5

\* Facts every step uses.
LEMMA Basics ==
  ASSUME IInv
  PROVE  /\ mem \in [Phys -> Word] /\ window_config_q \in Word /\ prev_window_config_q \in Word
         /\ win.base \in Nat /\ win.size \in Nat
         /\ sb \in Seq(Entries) /\ Len(sb) \in Nat /\ Len(sb) <= NR_SB_ENTRIES
         /\ DOMAIN sb = 1 .. Len(sb)
         /\ \A i \in 1 .. Len(sb) : sb[i] \in Entries
<1>1. /\ mem \in [Phys -> Word] /\ window_config_q \in Word /\ prev_window_config_q \in Word
      /\ sb \in Seq(Entries) /\ Len(sb) <= NR_SB_ENTRIES
  BY DEF IInv, PipeTypeOK
<1>2. Len(sb) \in Nat /\ DOMAIN sb = 1 .. Len(sb)
  BY <1>1, LenProperties
<1>3. win.base \in Nat /\ win.size \in Nat
  BY <1>1, WindowNat DEF win
<1>4. \A i \in 1 .. Len(sb) : sb[i] \in Entries
  BY <1>1, ElementOfSeq
<1> QED BY <1>1, <1>2, <1>3, <1>4

\* The instruction the issue stage may add in a cycle.
MayIssue(ins, csr_commit) ==
  /\ ins \in Instructions
  /\ Len(sb) < NR_SB_ENTRIES
  /\ UnitFree(ins.op, csr_commit)
  /\ OperandReady(ins.rs)

LEMMA IssuedType ==
  ASSUME IInv, NEW ins \in Instructions
  PROVE  Issued(ins.op, ins.rs, ins.rd, ins.v) \in Entries
<1>1. ins.op \in Ops /\ ins.rs \in Regs /\ ins.rd \in Regs /\ ins.v \in Data
  BY DEF Instructions
<1>2. Operand(ins.rs) \in Word
  <2>1. CASE HasRaw(sb, ins.rs)
    <3>1. LastWriter(sb, ins.rs) \in 1 .. Len(sb)
      BY <2>1, Basics, LastWriterFact
    <3>2. sb[LastWriter(sb, ins.rs)] \in Entries
      BY <3>1, Basics
    <3> QED BY <2>1, <3>2 DEF Operand, Entries
  <2>2. CASE ~HasRaw(sb, ins.rs)
    BY <1>1, <2>2, Basics, ReadType DEF Operand
  <2> QED BY <2>1, <2>2
<1>3. ins.v \in Word
  BY <1>1, WordNat
<1> QED BY <1>1, <1>2, <1>3 DEF Issued, Entries

\* The scoreboard with the new instruction, before anything leaves it.
LEMMA Push ==
  ASSUME IInv, NEW c \in BOOLEAN, NEW new \in Issue(c)
  PROVE  /\ new \in Seq(Entries) /\ Len(new) \in {0, 1}
         /\ sb \o new \in Seq(Entries) /\ Len(sb \o new) = Len(sb) + Len(new)
         /\ Len(sb) + Len(new) <= NR_SB_ENTRIES
         /\ \A i \in 1 .. Len(sb) : (sb \o new)[i] = sb[i]
         /\ Len(new) = 1 =>
              \E ins : /\ MayIssue(ins, c)
                       /\ (sb \o new)[Len(sb) + 1] = Issued(ins.op, ins.rs, ins.rd, ins.v)
<1>1. CASE new = <<>>
  <2>1. new \in Seq(Entries) /\ Len(new) = 0
    BY <1>1, EmptySeq
  <2>2. sb \o new = sb
    BY <1>1, Basics, ConcatEmptySeq
  <2>3. Len(sb) + 0 = Len(sb)
    BY Basics, SMT
  <2> QED BY <2>1, <2>2, <2>3, Basics
<1>2. CASE new # <<>>
  <2>1. PICK ins : /\ MayIssue(ins, c)
                   /\ new = <<Issued(ins.op, ins.rs, ins.rd, ins.v)>>
    BY <1>2 DEF Issue, MayIssue
  <2> DEFINE e == Issued(ins.op, ins.rs, ins.rd, ins.v)
  <2>2. e \in Entries
    BY <2>1, IssuedType DEF MayIssue
  <2> HIDE DEF e
  <2>3. new = <<e>> /\ new \in Seq(Entries) /\ Len(new) = 1 /\ new[1] = e
    BY <2>1, <2>2 DEF e
  <2>4. /\ sb \o new \in Seq(Entries) /\ Len(sb \o new) = Len(sb) + Len(new)
        /\ \A i \in 1 .. Len(sb) + Len(new) :
             (sb \o new)[i] = IF i <= Len(sb) THEN sb[i] ELSE new[i - Len(sb)]
    BY <2>3, Basics, ConcatProperties
  <2>5. (sb \o new)[Len(sb) + 1] = e
    <3>1. /\ Len(sb) + 1 \in 1 .. Len(sb) + Len(new)
          /\ ~(Len(sb) + 1 <= Len(sb)) /\ Len(sb) + 1 - Len(sb) = 1
      BY <2>3, Basics, SMT
    <3> QED BY <2>3, <2>4, <3>1
  <2>6. \A i \in 1 .. Len(sb) : (sb \o new)[i] = sb[i]
    <3>1. \A i \in 1 .. Len(sb) : i \in 1 .. Len(sb) + Len(new) /\ i <= Len(sb)
      BY <2>3, Basics, SMT
    <3> QED BY <2>4, <3>1
  <2>7. Len(sb) + Len(new) <= NR_SB_ENTRIES
    BY <2>1, <2>3, Basics, Sizes, SMT DEF MayIssue
  <2> QED BY <2>1, <2>3, <2>4, <2>5, <2>6, <2>7 DEF e
<1> QED BY <1>1, <1>2

LEMMA LastPosition ==
  \A a \in Nat : \A b \in {0, 1} : \A i \in 1 .. a + b :
    ~(i <= a) => i = a + 1 /\ b = 1 /\ i - 1 = a
BY SMT

\* The new instruction has the operand the invariant asks for.
LEMMA PushOperands ==
  ASSUME IInv, NEW c \in BOOLEAN, NEW new \in Issue(c)
  PROVE  Operands(mem, win, sb \o new)
<1> DEFINE full == sb \o new
<1>0. /\ Len(sb) \in Nat /\ Len(new) \in {0, 1} /\ Len(full) = Len(sb) + Len(new)
      /\ \A i \in 1 .. Len(sb) : full[i] = sb[i]
      /\ Len(new) = 1 =>
           \E ins : /\ MayIssue(ins, c)
                    /\ full[Len(sb) + 1] = Issued(ins.op, ins.rs, ins.rd, ins.v)
  BY Push, Basics
<1> HIDE DEF full
<1>1. SUFFICES ASSUME NEW i \in 1 .. Len(full), ~full[i].racing, InWindow(win, full[i].rs)
               PROVE  OperandOf(mem, win, full, i)
  BY DEF Operands, full
<1>2. CASE i <= Len(sb)
  <2>1. i \in 1 .. Len(sb) /\ \A j \in 1 .. i : j \in 1 .. Len(sb) /\ full[j] = sb[j]
    BY <1>0, <1>2, SMT
  <2>2. /\ full[i] = sb[i]
        /\ \A j \in 1 .. i - 1 : full[j] = sb[j]
        /\ \A j \in 1 .. i - 1 : \A k \in j + 1 .. i - 1 : full[k] = sb[k]
    <3>1. /\ i \in Nat /\ i \in 1 .. i /\ \A j \in 1 .. i - 1 : j \in 1 .. i
          /\ \A j \in 1 .. i - 1 : \A k \in j + 1 .. i - 1 : k \in 1 .. i
      BY <1>0, <2>1, SMT
    <3> QED BY <2>1, <3>1
  <2>3. OperandOf(mem, win, sb, i)
    BY <1>1, <2>1, <2>2 DEF IInv, Operands
  <2> QED BY <2>2, <2>3 DEF OperandOf
<1>3. CASE ~(i <= Len(sb))
  <2>1. i = Len(sb) + 1 /\ Len(new) = 1 /\ i - 1 = Len(sb)
    <3>1. Len(sb) \in Nat /\ (Len(new) = 0 \/ Len(new) = 1) /\ Len(full) = Len(sb) + Len(new)
      BY <1>0
    <3>2. i \in 1 .. Len(sb) + Len(new)
      BY <3>1
    <3> QED BY <1>3, <3>1, <3>2, LastPosition
  <2>2. PICK ins : /\ MayIssue(ins, c)
                   /\ full[i] = Issued(ins.op, ins.rs, ins.rd, ins.v)
    BY <1>0, <2>1
  <2> DEFINE r == ins.rs
  <2>3. full[i].rs = r /\ full[i].opa = Operand(r)
    BY <2>2 DEF Issued
  <2> HIDE DEF r
  <2>4. \A j \in 1 .. i - 1 : full[j] = sb[j]
    BY <1>0, <2>1
  <2>5. \A j \in 1 .. i - 1 : \A k \in j + 1 .. i - 1 : full[k] = sb[k]
    <3>1. \A j \in 1 .. i - 1 : \A k \in j + 1 .. i - 1 : k \in 1 .. i - 1
      BY <1>0, <2>1, SMT
    <3> QED BY <2>4, <3>1
  <2>6. CASE HasRaw(sb, r)
    <3> DEFINE l == LastWriter(sb, r)
    <3>1. l \in 1 .. Len(sb) /\ sb[l].rd = r /\ \A k \in l + 1 .. Len(sb) : sb[k].rd # r
      BY <2>6, Basics, LastWriterFact
    <3>2. Forwardable(sb[l]) /\ full[i].opa = sb[l].result /\ r # 0
      BY <2>2, <2>3, <2>6 DEF MayIssue, OperandReady, Operand, HasRaw, r
    <3> HIDE DEF l
    <3>3. ASSUME NEW j \in 1 .. i - 1, full[j].rd = r,
                 \A k \in j + 1 .. i - 1 : full[k].rd # r
          PROVE  j = l
      <4>1. ~(j < l)
        <5> SUFFICES ASSUME j < l PROVE FALSE
          OBVIOUS
        <5>1. l \in j + 1 .. i - 1 /\ l \in 1 .. i - 1 BY <1>0, <2>1, <3>1, SMT
        <5> QED BY <2>4, <3>1, <3>3, <5>1
      <4>2. ~(l < j)
        <5> SUFFICES ASSUME l < j PROVE FALSE
          OBVIOUS
        <5>1. j \in l + 1 .. Len(sb) BY <1>0, <2>1, <3>1, SMT
        <5> QED BY <2>4, <3>1, <3>3, <5>1
      <4> QED BY <1>0, <2>1, <3>1, <4>1, <4>2, SMT
    <3>4. ~(\A j \in 1 .. i - 1 : full[j].rd # r)
      BY <2>1, <2>4, <3>1
    <3> QED BY <2>1, <2>3, <2>4, <3>1, <3>2, <3>3, <3>4 DEF OperandOf
  <2>7. CASE ~HasRaw(sb, r)
    <3>1. r # 0 => \A j \in 1 .. i - 1 : full[j].rd # r
      BY <2>1, <2>4, <2>7, Basics DEF HasRaw
    <3>2. full[i].opa = Read(mem, win, r)
      BY <2>3, <2>7 DEF Operand
    <3>3. r = 0 => full[i].opa = 0
      BY <3>2 DEF Read
    <3> QED BY <2>3, <3>1, <3>2, <3>3 DEF OperandOf
  <2> QED BY <2>6, <2>7
<1> QED BY <1>2, <1>3

LEMMA PushRacing ==
  ASSUME IInv, NEW c \in BOOLEAN, NEW new \in Issue(c)
  PROVE  RacingMarked(sb \o new)
<1> DEFINE full == sb \o new
<1>0. /\ Len(sb) \in Nat /\ Len(new) \in {0, 1} /\ Len(full) = Len(sb) + Len(new)
      /\ \A i \in 1 .. Len(sb) : full[i] = sb[i]
      /\ Len(new) = 1 =>
           \E ins : /\ MayIssue(ins, c)
                    /\ full[Len(sb) + 1] = Issued(ins.op, ins.rs, ins.rd, ins.v)
  BY Push, Basics
<1> HIDE DEF full
<1>1. SUFFICES ASSUME NEW i \in 1 .. Len(full), NEW j \in 1 .. Len(full),
                      i < j, full[i].op = "csrw800"
               PROVE  full[j].racing
  BY DEF RacingMarked, full
<1>2. CASE j <= Len(sb)
  <2>1. i \in 1 .. Len(sb) /\ j \in 1 .. Len(sb)
    BY <1>0, <1>1, <1>2, SMT
  <2> QED BY <1>0, <1>1, <2>1 DEF IInv, RacingMarked
<1>3. CASE ~(j <= Len(sb))
  <2>1. j = Len(sb) + 1 /\ Len(new) = 1
    BY <1>0, <1>3, LastPosition
  <2>2. i \in 1 .. Len(sb)
    BY <1>0, <1>1, <2>1, SMT
  <2>3. PICK ins : full[j] = Issued(ins.op, ins.rs, ins.rd, ins.v)
    BY <1>0, <2>1
  <2>4. \E k \in DOMAIN sb : sb[k].op = "csrw800"
    BY <1>0, <1>1, <2>2, Basics
  <2> QED BY <2>3, <2>4 DEF Issued
<1> QED BY <1>2, <1>3

LEMMA PushSerial ==
  ASSUME IInv, NEW new \in Issue(FALSE)
  PROVE  Serial(sb \o new)
<1> DEFINE full == sb \o new
<1>0. /\ Len(sb) \in Nat /\ Len(new) \in {0, 1} /\ Len(full) = Len(sb) + Len(new)
      /\ \A i \in 1 .. Len(sb) : full[i] = sb[i]
      /\ Len(new) = 1 =>
           \E ins : /\ MayIssue(ins, FALSE)
                    /\ full[Len(sb) + 1] = Issued(ins.op, ins.rs, ins.rd, ins.v)
  BY Push, Basics
<1> HIDE DEF full
<1>1. SUFFICES ASSUME NEW i \in 1 .. Len(full), NEW j \in 1 .. Len(full),
                      i < j, full[i].op \in CsrOps
               PROVE  full[j].op = "LOAD"
  BY DEF Serial, full
<1>2. CASE j <= Len(sb)
  <2>1. i \in 1 .. Len(sb) /\ j \in 1 .. Len(sb)
    BY <1>0, <1>1, <1>2, SMT
  <2> QED BY <1>0, <1>1, <2>1 DEF IInv, Serial
<1>3. CASE ~(j <= Len(sb))
  <2>1. j = Len(sb) + 1 /\ Len(new) = 1
    BY <1>0, <1>3, LastPosition
  <2>2. i \in 1 .. Len(sb)
    BY <1>0, <1>1, <2>1, SMT
  <2>3. PICK ins : /\ MayIssue(ins, FALSE)
                   /\ full[j] = Issued(ins.op, ins.rs, ins.rd, ins.v)
    BY <1>0, <2>1
  <2>4. CsrPending
    BY <1>0, <1>1, <2>2, Basics DEF CsrPending
  <2> QED BY <2>3, <2>4 DEF MayIssue, UnitFree, Issued
<1> QED BY <1>2, <1>3

\* What is true of all pairs of entries stays true when the oldest leave.
LEMMA ShiftPairs ==
  ASSUME NEW s \in Seq(Entries), NEW u \in Seq(Entries), NEW n \in Nat,
         Len(u) = Len(s) - n, \A i \in 1 .. Len(u) : u[i] = s[i + n]
  PROVE  (RacingMarked(s) => RacingMarked(u)) /\ (Serial(s) => Serial(u))
<1>0. Len(s) \in Nat /\ Len(u) \in Nat
  BY LenProperties
<1>1. \A i, j \in 1 .. Len(u) :
        i < j => /\ i + n \in 1 .. Len(s) /\ j + n \in 1 .. Len(s) /\ i + n < j + n
                 /\ u[i] = s[i + n] /\ u[j] = s[j + n]
  BY <1>0, SMT
<1> QED BY <1>1 DEF RacingMarked, Serial

\* n entries leave and at most one enters.
LEMMA Popped ==
  ASSUME IInv, NEW c \in BOOLEAN, NEW new \in Issue(c),
         NEW n \in Nat, n <= Len(sb), sb' = SubSeq(sb, n + 1, Len(sb)) \o new
  PROVE  /\ sb' \in Seq(Entries) /\ Len(sb') <= NR_SB_ENTRIES
         /\ Len(sb') = Len(sb) - n + Len(new)
         /\ Len(sb') = Len(sb \o new) - n
         /\ \A i \in 1 .. Len(sb') : sb'[i] = (sb \o new)[i + n]
         /\ RacingMarked(sb')
         /\ c = FALSE => Serial(sb')
<1>1. /\ new \in Seq(Entries) /\ Len(new) \in {0, 1} /\ Len(sb) \in Nat
      /\ sb \in Seq(Entries) /\ sb \o new \in Seq(Entries)
      /\ Len(sb \o new) = Len(sb) + Len(new)
      /\ Len(sb) + Len(new) <= NR_SB_ENTRIES
  BY Push, Basics
<1>2. /\ sb' \in Seq(Entries)
      /\ Len(sb') = Len(sb) - n + Len(new)
      /\ \A i \in 1 .. Len(sb) - n + Len(new) : sb'[i] = (sb \o new)[i + n]
  BY <1>1, Shifted
<1>3. Len(sb') = Len(sb \o new) - n /\ Len(sb') <= NR_SB_ENTRIES
  <2>1. Len(new) \in Nat BY <1>1
  <2> QED BY <1>1, <1>2, <2>1, Sizes, SMT
<1>4. \A i \in 1 .. Len(sb') : sb'[i] = (sb \o new)[i + n]
  BY <1>2
<1>5. (RacingMarked(sb \o new) => RacingMarked(sb')) /\ (Serial(sb \o new) => Serial(sb'))
  <2> DEFINE full == sb \o new
             u == sb'
  <2>1. /\ full \in Seq(Entries) /\ u \in Seq(Entries) /\ Len(u) = Len(full) - n
        /\ \A i \in 1 .. Len(u) : u[i] = full[i + n]
    BY <1>1, <1>2, <1>3, <1>4
  <2> HIDE DEF full, u
  <2>2. (RacingMarked(full) => RacingMarked(u)) /\ (Serial(full) => Serial(u))
    BY <2>1, ShiftPairs
  <2> QED BY <2>2 DEF full, u
<1>6. RacingMarked(sb')
  BY <1>5, PushRacing
<1>7. c = FALSE => Serial(sb')
  BY <1>5, PushSerial
<1> QED BY <1>2, <1>3, <1>4, <1>6, <1>7

\* A CSR instruction leaves: all that is left of the old entries are loads.
LEMMA CsrPopped ==
  ASSUME IInv, NEW new \in Issue(TRUE), 1 <= Len(sb), sb[1].op \in CsrOps,
         sb' = SubSeq(sb, 1 + 1, Len(sb)) \o new
  PROVE  Serial(sb')
<1>0. 1 \in Nat OBVIOUS
<1>1. /\ Len(sb') = Len(sb) - 1 + Len(new)
      /\ \A i \in 1 .. Len(sb') : sb'[i] = (sb \o new)[i + 1]
  BY <1>0, Popped
<1>2. /\ Len(sb) \in Nat /\ Len(new) \in {0, 1}
      /\ \A i \in 1 .. Len(sb) : (sb \o new)[i] = sb[i]
  BY Push, Basics
<1>3. SUFFICES ASSUME NEW i \in 1 .. Len(sb'), NEW j \in 1 .. Len(sb'), i < j
               PROVE  sb'[i].op \notin CsrOps
  BY DEF Serial
<1>4. i + 1 \in 1 .. Len(sb) /\ 1 \in 1 .. Len(sb) /\ 1 < i + 1
  <2>1. \A a \in Nat : \A b \in {0, 1} : \A x, y \in 1 .. a - 1 + b :
          1 <= a /\ x < y => x + 1 \in 1 .. a /\ 1 \in 1 .. a /\ 1 < x + 1
    BY SMT
  <2>2. i \in 1 .. Len(sb) - 1 + Len(new) /\ j \in 1 .. Len(sb) - 1 + Len(new)
    BY <1>1
  <2> QED BY <1>2, <1>3, <2>1, <2>2
<1>5. sb'[i] = sb[i + 1]
  BY <1>1, <1>2, <1>4
<1>6. sb[i + 1].op = "LOAD"
  BY <1>4 DEF IInv, Serial
<1> QED BY <1>5, <1>6 DEF CsrOps

\* Commit port 1 with its write.
LEMMA RetireOne ==
  ASSUME IInv, NEW c \in BOOLEAN, NEW new \in Issue(c), 1 <= Len(sb),
         sb' = SubSeq(sb, 1 + 1, Len(sb)) \o new,
         NEW v \in Word, sb[1].op \in CsrOps \/ v = sb[1].result
  PROVE  /\ Write(mem, win, sb[1].rd, v) \in [Phys -> Word]
         /\ Operands(Write(mem, win, sb[1].rd, v), win, sb')
<1> DEFINE full == sb \o new
<1>0. 1 \in Nat OBVIOUS
<1>1. /\ sb' \in Seq(Entries) /\ Len(sb') = Len(full) - 1
      /\ \A i \in 1 .. Len(sb') : sb'[i] = full[i + 1]
  BY <1>0, Popped
<1>2. /\ full \in Seq(Entries) /\ Len(full) \in Nat /\ Len(sb) <= Len(full)
      /\ \A i \in 1 .. Len(sb) : full[i] = sb[i]
  <2>1. /\ full \in Seq(Entries) /\ Len(full) = Len(sb) + Len(new)
        /\ Len(new) \in {0, 1} /\ Len(sb) \in Nat
        /\ \A i \in 1 .. Len(sb) : full[i] = sb[i]
    BY Push, Basics
  <2>2. Len(new) \in Nat BY <2>1
  <2> QED BY <2>1, <2>2, SMT
<1>3. Operands(mem, win, full)
  BY PushOperands
<1> HIDE DEF full
<1>4. 1 \in 1 .. Len(sb) /\ Len(full) >= 1
  BY <1>2, Basics, SMT
<1>5. full[1] = sb[1] /\ sb[1] \in Entries
  BY <1>2, <1>4, Basics
<1>6. sb[1].rd \in Regs
  BY <1>5 DEF Entries
<1>7. Write(mem, win, sb[1].rd, v) \in [Phys -> Word]
  BY <1>6, Basics, WriteType
<1>8. Operands(Write(mem, win, full[1].rd, v), win, sb')
  BY <1>1, <1>2, <1>3, <1>4, <1>5, Basics, Retire
<1> QED BY <1>5, <1>7, <1>8

-----------------------------------------------------------------------------
\* One lemma per action.

\* After a flush only the register file and the CSRs matter.
LEMMA Flushed ==
  ASSUME mem' \in [Phys -> Word], window_config_q' \in Word, prev_window_config_q' \in Word,
         sb' = <<>>
  PROVE  IInv'
<1>1. sb' \in Seq(Entries) /\ Len(sb') = 0
  BY EmptySeq
<1>2. 1 .. Len(sb') = {}
  BY <1>1, SMT
<1>3. PipeTypeOK'
  <2>1. Len(sb') <= NR_SB_ENTRIES BY <1>1, Sizes, SMT
  <2> QED BY <1>1, <2>1 DEF PipeTypeOK
<1>4. Serial(sb)' /\ RacingMarked(sb)' /\ Operands(mem, win, sb)'
  BY <1>2 DEF Serial, RacingMarked, Operands
<1> QED BY <1>3, <1>4 DEF IInv

LEMMA InitInv == PipeInit => IInv
<1> SUFFICES ASSUME PipeInit PROVE IInv
  OBVIOUS
<1>1. sb = <<>> /\ sb \in Seq(Entries) /\ Len(sb) = 0
  BY EmptySeq DEF PipeInit
<1>2. 1 .. Len(sb) = {}
  BY <1>1, SMT
<1>3. mem \in [Phys -> Word] /\ window_config_q \in Word /\ prev_window_config_q \in Word
  BY WordNat DEF PipeInit, Init
<1>4. PipeTypeOK
  <2>1. Len(sb) <= NR_SB_ENTRIES BY <1>1, Sizes, SMT
  <2> QED BY <1>1, <1>3, <2>1 DEF PipeTypeOK
<1>5. Serial(sb) /\ RacingMarked(sb) /\ Operands(mem, win, sb)
  BY <1>2 DEF Serial, RacingMarked, Operands
<1> QED BY <1>4, <1>5 DEF IInv

LEMMA ResetStep ==
  ASSUME IInv, PipeReset
  PROVE  IInv'
<1>1. mem' \in [Phys -> Word] /\ window_config_q' \in Word /\ prev_window_config_q' \in Word
  BY WordNat DEF PipeReset, Reset
<1> QED BY <1>1, Flushed DEF PipeReset

\* A result that comes back was not forwarded before.
LEMMA WritebackStep ==
  ASSUME IInv, NEW i \in DOMAIN sb, NEW v \in Data, NEW ex \in BOOLEAN, Writeback(i, v, ex)
  PROVE  IInv'
<1> DEFINE e == [sb[i] EXCEPT !.valid = TRUE, !.result = v, !.ex = ex]
<1>0. /\ i \in 1 .. Len(sb) /\ sb[i] \in Entries /\ ~sb[i].valid /\ v \in Word
      /\ sb' = [sb EXCEPT ![i] = e]
      /\ mem' = mem /\ win' = win
      /\ window_config_q' = window_config_q /\ prev_window_config_q' = prev_window_config_q
  BY Basics, WordNat DEF Writeback, vars, win
<1>1. /\ e \in Entries /\ e.op = sb[i].op /\ e.rs = sb[i].rs /\ e.opa = sb[i].opa
      /\ e.rd = sb[i].rd /\ e.racing = sb[i].racing
  BY <1>0 DEF Entries
<1> HIDE DEF e
<1>2. /\ sb' \in Seq(Entries) /\ Len(sb') = Len(sb)
      /\ \A j \in 1 .. Len(sb) : sb'[j] = IF j = i THEN e ELSE sb[j]
  BY <1>0, <1>1, Basics, ExceptSeq
<1>3. \A j \in 1 .. Len(sb) :
        /\ sb'[j].op = sb[j].op /\ sb'[j].rs = sb[j].rs /\ sb'[j].opa = sb[j].opa
        /\ sb'[j].rd = sb[j].rd /\ sb'[j].racing = sb[j].racing
  BY <1>1, <1>2
<1>4. PipeTypeOK'
  BY <1>0, <1>2, Basics DEF PipeTypeOK
<1>5. Serial(sb)' /\ RacingMarked(sb)'
  BY <1>2, <1>3 DEF IInv, Serial, RacingMarked
<1>6. Operands(mem, win, sb)'
  <2>1. SUFFICES ASSUME NEW k \in 1 .. Len(sb), ~sb[k].racing, InWindow(win, sb[k].rs)
                 PROVE  OperandOf(mem, win, sb', k)
    BY <1>0, <1>2, <1>3 DEF Operands
  <2>2. OperandOf(mem, win, sb, k)
    BY <2>1 DEF IInv, Operands
  <2>3. /\ \A j \in 1 .. k - 1 : j \in 1 .. Len(sb)
        /\ \A j \in 1 .. k - 1 : \A l \in j + 1 .. k - 1 : l \in 1 .. Len(sb)
    BY Basics, SMT
  <2>4. ASSUME NEW j \in 1 .. k - 1, sb[k].rs # 0, sb[j].rd = sb[k].rs,
               \A l \in j + 1 .. k - 1 : sb[l].rd # sb[k].rs
        PROVE  Forwardable(sb'[j]) /\ sb[k].opa = sb'[j].result
    <3>1. Forwardable(sb[j]) /\ sb[k].opa = sb[j].result
      BY <2>2, <2>4 DEF OperandOf
    <3>2. j # i
      BY <1>0, <3>1 DEF Forwardable
    <3> QED BY <1>2, <2>3, <3>1, <3>2
  <2>5. \A j \in 1 .. k - 1 : sb'[j].rd = sb[j].rd
    BY <1>3, <2>3
  <2>6. \A j \in 1 .. k - 1 : \A l \in j + 1 .. k - 1 : sb'[l].rd = sb[l].rd
    BY <1>3, <2>3
  <2>7. sb'[k].rs = sb[k].rs /\ sb'[k].opa = sb[k].opa
    BY <1>3
  <2> QED BY <2>2, <2>4, <2>5, <2>6, <2>7 DEF OperandOf
<1> QED BY <1>4, <1>5, <1>6 DEF IInv

LEMMA IssueOnlyStep ==
  ASSUME IInv, IssueOnly
  PROVE  IInv'
<1>1. PICK new \in Issue(FALSE) : sb' = SubSeq(sb, 0 + 1, Len(sb)) \o new
  BY DEF IssueOnly, Advance
<1>2. 0 \in Nat /\ 0 <= Len(sb) /\ FALSE \in BOOLEAN
  BY Basics, SMT
<1>3. /\ sb' \in Seq(Entries) /\ Len(sb') <= NR_SB_ENTRIES
      /\ RacingMarked(sb') /\ Serial(sb')
  BY <1>1, <1>2, Popped
<1>4. sb' = sb \o new
  <2>1. SubSeq(sb, 0 + 1, Len(sb)) = sb
    BY Basics, SubSeqFull
  <2> QED BY <1>1, <2>1
<1>5. /\ mem' = mem /\ win' = win
      /\ window_config_q' = window_config_q /\ prev_window_config_q' = prev_window_config_q
  BY DEF IssueOnly, vars, win
<1>6. Operands(mem', win', sb')
  BY <1>2, <1>4, <1>5, PushOperands
<1>7. PipeTypeOK'
  BY <1>3, <1>5, Basics DEF PipeTypeOK
<1> QED BY <1>3, <1>6, <1>7 DEF IInv

LEMMA NonEmpty ==
  ASSUME IInv, sb # <<>>
  PROVE  /\ 1 <= Len(sb) /\ 1 \in Nat /\ sb[1] \in Entries
         /\ sb[1].rd \in Regs /\ sb[1].result \in Word
<1>1. Len(sb) \in Nat \ {0}
  BY Basics, EmptySeq
<1>2. 1 <= Len(sb) /\ 1 \in 1 .. Len(sb)
  BY <1>1, SMT
<1>3. sb[1] \in Entries
  BY <1>2, Basics
<1> QED BY <1>2, <1>3 DEF Entries

LEMMA CommitOneStep ==
  ASSUME IInv, CommitOne
  PROVE  IInv'
<1>1. PICK new \in Issue(FALSE) : sb' = SubSeq(sb, 1 + 1, Len(sb)) \o new
  BY DEF CommitOne, Advance
<1>2. sb # <<>> /\ FALSE \in BOOLEAN
  BY DEF CommitOne
<1>3. /\ sb' \in Seq(Entries) /\ Len(sb') <= NR_SB_ENTRIES
      /\ RacingMarked(sb') /\ Serial(sb')
  BY <1>1, <1>2, NonEmpty, Popped
<1>4. /\ mem' = Write(mem, win, sb[1].rd, sb[1].result) /\ win' = win
      /\ window_config_q' = window_config_q /\ prev_window_config_q' = prev_window_config_q
  BY DEF CommitOne, win
<1>5. mem' \in [Phys -> Word] /\ Operands(mem', win', sb')
  BY <1>1, <1>2, <1>4, NonEmpty, RetireOne
<1>6. PipeTypeOK'
  BY <1>3, <1>4, <1>5, Basics DEF PipeTypeOK
<1> QED BY <1>3, <1>5, <1>6 DEF IInv

\* Two retirements, one after the other.
LEMMA CommitTwoStep ==
  ASSUME IInv, CommitTwo
  PROVE  IInv'
<1>1. PICK new \in Issue(FALSE) : sb' = SubSeq(sb, 2 + 1, Len(sb)) \o new
  BY DEF CommitTwo, Advance
<1> DEFINE full == sb \o new
           mid == Tail(full)
<1>2. 2 \in Nat /\ 2 <= Len(sb) /\ FALSE \in BOOLEAN
  BY Basics, SMT DEF CommitTwo
<1>3. /\ sb' \in Seq(Entries) /\ Len(sb') <= NR_SB_ENTRIES
      /\ RacingMarked(sb') /\ Serial(sb')
      /\ Len(sb') = Len(full) - 2
      /\ \A i \in 1 .. Len(sb') : sb'[i] = full[i + 2]
  BY <1>1, <1>2, Popped
<1>4. /\ full \in Seq(Entries) /\ Len(full) \in Nat /\ 2 <= Len(full)
      /\ \A i \in 1 .. Len(sb) : full[i] = sb[i]
  <2>1. /\ full \in Seq(Entries) /\ Len(full) = Len(sb) + Len(new)
        /\ Len(new) \in {0, 1} /\ Len(sb) \in Nat
        /\ \A i \in 1 .. Len(sb) : full[i] = sb[i]
    BY <1>2, Push, Basics
  <2>2. Len(new) \in Nat BY <2>1
  <2> QED BY <1>2, <2>1, <2>2, SMT
<1>5. Operands(mem, win, full)
  BY <1>2, PushOperands
<1> HIDE DEF full
<1>6. /\ mid \in Seq(Entries) /\ Len(mid) = Len(full) - 1
      /\ \A i \in 1 .. Len(mid) : mid[i] = full[i + 1]
  <2>1. full # <<>>
    <3>1. Len(full) # 0 BY <1>4, SMT
    <3> QED BY <3>1, EmptySeq
  <2> QED BY <1>4, <2>1, HeadTailProperties
<1> HIDE DEF mid
<1>7. /\ 1 \in 1 .. Len(sb) /\ 2 \in 1 .. Len(sb) /\ Len(full) >= 1 /\ Len(mid) >= 1
      /\ Len(mid) \in Nat /\ 1 \in 1 .. Len(mid) /\ 1 + 1 = 2
      /\ Len(sb') = Len(mid) - 1
  BY <1>2, <1>3, <1>4, <1>6, Basics, SMT
<1>8. full[1] = sb[1] /\ mid[1] = sb[2] /\ sb[1] \in Entries /\ sb[2] \in Entries
  BY <1>4, <1>6, <1>7, Basics
<1>9. sb[1].rd \in Regs /\ sb[1].result \in Word /\ sb[2].rd \in Regs /\ sb[2].result \in Word
  BY <1>8 DEF Entries
<1> DEFINE m1 == Write(mem, win, sb[1].rd, sb[1].result)
<1>10. m1 \in [Phys -> Word] /\ Operands(m1, win, mid)
  BY <1>4, <1>5, <1>6, <1>7, <1>8, <1>9, Basics, WriteType, Retire
<1> HIDE DEF m1
<1>11. \A i \in 1 .. Len(sb') : sb'[i] = mid[i + 1]
  <2> SUFFICES ASSUME NEW i \in 1 .. Len(sb') PROVE sb'[i] = mid[i + 1]
    OBVIOUS
  <2>1. i + 1 \in 1 .. Len(mid) /\ (i + 1) + 1 = i + 2
    BY <1>7, SMT
  <2> QED BY <1>3, <1>6, <2>1
<1>12. /\ Write(m1, win, sb[2].rd, sb[2].result) \in [Phys -> Word]
       /\ Operands(Write(m1, win, sb[2].rd, sb[2].result), win, sb')
  BY <1>3, <1>6, <1>7, <1>8, <1>9, <1>10, <1>11, Basics, WriteType, Retire
<1>13. /\ mem' = Write(m1, win, sb[2].rd, sb[2].result) /\ win' = win
       /\ window_config_q' = window_config_q /\ prev_window_config_q' = prev_window_config_q
  BY DEF CommitTwo, win, m1
<1>14. PipeTypeOK'
  BY <1>3, <1>12, <1>13, Basics DEF PipeTypeOK
<1>15. Operands(mem', win', sb')
  BY <1>12, <1>13
<1> QED BY <1>3, <1>14, <1>15 DEF IInv

\* Everything that stays in flight when csrw 0x800 commits is marked.
LEMMA Csrw800Races ==
  ASSUME IInv, CommitCsrw800
  PROVE  \A i \in 1 .. Len(sb') : sb'[i].racing
<1>1. PICK new \in Issue(TRUE) : sb' = SubSeq(sb, 1 + 1, Len(sb)) \o new
  BY DEF CommitCsrw800, Advance
<1>2. sb # <<>> /\ sb[1].op = "csrw800" /\ TRUE \in BOOLEAN
  BY DEF CommitCsrw800
<1> DEFINE full == sb \o new
<1>3. /\ sb' \in Seq(Entries) /\ Len(sb') = Len(full) - 1
      /\ \A i \in 1 .. Len(sb') : sb'[i] = full[i + 1]
  BY <1>1, <1>2, NonEmpty, Popped
<1>4. /\ full \in Seq(Entries)
      /\ \A i \in 1 .. Len(sb) : full[i] = sb[i]
      /\ RacingMarked(full)
  BY <1>2, Push, PushRacing
<1> HIDE DEF full
<1>5. Len(full) \in Nat /\ Len(sb') \in Nat
  BY <1>3, <1>4, LenProperties
<1>6. 1 \in 1 .. Len(sb) /\ full[1].op = "csrw800"
  <2>1. 1 \in 1 .. Len(sb) BY <1>2, NonEmpty, Basics, SMT
  <2> QED BY <1>2, <1>4, <2>1
<1>7. SUFFICES ASSUME NEW i \in 1 .. Len(sb') PROVE sb'[i].racing
  OBVIOUS
<1>8. i + 1 \in 1 .. Len(full) /\ 1 \in 1 .. Len(full) /\ 1 < i + 1
  BY <1>3, <1>5, SMT
<1> QED BY <1>3, <1>4, <1>6, <1>8 DEF RacingMarked

LEMMA CommitCsrw800Step ==
  ASSUME IInv, CommitCsrw800
  PROVE  IInv'
<1>1. PICK new \in Issue(TRUE) : sb' = SubSeq(sb, 1 + 1, Len(sb)) \o new
  BY DEF CommitCsrw800, Advance
<1>2. /\ sb # <<>> /\ sb[1].op \in CsrOps /\ TRUE \in BOOLEAN
      /\ mem' = Write(mem, win, sb[1].rd, window_config_q)
      /\ window_config_q' = sb[1].result /\ prev_window_config_q' = prev_window_config_q
  BY DEF CommitCsrw800, CsrOps
<1>3. /\ sb' \in Seq(Entries) /\ Len(sb') <= NR_SB_ENTRIES
      /\ RacingMarked(sb') /\ Serial(sb')
  BY <1>1, <1>2, NonEmpty, Popped, CsrPopped
<1>4. mem' \in [Phys -> Word] /\ window_config_q' \in Word
  BY <1>2, NonEmpty, Basics, WriteType
<1>5. PipeTypeOK'
  BY <1>2, <1>3, <1>4, Basics DEF PipeTypeOK
<1>6. Operands(mem', win', sb')
  BY Csrw800Races DEF Operands
<1> QED BY <1>3, <1>5, <1>6 DEF IInv

LEMMA CommitCsrw801Step ==
  ASSUME IInv, CommitCsrw801
  PROVE  IInv'
<1>1. PICK new \in Issue(TRUE) : sb' = SubSeq(sb, 1 + 1, Len(sb)) \o new
  BY DEF CommitCsrw801, Advance
<1>2. /\ sb # <<>> /\ sb[1].op \in CsrOps /\ TRUE \in BOOLEAN
      /\ mem' = Write(mem, win, sb[1].rd, prev_window_config_q) /\ win' = win
      /\ prev_window_config_q' = sb[1].result /\ window_config_q' = window_config_q
  BY DEF CommitCsrw801, CsrOps, win
<1>3. /\ sb' \in Seq(Entries) /\ Len(sb') <= NR_SB_ENTRIES
      /\ RacingMarked(sb') /\ Serial(sb')
  BY <1>1, <1>2, NonEmpty, Popped, CsrPopped
<1>4. mem' \in [Phys -> Word] /\ Operands(mem', win', sb')
  BY <1>1, <1>2, NonEmpty, Basics, RetireOne
<1>5. PipeTypeOK'
  BY <1>2, <1>3, <1>4, NonEmpty, Basics DEF PipeTypeOK
<1> QED BY <1>3, <1>4, <1>5 DEF IInv

LEMMA CommitCsrStep ==
  ASSUME IInv, NEW v \in Data, CommitCsr(v)
  PROVE  IInv'
<1>1. /\ sb # <<>> /\ sb[1].op \in CsrOps /\ TRUE \in BOOLEAN /\ v \in Word
      /\ mem' = Write(mem, win, sb[1].rd, v) /\ win' = win
      /\ prev_window_config_q' = prev_window_config_q /\ window_config_q' = window_config_q
  BY WordNat DEF CommitCsr, CsrOps, win
<1>2. CASE sb' = <<>>
  <2>1. mem' \in [Phys -> Word]
    BY <1>1, NonEmpty, Basics, WriteType
  <2> QED BY <1>1, <1>2, <2>1, Basics, Flushed
<1>3. CASE Advance(1, TRUE)
  <2>1. PICK new \in Issue(TRUE) : sb' = SubSeq(sb, 1 + 1, Len(sb)) \o new
    BY <1>3 DEF Advance
  <2>2. /\ sb' \in Seq(Entries) /\ Len(sb') <= NR_SB_ENTRIES
        /\ RacingMarked(sb') /\ Serial(sb')
    BY <1>1, <2>1, NonEmpty, Popped, CsrPopped
  <2>3. mem' \in [Phys -> Word] /\ Operands(mem', win', sb')
    BY <1>1, <2>1, NonEmpty, Basics, RetireOne
  <2>4. PipeTypeOK'
    BY <1>1, <2>2, <2>3, Basics DEF PipeTypeOK
  <2> QED BY <2>2, <2>3, <2>4 DEF IInv
<1> QED BY <1>2, <1>3 DEF CommitCsr

LEMMA CommitMretStep ==
  ASSUME IInv, CommitMret
  PROVE  IInv'
<1>1. 0 \in Regs /\ 0 \in Word
  BY Sizes, WordNat, SMT DEF Regs
<1>2. mem' \in [Phys -> Word] /\ window_config_q' \in Word /\ prev_window_config_q' \in Word
  BY <1>1, Basics, WriteType DEF CommitMret
<1> QED BY <1>2, Flushed DEF CommitMret

LEMMA TakeExceptionStep ==
  ASSUME IInv, TakeException
  PROVE  IInv'
<1>1. mem' \in [Phys -> Word] /\ window_config_q' \in Word /\ prev_window_config_q' \in Word
  BY Basics, WordNat DEF TakeException, Trap
<1> QED BY <1>1, Flushed DEF TakeException

LEMMA NextStep ==
  ASSUME IInv, PipeNext
  PROVE  IInv'
BY ResetStep, WritebackStep, IssueOnlyStep, CommitOneStep, CommitTwoStep, CommitCsrw800Step,
   CommitCsrw801Step, CommitCsrStep, CommitMretStep, TakeExceptionStep DEF PipeNext

LEMMA Invariance == PipeSpec => []IInv
<1>1. IInv /\ UNCHANGED pipeVars => IInv'
  BY DEF IInv, PipeTypeOK, Serial, RacingMarked, Operands, OperandOf, win, pipeVars, vars
<1> QED BY <1>1, InitInv, NextStep, PTL DEF PipeSpec

-----------------------------------------------------------------------------
\* Type correctness: registers and CSRs hold words, the scoreboard never overflows.
THEOREM TypeCorrect == PipeSpec => []PipeTypeOK
<1>1. IInv => PipeTypeOK
  BY DEF IInv
<1> QED BY <1>1, Invariance, PTL

\* The CSR buffer serialises CSR instructions and what follows them.
THEOREM Serialisation == PipeSpec => []CsrSerialises
<1>1. IInv => CsrSerialises
  <2> SUFFICES ASSUME IInv PROVE CsrSerialises
    OBVIOUS
  <2>1. DOMAIN sb = 1 .. Len(sb) BY Basics
  <2> QED BY <2>1 DEF IInv, Serial, CsrSerialises
<1> QED BY <1>1, Invariance, PTL

\* The pipeline gives every instruction the operand that sequential execution
\* gives it, whatever is forwarded, for every window that contains the register.
THEOREM Sequential == PipeSpec => []RetiresArchitecturally
<1>1. IInv => RetiresArchitecturally
  <2> SUFFICES ASSUME IInv, sb # <<>>, ~sb[1].racing, InWindow(win, sb[1].rs)
               PROVE  sb[1].opa = Read(mem, win, sb[1].rs)
    BY DEF RetiresArchitecturally
  <2>1. 1 \in 1 .. Len(sb) /\ 1 .. 1 - 1 = {}
    BY NonEmpty, Basics, SMT
  <2>2. OperandOf(mem, win, sb, 1)
    BY <2>1 DEF IInv, Operands
  <2>3. CASE sb[1].rs = 0
    BY <2>2, <2>3 DEF OperandOf, Read
  <2>4. CASE sb[1].rs # 0
    BY <2>1, <2>2, <2>4 DEF OperandOf
  <2> QED BY <2>3, <2>4
<1> QED BY <1>1, Invariance, PTL

\* Only csrw 0x800 changes the window under instructions in flight.
THEOREM MappingAlone == PipeSpec => MappingChangesAlone
<1>1. IInv /\ [PipeNext]_pipeVars =>
        [window_config_q' # window_config_q => \A i \in DOMAIN sb' : sb'[i].racing]_pipeVars
  <2> SUFFICES ASSUME IInv, PipeNext, window_config_q' # window_config_q
               PROVE  \A i \in DOMAIN sb' : sb'[i].racing
    OBVIOUS
  <2>0. DOMAIN sb' = 1 .. Len(sb')
    <3>1. sb' \in Seq(Entries) BY NextStep DEF IInv, PipeTypeOK
    <3> QED BY <3>1, LenProperties
  <2>1. CASE sb' = <<>>
    <3>1. 1 .. Len(sb') = {} BY <2>1, EmptySeq, SMT
    <3> QED BY <2>0, <3>1
  <2>2. CASE CommitCsrw800
    BY <2>0, <2>2, Csrw800Races
  <2>3. CASE ~(CommitCsrw800 \/ sb' = <<>>)
    <3>1. window_config_q' = window_config_q
      BY <2>3 DEF PipeNext, PipeReset, Writeback, IssueOnly, CommitOne, CommitTwo,
                  CommitCsrw801, CommitCsr, CommitMret, TakeException, vars
    <3> QED BY <3>1
  <2> QED BY <2>1, <2>2, <2>3
<1> QED BY <1>1, Invariance, PTL DEF PipeSpec, MappingChangesAlone
=============================================================================
