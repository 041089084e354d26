----------------------------- MODULE SpikeWindow ----------------------------
(***************************************************************************)
(* The register-window extension of the Spike simulator: regfile_t         *)
(* (decode.h), the window CSRs, take_trap and reset (processor.cc), and    *)
(* mret (insns/mret.h). The mapping in force is the regfile's own          *)
(* base_offset and window_size; CSR 0x800 is a copy that only mret and     *)
(* csrw 0x800 touch.                                                       *)
(***************************************************************************)
EXTENDS WindowConfig

CONSTANTS
  NXPR,      \* physical integer registers (64 in the build)
  NREG,      \* registers an instruction can name (32)
  SizeT,     \* 2^64: set_window_config subtracts in size_t
  Data,      \* register contents that are told apart; 0 is one of them
  Configs    \* configuration words software may write to a window CSR

ASSUME SpikeAssumption ==
  /\ NXPR \in Nat /\ NREG \in 1 .. 32 /\ NREG <= NXPR
  /\ SizeT \in Nat /\ NXPR < SizeT /\ Half < SizeT
  /\ Data \subseteq Int /\ 0 \in Data
  /\ Configs \subseteq Nat

VARIABLES
  data,                    \* the physical registers
  xpr,                     \* [base, size]: base_offset and window_size of the regfile
  window_active,           \* what csrr 0x800 returns
  window_staged,           \* what csrr 0x801 returns
  previous_window_config   \* written by take_trap, read by nobody

vars == <<data, xpr, window_active, window_staged, previous_window_config>>

Phys == 0 .. NXPR - 1
Regs == 0 .. NREG - 1

-----------------------------------------------------------------------------
\* A base beyond the file keeps the old one, and the size then wraps around.
set_window_config(win, base, size) ==
  [base |-> IF base < NXPR THEN base ELSE win.base,
   size |-> IF (base + size) % SizeT > NXPR
            THEN (NXPR - base) % SizeT
            ELSE size]

\* window_config_csr_t::write: size 0 means all 32 nameable registers.
window_config_write(win, cfg) ==
  set_window_config(win, window_base(cfg),
                    IF window_size(cfg) = 0 THEN NREG ELSE window_size(cfg))

\* Seeded fault: one register too many.
MappedOneMore(win, r) == /\ r <= win.size
                         /\ r + win.base < NXPR

Mapped(win, r) == /\ r < win.size
                  /\ r + win.base < NXPR

\* regfile_t::operator[]
Read(d, win, r) ==
  IF r # 0 /\ Mapped(win, r) THEN d[r + win.base] ELSE d[0]

\* Seeded fault: the write of x0 is dropped only at base 0, as in CVA6, and an
\* address past the file falls back on physical register 0.
WriteWrapped(d, win, r, v) ==
  IF r # 0 /\ r < win.size
  THEN [d EXCEPT ![IF r + win.base < NXPR THEN r + win.base ELSE 0] = v]
  ELSE d

\* regfile_t::write
Write(d, win, r, v) ==
  IF r # 0 /\ Mapped(win, r)
  THEN [d EXCEPT ![r + win.base] = v]
  ELSE d

-----------------------------------------------------------------------------
\* No code initialises window_active and window_staged.
Init ==
  /\ data = [p \in Phys |-> 0]
  /\ xpr = [base |-> 0, size |-> NXPR]
  /\ window_active \in Configs \cup {0}
  /\ window_staged \in Configs \cup {0}
  /\ previous_window_config = 0

\* processor_t::reset clears the regfile, not the staged and active words.
Reset ==
  /\ data' = [p \in Phys |-> 0]
  /\ xpr' = [base |-> 0, size |-> NXPR]
  /\ previous_window_config' = 0
  /\ UNCHANGED <<window_active, window_staged>>

\* An instruction with destination r retires.
Commit(r, v) ==
  /\ data' = Write(data, xpr, r, v)
  /\ UNCHANGED <<xpr, window_active, window_staged, previous_window_config>>

\* put_csr( 0x800 ): a copy, the mapping does not move.
CsrWrite800(cfg) ==
  /\ window_active' = cfg
  /\ UNCHANGED <<data, xpr, window_staged, previous_window_config>>

\* Seeded fault: the dump does not put the mapping back.
CsrWrite801NoRestore(cfg) ==
  /\ window_staged' = cfg
  /\ xpr' = set_window_config(set_window_config(xpr, 0, NREG), NREG, NREG)
  /\ UNCHANGED <<data, window_active, previous_window_config>>

\* put_csr( 0x801 ): stages the word; the dump moves the mapping over both
\* banks and puts it back.
CsrWrite801(cfg) ==
  /\ window_staged' = cfg
  /\ LET dumped == set_window_config(set_window_config(xpr, 0, NREG), NREG, NREG)
     IN  xpr' = set_window_config(dumped, xpr.base, xpr.size)
  /\ UNCHANGED <<data, window_active, previous_window_config>>

\* Seeded fault: the base of the interrupted window is subtracted.
TrapBadPack ==
  /\ previous_window_config' = 0 - xpr.base - xpr.size
  /\ xpr' = set_window_config(xpr, 0, NREG)
  /\ UNCHANGED <<data, window_active, window_staged>>

\* take_trap: the interrupted mapping goes to previous_window_config only.
Trap ==
  /\ previous_window_config' = ulWindowConfig(xpr.base, xpr.size)
  /\ xpr' = set_window_config(xpr, 0, NREG)
  /\ UNCHANGED <<data, window_active, window_staged>>

\* Seeded fault: mret copies the word to CSR 0x800, but leaves the kernel's
\* mapping in force.
MretCopyOnly ==
  /\ window_active' = window_staged
  /\ UNCHANGED <<data, xpr, window_staged, previous_window_config>>

\* mret applies the staged word twice: as it stands, then through CSR 0x800.
Mret ==
  /\ window_active' = window_staged
  /\ xpr' = window_config_write(
              set_window_config(xpr, window_base(window_staged),
                                window_size(window_staged)),
              window_staged)
  /\ UNCHANGED <<data, window_staged, previous_window_config>>

Next ==
  \/ Reset
  \/ \E r \in Regs, v \in Data : Commit(r, v)
  \/ \E cfg \in Configs : CsrWrite800(cfg) \/ CsrWrite801(cfg)
  \/ Trap
  \/ Mret

Spec == Init /\ [][Next]_vars

\* Every variable keeps its type; in particular base_offset stays in the file.
TypeOK ==
  /\ data \in [Phys -> Data]
  /\ xpr \in [base : Phys, size : 0 .. SizeT - 1]
  /\ window_active \in Configs \cup {0}
  /\ window_staged \in Configs \cup {0}
  /\ previous_window_config \in Nat

\* regfile_t returns data[0] for x0 and for a register outside the window; that
\* is 0 whatever windows - base past the file, wrapped size - were in force when
\* registers were written.
OutOfWindowReadsZero ==
  \A r \in Regs : r = 0 \/ ~Mapped(xpr, r) => Read(data, xpr, r) = 0

\* The register dump of put_csr( 0x801 ) moves the mapping over the whole file
\* and restores it through set_window_config: no register the program can name
\* reads differently afterwards, even when the size in force is a wrapped one.
DumpTransparent ==
  [][window_staged' # window_staged =>
       \A r \in Regs : Read(data, xpr, r)' = Read(data, xpr, r)]_vars
=============================================================================
