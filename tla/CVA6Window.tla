----------------------------- MODULE CVA6Window -----------------------------
(***************************************************************************)
(* The register-window extension of the CVA6 core: the partitioned integer *)
(* register file (ariane_regfile_ff.sv) and the two window CSRs with their *)
(* trap and mret side effects (csr_regfile.sv).                            *)
(***************************************************************************)
EXTENDS WindowConfig

CONSTANTS
  PHYSICAL_REGS,  \* physical integer registers (64 in the core)
  NREG,           \* registers an instruction can name (32: a 5-bit address)
  Data,           \* register contents that are told apart; 0 is one of them
  Configs         \* configuration words software may write to a window CSR

ASSUME CVA6Assumption ==
  /\ PHYSICAL_REGS \in Nat /\ NREG \in 1 .. 32 /\ NREG <= PHYSICAL_REGS
  /\ Data \subseteq Int /\ 0 \in Data
  /\ Configs \subseteq Nat

VARIABLES
  mem,                  \* the physical registers
  window_config_q,      \* CSR 0x800, the mapping in force
  prev_window_config_q  \* CSR 0x801

vars == <<mem, window_config_q, prev_window_config_q>>

Phys == 0 .. PHYSICAL_REGS - 1
Regs == 0 .. NREG - 1

\* The kernel's window: every register an instruction can name, at base 0.
DEFAULT_WINDOW_CONFIG == ulWindowConfig(0, NREG)

-----------------------------------------------------------------------------
\* window_translation: an address outside the window has no physical register.
InWindow(win, r) ==
  /\ r < win.size
  /\ win.base + r < PHYSICAL_REGS

\* The read port: 0 outside the window, and 0 for x0 whatever the window.
Read(m, win, r) ==
  IF r # 0 /\ InWindow(win, r) THEN m[win.base + r] ELSE 0

\* Seeded fault: the write address is not translated.
WriteUntranslated(m, win, r, v) ==
  IF InWindow(win, r) /\ r # 0 THEN [m EXCEPT ![r] = v] ELSE m

\* Seeded fault: the window is dropped when an address is past the file, and the
\* truncated address is written.
WriteTruncated(m, win, r, v) ==
  IF r < win.size /\ win.base + r # 0
  THEN [m EXCEPT ![(win.base + r) % PHYSICAL_REGS] = v]
  ELSE m

\* The write port. Only PHYSICAL register 0 is forced to zero: in a window with
\* a non-zero base a write to x0 does reach the register at the base.
Write(m, win, r, v) ==
  IF InWindow(win, r) /\ win.base + r # 0
  THEN [m EXCEPT ![win.base + r] = v]
  ELSE m

-----------------------------------------------------------------------------
Init ==
  /\ mem = [p \in Phys |-> 0]
  /\ window_config_q = DEFAULT_WINDOW_CONFIG
  /\ prev_window_config_q = 0

\* Asynchronous reset, at any time.
Reset ==
  /\ mem' = [p \in Phys |-> 0]
  /\ window_config_q' = DEFAULT_WINDOW_CONFIG
  /\ prev_window_config_q' = 0

\* An instruction with destination r commits.
Commit(r, v) ==
  /\ mem' = Write(mem, Window(window_config_q), r, v)
  /\ UNCHANGED <<window_config_q, prev_window_config_q>>

\* csrw 0x800: the mapping changes for the next instruction.
CsrWrite800(cfg) ==
  /\ window_config_q' = cfg
  /\ UNCHANGED <<mem, prev_window_config_q>>

\* csrw 0x801.
CsrWrite801(cfg) ==
  /\ prev_window_config_q' = cfg
  /\ UNCHANGED <<mem, window_config_q>>

\* Seeded fault: only the base half of the word is recorded.
TrapHalfWord ==
  /\ prev_window_config_q' = window_base(window_config_q)
  /\ window_config_q' = DEFAULT_WINDOW_CONFIG
  /\ UNCHANGED mem

\* An exception or interrupt is taken (outside debug mode).
Trap ==
  /\ prev_window_config_q' = window_config_q
  /\ window_config_q' = DEFAULT_WINDOW_CONFIG
  /\ UNCHANGED mem

Mret ==
  /\ window_config_q' = prev_window_config_q
  /\ UNCHANGED <<mem, prev_window_config_q>>

Next ==
  \/ Reset
  \/ \E r \in Regs, v \in Data : Commit(r, v)
  \/ \E cfg \in Configs : CsrWrite800(cfg) \/ CsrWrite801(cfg)
  \/ Trap
  \/ Mret

Spec == Init /\ [][Next]_vars

\* Every variable keeps its type: registers hold data, the CSRs hold words that
\* software wrote or the reset values.
TypeOK ==
  /\ mem \in [Phys -> Data]
  /\ window_config_q \in Configs \cup {0, DEFAULT_WINDOW_CONFIG}
  /\ prev_window_config_q \in Configs \cup {0, DEFAULT_WINDOW_CONFIG}

\* Whatever word software puts in a window CSR - a base past the file, a size
\* larger than an address can reach, size 0 - an instruction that commits
\* (the mapping and both CSRs unchanged) changes no physical register outside
\* the window of the hart, and never physical register 0.
WritesStayInWindow ==
  [][UNCHANGED <<window_config_q, prev_window_config_q>> /\ mem' # [p \in Phys |-> 0] =>
       \A p \in Phys : mem'[p] # mem[p] =>
         /\ p # 0
         /\ window_base(window_config_q) <= p
         /\ p < window_base(window_config_q) + window_size(window_config_q)]_vars
=============================================================================
