------------------------------ MODULE HartCosim -----------------------------
(***************************************************************************)
(* Spike and CVA6 executing the same program in lockstep: the comparison   *)
(* on which the use of Spike as the reference model of the core rests. The *)
(* program is abstracted to what the window logic sees: register writes,   *)
(* traps, csrw 0x801 and mret. Every action is one instruction (or trap)   *)
(* taken by both harts.                                                    *)
(*                                                                         *)
(* The program may write 0x801 too, at any time. CVA6's trap entry         *)
(* overwrites what it wrote, Spike's does not: a handler that does not     *)
(* write 0x801 itself would return to different windows then. The port's   *)
(* handler always writes it; other handlers may leave it alone as long as  *)
(* the program does.                                                       *)
(***************************************************************************)
EXTENDS WindowConfig

CONSTANTS
  NPHYS,          \* physical registers of either hart
  NREG, SizeT, Data, Configs

VARIABLES
  mem, window_config_q, prev_window_config_q,
  data, xpr, window_active, window_staged, previous_window_config,
  mode,     \* "program" or "handler"
  stager,   \* who last wrote 0x801: "nobody", "program" or "handler"
  \* History, in the terms of the software.
  wanted,   \* the word a handler last wrote to 0x801, 0 before
  left      \* for each task window, by its base: what its program left in
            \* the registers, 0 at first

CVA6  == INSTANCE CVA6Window  WITH PHYSICAL_REGS <- NPHYS
Spike == INSTANCE SpikeWindow WITH NXPR <- NPHYS

cva6Vars == <<mem, window_config_q, prev_window_config_q>>
spikeVars == <<data, xpr, window_active, window_staged, previous_window_config>>
vars == <<cva6Vars, spikeVars, mode, stager, wanted, left>>

Regs == 0 .. NREG - 1
Phys == 0 .. NPHYS - 1

\* Physical registers at the bottom of a task window: CVA6 alone writes them.
Bases == {window_base(cfg) : cfg \in Configs} \ {0}

ASSUME CosimAssumption ==
  /\ NPHYS \in Nat /\ NREG \in 1 .. 32 /\ NREG < NPHYS
  /\ SizeT \in Nat /\ 3 * Half < SizeT /\ 2 * NPHYS < Half
  /\ Data \subseteq Int /\ 0 \in Data
  /\ Configs \subseteq Nat

\* What the port's users give to vPortTaskSetRegisterWindow: a base inside the
\* file, a non-zero size, and no window that begins inside another one. The
\* word 0, which the port stages for a task without a window, is not such a
\* word: the harts differ on it (LegacyRunsInWindow0 of PortContext).
ASSUME WindowsAssumption ==
  \A cfg \in Configs :
    /\ window_base(cfg) < NPHYS
    /\ window_size(cfg) > 0
    /\ \A b \in Bases : window_base(cfg) + 1 <= b => window_base(cfg) + window_size(cfg) <= b
    /\ \A b \in Bases : NREG <= b

-----------------------------------------------------------------------------
\* Register r is inside the window and inside the file.
InFile(cfg, r) == r < window_size(cfg) /\ window_base(cfg) + r < NPHYS

Init ==
  /\ CVA6!Init
  /\ Spike!Init
  /\ mode = "program"
  /\ stager = "nobody"
  /\ wanted = 0
  /\ left = [b \in Bases |-> [r \in Regs |-> 0]]

Commit(r, v) ==
  /\ CVA6!Commit(r, v)
  /\ Spike!Commit(r, v)
  /\ left' = IF mode = "program" /\ window_base(wanted) # 0 /\ InFile(wanted, r)
             THEN [left EXCEPT ![window_base(wanted)][r] = v]
             ELSE left
  /\ UNCHANGED <<mode, stager, wanted>>

Stage(cfg) ==
  /\ CVA6!CsrWrite801(cfg)
  /\ Spike!CsrWrite801(cfg)
  /\ stager' = mode
  /\ wanted' = IF mode = "handler" THEN cfg ELSE wanted
  /\ UNCHANGED <<mode, left>>

Ecall ==
  /\ mode = "program"
  /\ CVA6!Trap
  /\ Spike!Trap
  /\ mode' = "handler"
  /\ UNCHANGED <<stager, wanted, left>>

\* The handler has staged a word in this trap, or in an earlier one and the
\* program has not written 0x801 since.
Return ==
  /\ mode = "handler"
  /\ stager = "handler"
  /\ CVA6!Mret
  /\ Spike!Mret
  /\ mode' = "program"
  /\ UNCHANGED <<stager, wanted, left>>

Next ==
  \/ \E r \in Regs, v \in Data : Commit(r, v)
  \/ \E cfg \in Configs : Stage(cfg)
  \/ Ecall
  \/ Return

Spec == Init /\ [][Next]_vars

-----------------------------------------------------------------------------
\* Every variable of either hart keeps its type.
TypeOK ==
  /\ mem \in [Phys -> Data]
  /\ data \in [Phys -> Data]
  /\ window_config_q \in Configs \cup {0, CVA6!DEFAULT_WINDOW_CONFIG}
  /\ prev_window_config_q \in Configs \cup {0, CVA6!DEFAULT_WINDOW_CONFIG}
  /\ xpr \in [base : Phys, size : 0 .. NPHYS]
  /\ window_staged \in Configs \cup {0}
  /\ window_active \in Configs \cup {0}
  /\ mode \in {"program", "handler"}
  /\ stager \in {"nobody", "program", "handler"}
  /\ wanted \in Configs \cup {0}
  /\ left \in [Bases -> [Regs -> Data]]

\* Whatever sequence of register writes, traps, staged words and returns a
\* program goes through, every register it can name reads the same on Spike's
\* regfile_t and on CVA6's ariane_regfile - although CVA6 lets a write to x0
\* reach the physical register at the base of a task window and Spike drops it,
\* and although the two harts record the interrupted window differently.
SameView ==
  \A r \in Regs :
    CVA6!Read(mem, Window(window_config_q), r) = Spike!Read(data, xpr, r)

\* A program that a handler has put into a task window finds, on either hart,
\* every register of that window as it was left the last time a program ran in
\* it: the mapping in force after mret is the one of the word the handler staged
\* (in this trap or an earlier one), although the program wrote other words to
\* CSR 0x801 before the trap - CVA6's trap entry overwrites them, Spike keeps them
\* - although Spike's dump moves the mapping and its mret clamps it twice, and
\* although handlers and other windows used the same file in between.
StagedWindowKeepsRegisters ==
  mode = "program" /\ window_base(wanted) # 0 =>
    \A r \in Regs \ {0} : InFile(wanted, r) =>
      LET kept == left[window_base(wanted)][r]
      IN  /\ CVA6!Read(mem, Window(window_config_q), r) = kept
          /\ Spike!Read(data, xpr, r) = kept

\* The kernel's registers (a legacy task's, or the handler's own) are not
\* touched by anything that runs in a task window, on either hart.
KernelRegistersFrozen ==
  [][window_base(window_config_q) # 0 =>
       \A p \in Regs : mem'[p] = mem[p] /\ data'[p] = data[p]]_vars
=============================================================================
