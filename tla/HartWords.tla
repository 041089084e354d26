----------------------------- MODULE HartWords ------------------------------
(***************************************************************************)
(* Each hart on its own under arbitrary configuration words. The program   *)
(* runs on one of them; the other one rests.                               *)
(***************************************************************************)
EXTENDS SpikeWindow

VARIABLES
  hart,                                        \* the hart the program runs on
  mem, window_config_q, prev_window_config_q   \* CVA6's

CVA6 == INSTANCE CVA6Window WITH PHYSICAL_REGS <- NXPR

cva6Vars == <<mem, window_config_q, prev_window_config_q>>
wordVars == <<hart, vars, cva6Vars>>

WordInit ==
  /\ hart \in {"CVA6", "Spike"}
  /\ Init /\ CVA6!Init
  /\ hart = "CVA6" => window_active = 0 /\ window_staged = 0

WordNext ==
  \/ hart = "Spike" /\ Next /\ UNCHANGED <<hart, cva6Vars>>
  \/ hart = "CVA6" /\ CVA6!Next /\ UNCHANGED <<hart, vars>>

WordSpec == WordInit /\ [][WordNext]_wordVars

\* Every variable of both harts keeps its type: Spike's base_offset stays in the
\* file, CVA6's CSRs hold whole words.
WordTypeOK == TypeOK /\ CVA6!TypeOK

\* On CVA6 no instruction writes a physical register outside the window in force,
\* or physical register 0, whatever words software put in the window CSRs.
CVA6WritesStayInWindow == CVA6!WritesStayInWindow
=============================================================================
