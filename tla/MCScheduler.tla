---------------------------- MODULE MCScheduler -----------------------------
(***************************************************************************)
(* Two tasks and the idle task: at one priority above it, at two, and one  *)
(* of them at the idle priority.                                           *)
(***************************************************************************)
EXTENDS Scheduler, TLC

CONSTANTS a, b, idle

MCTasks == {a, b, idle}
MCPriorities == {a :> p[1] @@ b :> p[2] @@ idle :> 0 : p \in {<<1, 1>>, <<1, 2>>, <<0, 1>>}}
=============================================================================
