-------------------------- MODULE MCPortSupported ---------------------------
(***************************************************************************)
(* The runs in which the windows are used as the design supports: the      *)
(* hypotheses of the theorems about PortContext, evaluated on the models.  *)
(***************************************************************************)
EXTENDS MCPortContext

ASSUME MCSupported == SupportedUse /\ WholeKernelWindow

\* Bound of the run with critical sections: tasks are in critical sections only
\* while no task has anything on its stack. The two are explored side by side,
\* not in every combination.
NestOrPush == (\E t \in Tasks : nest[t] > 0) => \A t \in Tasks : pushed[t] = 0
=============================================================================
