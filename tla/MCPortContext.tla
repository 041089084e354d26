--------------------------- MODULE MCPortContext ----------------------------
(***************************************************************************)
(* Three tasks: one that main() starts first and two that may get windows. *)
(* Registers: 0 zero, 1 sp, 2 t0, 3 a0 (the one register of a task nothing *)
(* else uses), 4 for t2 and t4, 5 for t5 and t6.                           *)
(***************************************************************************)
EXTENDS PortContext, TLC

CONSTANTS idle, w1, w2

\* idle may be given the kernel's own window, as integrity_test.c does.
MCAssign == idle :> ulWindowConfig(0, 6) @@ w1 :> ulWindowConfig(6, 4)
            @@ w2 :> ulWindowConfig(10, 4)

\* idle is always a task without a window.
MCAssignWindows == [MCAssign EXCEPT ![idle] = 0]

MCParam == idle :> 7 @@ w1 :> 8 @@ w2 :> 9

MCStackTop == idle :> 100 @@ w1 :> 200 @@ w2 :> 300
=============================================================================
