--------------------------- MODULE MCCVA6Pipeline ---------------------------
(***************************************************************************)
(* Two nameable registers and a file of four: the kernel's window, and a   *)
(* task window that a register may hold as a word, beside the empty word 0.*)
(***************************************************************************)
EXTENDS CVA6Pipeline

MCShapes == {<<1, 0>>, <<1, 1>>}

MCConfigs == {0, ulWindowConfig(2, 2)}
=============================================================================
