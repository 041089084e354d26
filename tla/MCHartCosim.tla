---------------------------- MODULE MCHartCosim -----------------------------
(***************************************************************************)
(* Two harts with 9 physical registers and 3 nameable ones: a window of    *)
(* full size, a shorter one, and one that runs off the end of the file.    *)
(***************************************************************************)
EXTENDS HartCosim

MCConfigs == {ulWindowConfig(0, 3), ulWindowConfig(3, 3),
              ulWindowConfig(6, 1), ulWindowConfig(7, 4)}
=============================================================================
