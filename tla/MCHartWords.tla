---------------------------- MODULE MCHartWords -----------------------------
(***************************************************************************)
(* Words in and out of range: a task window, one that runs off the end of  *)
(* the file, a base at its end and one past it (Spike's size wraps), size  *)
(* 0 at a non-zero base, and a size past the nameable registers.           *)
(***************************************************************************)
EXTENDS HartWords

MCConfigs == {ulWindowConfig(3, 2), ulWindowConfig(5, 3), ulWindowConfig(7, 3),
              ulWindowConfig(9, 3), ulWindowConfig(4, 0), ulWindowConfig(2, 40)}
=============================================================================
