--------------------------- MODULE MCBoardSafety ---------------------------
(***************************************************************************)
(* Small instances of BoardSafety for TLC.                                 *)
(***************************************************************************)
EXTENDS BoardSafety, TLC

Symmetry == Permutations(Drivers)
=============================================================================
