------------------------- MODULE PortManagerHistoryMC -------------------------
(***************************************************************************)
(* Small instances of PortManagerHistory for TLC.                          *)
(***************************************************************************)
EXTENDS PortManagerHistory, TLC

\* Applications are interchangeable.
AppSymmetry == Permutations(Apps)

=============================================================================
