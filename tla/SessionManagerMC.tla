-------------------------- MODULE SessionManagerMC --------------------------
(***************************************************************************)
(* Small instances of SessionManager for TLC.                              *)
(***************************************************************************)
EXTENDS SessionManager, TLC

\* The threads of the application are interchangeable.
ClientSymmetry == Permutations(Clients)

=============================================================================
