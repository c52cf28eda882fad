-------------------------- MODULE SessionProtocolMC --------------------------
(***************************************************************************)
(* SessionProtocol for TLC: KSV lists shorter than, as long as and longer  *)
(* than a SocketData, an SRM longer than it and one above the limit.       *)
(***************************************************************************)
EXTENDS SessionProtocol

MCSrmSizes == {3, 4}

=============================================================================
