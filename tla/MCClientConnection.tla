------------------------- MODULE MCClientConnection -------------------------
(* Instances of ClientConnection for TLC.                                  *)
EXTENDS ClientConnection
=============================================================================
