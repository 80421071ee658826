--------------------------- MODULE MCProtocolRecv ---------------------------
(***************************************************************************)
(* A client that sends a few packets.  Sizes are one digit on the low side *)
(* (1), none (0), and the two-digit size 3 = 11 to the base 2.             *)
(***************************************************************************)
EXTENDS ProtocolRecv
=============================================================================
