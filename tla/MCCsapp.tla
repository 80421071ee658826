------------------------------ MODULE MCCsapp ------------------------------
(***************************************************************************)
(* The library with EINTR and one other error, a buffer of two bytes and   *)
(* lines of up to three.                                                   *)
(***************************************************************************)
EXTENDS Csapp
=============================================================================
