----------------------------- MODULE MCStartup -----------------------------
(***************************************************************************)
(* Every command line of up to two options and every file of up to three   *)
(* lines of up to two objects, where the size of a pointer is two.         *)
(***************************************************************************)
EXTENDS Startup
=============================================================================
