----------------------------- MODULE MCShutdown -----------------------------
(***************************************************************************)
(* A SIGHUP at any moment of a server with two service threads.            *)
(***************************************************************************)
EXTENDS Shutdown, TLC

Sym == Permutations(Thread) \cup Permutations(Fd) \cup Permutations(Addr)
=============================================================================
