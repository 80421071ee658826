-------------------------- MODULE MCClientRegistry --------------------------
(***************************************************************************)
(* The client registry with a few service threads.  A thread slot is used  *)
(* again when its thread has ended, so runs of any length are covered.     *)
(***************************************************************************)
EXTENDS ClientRegistry, TLC

Sym == Permutations(Thread) \cup Permutations(Fd) \cup Permutations(Addr)
=============================================================================
