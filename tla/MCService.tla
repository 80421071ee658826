----------------------------- MODULE MCService -----------------------------
(***************************************************************************)
(* Two clients that come and go, with two avatars to choose from.  No      *)
(* property and no fairness condition tells the avatars apart, so that     *)
(* their symmetry preserves the liveness properties too.                   *)
(***************************************************************************)
EXTENDS Service, TLC

Sym == Permutations(Avatar)
=============================================================================
