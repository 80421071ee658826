---------------------------- MODULE MCMazeViews --------------------------
(***************************************************************************)
(* Every small maze.                                                       *)
(***************************************************************************)
EXTENDS MazeViews, TLC

Sym == Permutations(Avatar)
=============================================================================
