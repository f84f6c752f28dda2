---------------------------- MODULE MCStatCache ----------------------------
(* StatCache on a small instance. *)
EXTENDS StatCache, TLC

Symmetry == Permutations(Threads) \cup Permutations(Paths \ Changing)
=============================================================================
