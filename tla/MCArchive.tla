----------------------------- MODULE MCArchive -----------------------------
(* Archive on a small instance: three clues, positions that reach past the *)
(* end of the chain, and names that may both post and solve.               *)
EXTENDS Archive, TLC

Symmetry == Permutations(Clue)
=============================================================================
