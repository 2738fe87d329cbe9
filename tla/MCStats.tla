------------------------------ MODULE MCStats ------------------------------
(* Stats on small instances; sequences are interchangeable.                *)
EXTENDS Stats, TLC

Symmetry == Permutations(AuthorSequence)
=============================================================================
