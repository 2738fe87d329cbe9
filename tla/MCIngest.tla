------------------------------ MODULE MCIngest ------------------------------
(* Ingest on small instances: every chat log of a few messages by two      *)
(* users, with clues and near-misses at any positions in it.               *)
EXTENDS Ingest, TLC

Texts == {[header |-> TRUE, enumeration |-> TRUE], [header |-> TRUE, enumeration |-> FALSE]}

Symmetry == Permutations(User)
=============================================================================
