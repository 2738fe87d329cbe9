----------------------------- MODULE MCReview -----------------------------
(* Review on small instances: two editors, and four candidates, two of     *)
(* them better than the others, so that an approval prunes some.           *)
EXTENDS Review

CONSTANTS c1, c2, c3, c4

ConfidenceOf == [c \in Candidate |-> IF c \in {c1, c2} THEN 2 ELSE 1]
=============================================================================
