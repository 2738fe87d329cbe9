------------------------------ MODULE MCImports ------------------------------
(* Imports on a small instance: a spreadsheet of two batches, the second   *)
(* of a clue that is also posted while the daemon listens; one link that   *)
(* names a whole day, and one that names the message of another clue.      *)
EXTENDS Imports

TwoBatches == <<{1, 2}, {3}>>

Links == [t \in 1..5 |-> CASE t = 1 -> None [] t = 2 -> 3 [] OTHER -> t]
=============================================================================
