---------------------------- MODULE MCMembership ----------------------------
(* Membership on a small instance: two clues, a theme and an author        *)
(* sequence of one key in the spreadsheet, one sequence made by hand.      *)
EXTENDS Membership, TLC

ManualTheme == [type |-> "theme", key |-> None]

TwoGroups == <<[type |-> "theme", key |-> 1, numbers |-> {1, 2}],
               [type |-> "author", key |-> 1, numbers |-> {2}]>>

Symmetry == Permutations(Request) \cup Permutations(Clue)
=============================================================================
