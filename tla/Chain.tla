------------------------------- MODULE Chain -------------------------------
(***************************************************************************)
(* What the archive promises about the order of its clues, independent of  *)
(* how numbers are shifted and locked: each committed transaction adds,    *)
(* moves or removes at most one clue, leaves every other pair of clues in  *)
(* the order it was in, and never gives two clues one number.              *)
(***************************************************************************)
EXTENDS Numbering

CONSTANTS Clue, None

VARIABLE chain   \* the committed legacy_number of every clue

Init == DOMAIN chain \subseteq Clue /\ Distinct(chain)

(* One clue, m, may come, go or change place; None when none does. *)
Touch(m) ==
  /\ DOMAIN chain \cup {m} = DOMAIN chain' \cup {m}
  /\ DOMAIN chain' \subseteq Clue
  /\ Distinct(chain')
  /\ OrderKept(chain, chain', m)

Next == \E m \in Clue \cup {None} : Touch(m)

Spec == Init /\ [][Next]_chain

=============================================================================
