----------------------------- MODULE Numbering -----------------------------
(***************************************************************************)
(* The arithmetic of legacy_number: what the bulk UPDATE statements of     *)
(* ingest_clue and update_clue do to the numbers of the rows they match.   *)
(* A numbering f maps the ids of the clues in the table to their numbers.  *)
(***************************************************************************)
EXTENDS Integers

(* No two clues share a number: what uq_clues_legacy_number enforces. *)
Distinct(f) == \A c, d \in DOMAIN f : c # d => f[c] # f[d]

(* From f to g, the clues other than m that stay keep their relative order. *)
OrderKept(f, g, m) ==
  \A c, d \in (DOMAIN f \cap DOMAIN g) \ {m} : f[c] < f[d] => g[c] < g[d]

-----------------------------------------------------------------------------

(* max(legacy_number) + 1, or 1 in an empty table *)
IsNextNumber(f, n) ==
  /\ \A d \in DOMAIN f : f[d] < n
  /\ IF DOMAIN f = {} THEN n = 1 ELSE \E d \in DOMAIN f : f[d] = n - 1

NextCandidates(f) == {1} \cup {f[d] + 1 : d \in DOMAIN f}

(* make room at n: every clue at or after n goes up by one *)
ShiftUp(f, n) == [d \in DOMAIN f |-> IF f[d] < n THEN f[d] ELSE f[d] + 1]

(* Mutants: the clue at the target is left where it is; the two clues      *)
(* trade places                                                            *)
MoveToOffByOne(f, c, n) ==
  LET old == f[c]
      NewNumber(m) == CASE n < m /\ m < old -> m + 1
                        [] old < m /\ m < n -> m - 1
                        [] OTHER -> m
  IN  [d \in DOMAIN f |-> IF d = c THEN n ELSE NewNumber(f[d])]

MoveToSwap(f, c, n) ==
  [d \in DOMAIN f |-> IF d = c THEN n ELSE IF f[d] = n THEN f[c] ELSE f[d]]

(* move clue c to n: the clues it jumps over close the hole it leaves *)
MoveTo(f, c, n) ==
  LET old == f[c]
      NewNumber(m) == CASE n <= m /\ m < old -> m + 1
                        [] old < m /\ m <= n -> m - 1
                        [] OTHER -> m
  IN  [d \in DOMAIN f |-> IF d = c THEN n ELSE NewNumber(f[d])]

=============================================================================
