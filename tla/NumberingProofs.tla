-------------------------- MODULE NumberingProofs --------------------------
(***************************************************************************)
(* Lemmas about the arithmetic of renumbering, for every numbering; and    *)
(* that numbers are well-ordered.                                          *)
(***************************************************************************)
EXTENDS Numbering, WellFoundedInduction, TLAPS

(* Making room at n leaves n free and keeps the chain's order: the bulk    *)
(* UPDATE of ingest_clue, legacy_number + 1 from the insertion point on.   *)
LEMMA ShiftUpKeeps ==
  ASSUME NEW S, NEW f \in [S -> Int], NEW n \in Int
  PROVE  /\ ShiftUp(f, n) \in [S -> Int]
         /\ \A d \in S : ShiftUp(f, n)[d] # n
         /\ \A m : OrderKept(f, ShiftUp(f, n), m)
         /\ Distinct(f) => Distinct(ShiftUp(f, n))
<1> DEFINE g == ShiftUp(f, n)
<1>1. /\ g \in [S -> Int]
      /\ \A d \in S : g[d] = IF f[d] < n THEN f[d] ELSE f[d] + 1
  BY DEF ShiftUp
<1> HIDE DEF g
<1>2. \A d \in S : f[d] \in Int
  OBVIOUS
<1>3. \A d \in S : g[d] # n
  BY <1>1, <1>2
<1>4. \A c, d \in S : f[c] < f[d] => g[c] < g[d]
  BY <1>1, <1>2
<1>5. \A m : OrderKept(f, g, m)
  BY <1>1, <1>4 DEF OrderKept
<1>6. Distinct(f) => Distinct(g)
  BY <1>1, <1>2 DEF Distinct
<1> QED BY <1>1, <1>3, <1>5, <1>6 DEF g

(* A move puts its clue exactly where it was asked to, on a number no      *)
(* other clue has, and reorders no two other clues: both range shifts of   *)
(* update_clue.  It needs the numbers to be unique to begin with.          *)
LEMMA MoveToKeeps ==
  ASSUME NEW S, NEW f \in [S -> Int], Distinct(f), NEW c \in S, NEW n \in Int
  PROVE  /\ MoveTo(f, c, n) \in [S -> Int]
         /\ MoveTo(f, c, n)[c] = n
         /\ Distinct(MoveTo(f, c, n))
         /\ OrderKept(f, MoveTo(f, c, n), c)
<1> DEFINE g == MoveTo(f, c, n)
           old == f[c]
           NewNumber(m) == CASE n <= m /\ m < old -> m + 1
                             [] old < m /\ m <= n -> m - 1
                             [] OTHER -> m
<1>1. \A m \in Int : /\ n <= m /\ m < old => NewNumber(m) = m + 1
                     /\ old < m /\ m <= n => NewNumber(m) = m - 1
                     /\ ~(n <= m /\ m < old) /\ ~(old < m /\ m <= n) => NewNumber(m) = m
  OBVIOUS
<1>2. DOMAIN g = S /\ \A d \in S : g[d] = IF d = c THEN n ELSE NewNumber(f[d])
  BY DEF MoveTo
<1> HIDE DEF NewNumber
<1>3. \A d \in S : g[d] \in Int /\ f[d] \in Int
  BY <1>1, <1>2
<1>4. g \in [S -> Int]
  BY <1>2, <1>3 DEF MoveTo
<1> HIDE DEF g
<1>5. ASSUME NEW d \in S \ {c}
      PROVE  g[d] = NewNumber(f[d]) /\ g[d] # n /\ f[d] # old
  BY <1>1, <1>2, <1>3 DEF Distinct
<1>6. ASSUME NEW d \in S \ {c}, NEW e \in S \ {c}, f[d] < f[e]
      PROVE  g[d] < g[e]
  BY <1>1, <1>3, <1>5, <1>6
<1>7. ASSUME NEW d \in S, NEW e \in S, d # e
      PROVE  g[d] # g[e]
  <2>1. CASE d = c \/ e = c
    BY <1>2, <1>5, <1>7, <2>1
  <2>2. CASE d # c /\ e # c
    <3>1. f[d] < f[e] \/ f[e] < f[d]
      BY <1>3, <1>7 DEF Distinct
    <3> QED BY <1>3, <1>6, <2>2, <3>1
  <2> QED BY <2>1, <2>2
<1>8. Distinct(g)
  BY <1>4, <1>7 DEF Distinct
<1>9. OrderKept(f, g, c)
  BY <1>4, <1>6 DEF OrderKept
<1> QED BY <1>2, <1>4, <1>8, <1>9 DEF g

(* A renumbering leaves a numbering alone below a number.                  *)
SameBelow(f, g, low) == \A d \in DOMAIN f : f[d] < low \/ g[d] < low => g[d] = f[d]

(* Making room at n touches no number below n.                             *)
LEMMA ShiftUpLocal ==
  ASSUME NEW S, NEW f \in [S -> Int], NEW n \in Int
  PROVE  SameBelow(f, ShiftUp(f, n), n)
BY DEF ShiftUp, SameBelow

(* A move touches no number below the lower of its two ends, from which    *)
(* update_clue recomputes the pills.                                       *)
LEMMA MoveToLocal ==
  ASSUME NEW S, NEW f \in [S -> Int], NEW c \in S, NEW n \in Int,
         NEW low \in Int, low <= n, low <= f[c]
  PROVE  SameBelow(f, MoveTo(f, c, n), low)
<1> DEFINE g == MoveTo(f, c, n)
<1>1. ASSUME NEW d \in S, f[d] < low \/ g[d] < low
      PROVE  g[d] = f[d]
  <2>1. f[d] \in Int /\ f[c] \in Int
    OBVIOUS
  <2>2. CASE d = c
    BY <1>1, <2>1, <2>2 DEF MoveTo
  <2>3. CASE d # c
    BY <1>1, <2>1, <2>3 DEF MoveTo
  <2> QED BY <2>2, <2>3
<1>2. DOMAIN f = S
  OBVIOUS
<1> QED BY <1>1, <1>2 DEF SameBelow

(* Numbers of NextCandidates are integers, and the next number is past     *)
(* every number in use: the append path of ingest_clue.                    *)
LEMMA NextNumberIsNew ==
  ASSUME NEW S, NEW f \in [S -> Int], NEW n \in NextCandidates(f), IsNextNumber(f, n)
  PROVE  n \in Int /\ \A d \in S : f[d] # n /\ f[d] < n
<1>1. n \in Int
  BY DEF NextCandidates
<1> QED BY <1>1 DEF IsNextNumber

-----------------------------------------------------------------------------
(* Well-order *)

(* The ordering of Nat as a relation, for which the library's facts about  *)
(* well-founded relations are stated.                                      *)
Below == {p \in Nat \X Nat : p[1] < p[2]}

(* Every set of numbers that is not empty has a lowest.                    *)
LEMMA LowestExists ==
  ASSUME NEW T \in SUBSET Nat, T # {}
  PROVE  \E x \in T : \A y \in T : x <= y
<1>1. IsWellFoundedOn(Below, Nat)
  <2>1. OpToRel(<, Nat) = Below
    BY DEF OpToRel, Below
  <2> QED BY <2>1, NatLessThanWellFounded
<1>2. PICK x \in T : \A y \in T : ~ (<<y, x>> \in Below)
  BY <1>1, WFMin
<1>3. ASSUME NEW y \in T
      PROVE  x <= y
  <2>1. <<y, x>> \in Nat \X Nat /\ <<y, x>>[1] = y /\ <<y, x>>[2] = x
    OBVIOUS
  <2>2. ~(y < x)
    BY <1>2, <2>1 DEF Below
  <2> QED BY <2>2
<1> QED BY <1>3

=============================================================================
