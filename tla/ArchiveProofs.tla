--------------------------- MODULE ArchiveProofs ---------------------------
(***************************************************************************)
(* Proofs about Archive, for every set of clues, names and positions:      *)
(* its rows stay well formed, its numbers stay unique, it implements Chain *)
(* (an operation never reorders the clues it does not name), and the pills *)
(* drift only where, and by as much as, its properties say.                *)
(***************************************************************************)
EXTENDS Archive, NumberingProofs, FiniteSetTheorems

(* A well-formed table, apart from the state: what the lemmas about the    *)
(* operators of Archive assume and give back.                              *)
IsTable(t) == /\ IsFiniteSet(DOMAIN t)
              /\ t \in [DOMAIN t -> Row]

(* A clue without a solver has no solver pill. *)
NullFits(t) == \A d \in DOMAIN t : t[d].solver = None => t[d].solverPill = None

-----------------------------------------------------------------------------
(* Counting *)

(* A pill over a well-formed table is a natural number, or NULL for no     *)
(* solver (the counts of _recompute_pills and of the two own-pill blocks). *)
LEMMA CountsTyped ==
  ASSUME NEW t, IsTable(t), NEW a, NEW s, NEW n \in Int
  PROVE  /\ AuthorCount(t, a, n) \in Nat
         /\ SolverCount(t, s, n) \in Nat \cup {None}
         /\ OwnAuthorPill(t, a, n) \in Nat
         /\ OwnSolverPill(t, s, n) \in Nat \cup {None}
<1>1. \A S : S \subseteq DOMAIN t => Cardinality(S) \in Nat
  BY FS_Subset, FS_CardinalityType DEF IsTable
<1>2. \A m \in Int : /\ AuthorCount(t, a, m) \in Nat
                     /\ s # None => SolverCount(t, s, m) \in Nat
                     /\ s = None => SolverCount(t, s, m) = None
  <2> TAKE m \in Int
  <2>1. AuthorCount(t, a, m) \in Nat
    BY <1>1 DEF AuthorCount
  <2>2. s # None => SolverCount(t, s, m) \in Nat
    BY <1>1 DEF SolverCount
  <2>3. s = None => SolverCount(t, s, m) = None
    BY DEF SolverCount
  <2> QED BY <2>1, <2>2, <2>3
<1>3. n - 1 \in Int
  OBVIOUS
<1> QED BY <1>2, <1>3 DEF OwnAuthorPill, OwnSolverPill

(* A count depends only on who is there, by whom, and on which side of n:  *)
(* it can be taken before or after any step that changes nothing of these. *)
LEMMA CountsAgree ==
  ASSUME NEW t, NEW u, DOMAIN u = DOMAIN t, NEW n,
         \A d \in DOMAIN t : /\ u[d].author = t[d].author
                             /\ u[d].solver = t[d].solver
                             /\ u[d].number <= n <=> t[d].number <= n
  PROVE  /\ \A a : AuthorCount(u, a, n) = AuthorCount(t, a, n)
         /\ \A s : SolverCount(u, s, n) = SolverCount(t, s, n)
<1>1. ASSUME NEW a
      PROVE  AuthorCount(u, a, n) = AuthorCount(t, a, n)
  <2>1. {d \in DOMAIN u : u[d].author = a /\ u[d].number <= n}
          = {d \in DOMAIN t : t[d].author = a /\ t[d].number <= n}
    OBVIOUS
  <2> QED BY <2>1 DEF AuthorCount
<1>2. ASSUME NEW s
      PROVE  SolverCount(u, s, n) = SolverCount(t, s, n)
  <2>1. {d \in DOMAIN u : u[d].solver = s /\ u[d].number <= n}
          = {d \in DOMAIN t : t[d].solver = s /\ t[d].number <= n}
    OBVIOUS
  <2> QED BY <2>1 DEF SolverCount
<1> QED BY <1>1, <1>2

(* The two ways the code counts agree where numbers are unique: the clues  *)
(* up to and including one's own, and the clues strictly before it plus    *)
(* one (clue_service.py:35-37 against the own-pill blocks).                *)
LEMMA OwnPillExact ==
  ASSUME NEW t, IsTable(t), Distinct(Numbers(t)), NEW c \in DOMAIN t
  PROVE  LET r == t[c]
         IN  /\ OwnAuthorPill(t, r.author, r.number) = AuthorCount(t, r.author, r.number)
             /\ OwnSolverPill(t, r.solver, r.number) = SolverCount(t, r.solver, r.number)
<1> DEFINE r == t[c]
<1>1. \A d \in DOMAIN t : t[d].number \in Int
  BY DEF IsTable, Row
<1>2. \A d \in DOMAIN t : d # c => t[d].number # r.number
  BY DEF Distinct, Numbers
<1>3. OwnAuthorPill(t, r.author, r.number) = AuthorCount(t, r.author, r.number)
  <2> DEFINE S == {d \in DOMAIN t : t[d].author = r.author /\ t[d].number <= r.number - 1}
  <2>1. {d \in DOMAIN t : t[d].author = r.author /\ t[d].number <= r.number} = S \cup {c}
    BY <1>1, <1>2
  <2>2. IsFiniteSet(S) /\ c \notin S
    BY <1>1, FS_Subset DEF IsTable
  <2>3. Cardinality(S \cup {c}) = Cardinality(S) + 1
    BY <2>2, FS_AddElement
  <2> QED BY <2>1, <2>3 DEF OwnAuthorPill, AuthorCount
<1>4. CASE r.solver = None
  BY <1>3, <1>4 DEF OwnSolverPill, SolverCount
<1>5. CASE r.solver # None
  <2> DEFINE S == {d \in DOMAIN t : t[d].solver = r.solver /\ t[d].number <= r.number - 1}
  <2>1. {d \in DOMAIN t : t[d].solver = r.solver /\ t[d].number <= r.number} = S \cup {c}
    BY <1>1, <1>2
  <2>2. IsFiniteSet(S) /\ c \notin S
    BY <1>1, FS_Subset DEF IsTable
  <2>3. Cardinality(S \cup {c}) = Cardinality(S) + 1
    BY <2>2, FS_AddElement
  <2> QED BY <1>3, <1>5, <2>1, <2>3 DEF OwnSolverPill, SolverCount
<1> QED BY <1>4, <1>5

(* A new row adds one to the counts of its author and solver from its      *)
(* number on, and to no other.                                             *)
LEMMA CountAdds ==
  ASSUME NEW t, IsTable(t), NEW c, c \notin DOMAIN t, NEW r,
         NEW u, u = WithRow(t, c, r), NEW n \in Int
  PROVE  /\ \A a : AuthorCount(u, a, n) =
                     AuthorCount(t, a, n) + (IF r.author = a /\ r.number <= n THEN 1 ELSE 0)
         /\ \A s : s # None =>
                     SolverCount(u, s, n) =
                       SolverCount(t, s, n) + (IF r.solver = s /\ r.number <= n THEN 1 ELSE 0)
<1>1. DOMAIN u = DOMAIN t \cup {c} /\ u[c] = r /\ \A d \in DOMAIN t : u[d] = t[d]
  BY DEF WithRow
<1>2. ASSUME NEW a
      PROVE  AuthorCount(u, a, n) =
               AuthorCount(t, a, n) + (IF r.author = a /\ r.number <= n THEN 1 ELSE 0)
  <2> DEFINE S == {d \in DOMAIN t : t[d].author = a /\ t[d].number <= n}
             T == {d \in DOMAIN u : u[d].author = a /\ u[d].number <= n}
  <2>1. IsFiniteSet(S) /\ c \notin S
    BY FS_Subset DEF IsTable
  <2>2. Cardinality(S) \in Nat /\ Cardinality(S \cup {c}) = Cardinality(S) + 1
    BY <2>1, FS_AddElement, FS_CardinalityType
  <2>3. IF r.author = a /\ r.number <= n THEN T = S \cup {c} ELSE T = S
    BY <1>1
  <2>4. AuthorCount(u, a, n) = Cardinality(T) /\ AuthorCount(t, a, n) = Cardinality(S)
    BY DEF AuthorCount
  <2> HIDE DEF S, T
  <2> QED BY <2>2, <2>3, <2>4
<1>3. ASSUME NEW s, s # None
      PROVE  SolverCount(u, s, n) =
               SolverCount(t, s, n) + (IF r.solver = s /\ r.number <= n THEN 1 ELSE 0)
  <2> DEFINE S == {d \in DOMAIN t : t[d].solver = s /\ t[d].number <= n}
             T == {d \in DOMAIN u : u[d].solver = s /\ u[d].number <= n}
  <2>1. IsFiniteSet(S) /\ c \notin S
    BY FS_Subset DEF IsTable
  <2>2. Cardinality(S) \in Nat /\ Cardinality(S \cup {c}) = Cardinality(S) + 1
    BY <2>1, FS_AddElement, FS_CardinalityType
  <2>3. IF r.solver = s /\ r.number <= n THEN T = S \cup {c} ELSE T = S
    BY <1>1
  <2>4. SolverCount(u, s, n) = Cardinality(T) /\ SolverCount(t, s, n) = Cardinality(S)
    BY <1>3 DEF SolverCount
  <2> HIDE DEF S, T
  <2> QED BY <2>2, <2>3, <2>4
<1> QED BY <1>2, <1>3

(* Recounting pills changes no number, author or solver and keeps the      *)
(* table well formed (_recompute_pills writes the two pill columns only),  *)
(* and it leaves exact pills on what it recounts.                          *)
LEMMA RecomputeKeeps ==
  ASSUME NEW t, IsTable(t), NEW from \in Int
  PROVE  LET u == RecomputePills(t, from)
         IN  /\ IsTable(u)
             /\ DOMAIN u = DOMAIN t
             /\ Numbers(u) = Numbers(t)
             /\ \A d \in DOMAIN t : /\ u[d].number = t[d].number
                                    /\ u[d].author = t[d].author
                                    /\ u[d].solver = t[d].solver
             /\ \A d \in DOMAIN t :
                  IF t[d].number < from
                  THEN u[d] = t[d]
                  ELSE AuthorExact(u, d) /\ SolverExact(u, d)
             /\ NullFits(t) => NullFits(u)
<1> DEFINE u == RecomputePills(t, from)
<1>1. DOMAIN u = DOMAIN t
  BY DEF RecomputePills
<1>2. ASSUME NEW d \in DOMAIN t
      PROVE  /\ u[d] \in Row
             /\ u[d].number = t[d].number
             /\ u[d].author = t[d].author
             /\ u[d].solver = t[d].solver
             /\ IF t[d].number < from
                THEN u[d] = t[d]
                ELSE /\ u[d].authorPill = AuthorCount(t, t[d].author, t[d].number)
                     /\ u[d].solverPill = SolverCount(t, t[d].solver, t[d].number)
  <2>1. t[d] \in Row
    BY DEF IsTable
  <2>2. /\ AuthorCount(t, t[d].author, t[d].number) \in Nat
        /\ SolverCount(t, t[d].solver, t[d].number) \in Nat \cup {None}
    BY <2>1, CountsTyped DEF Row
  <2> QED BY <2>1, <2>2 DEF RecomputePills, Row
<1> HIDE DEF u
<1>3. u \in [DOMAIN u -> Row]
  BY <1>1, <1>2 DEF u, RecomputePills
<1>4. Numbers(u) = Numbers(t)
  BY <1>1, <1>2 DEF Numbers
<1>5. ASSUME NEW d \in DOMAIN t, ~(t[d].number < from)
      PROVE  AuthorExact(u, d) /\ SolverExact(u, d)
  <2>1. /\ AuthorCount(u, t[d].author, t[d].number) = AuthorCount(t, t[d].author, t[d].number)
        /\ SolverCount(u, t[d].solver, t[d].number) = SolverCount(t, t[d].solver, t[d].number)
    BY <1>1, <1>2, CountsAgree
  <2> QED BY <1>2, <1>5, <2>1 DEF AuthorExact, SolverExact
<1>6. NullFits(t) => NullFits(u)
  BY <1>1, <1>2 DEF NullFits, SolverCount
<1> QED BY <1>1, <1>2, <1>3, <1>4, <1>5, <1>6 DEF IsTable, u

-----------------------------------------------------------------------------
(* Renumbering *)

(* The legacy_number column of a well-formed table, clue by clue.          *)
LEMMA NumbersTyped ==
  ASSUME NEW t, IsTable(t)
  PROVE  Numbers(t) \in [DOMAIN t -> Int] /\ \A d \in DOMAIN t : Numbers(t)[d] = t[d].number
BY DEF IsTable, Numbers, Row

(* Writing numbers back keeps the table well formed and writes no other    *)
(* column.                                                                 *)
LEMMA RenumberedKeeps ==
  ASSUME NEW t, IsTable(t), NEW f \in [DOMAIN t -> Int]
  PROVE  /\ IsTable(Renumbered(t, f))
         /\ DOMAIN Renumbered(t, f) = DOMAIN t
         /\ Numbers(Renumbered(t, f)) = f
         /\ \A d \in DOMAIN t : Renumbered(t, f)[d] = [t[d] EXCEPT !.number = f[d]]
         /\ NullFits(t) => NullFits(Renumbered(t, f))
<1> DEFINE u == Renumbered(t, f)
<1>1. DOMAIN u = DOMAIN t
  BY DEF Renumbered
<1>2. ASSUME NEW d \in DOMAIN t
      PROVE  /\ u[d] \in Row /\ u[d].number = f[d] /\ u[d] = [t[d] EXCEPT !.number = f[d]]
             /\ u[d].solver = t[d].solver /\ u[d].solverPill = t[d].solverPill
  <2>1. t[d] \in Row
    BY DEF IsTable
  <2> QED BY <2>1 DEF Renumbered, Row
<1>3. u \in [DOMAIN u -> Row]
  BY <1>1, <1>2 DEF Renumbered
<1> HIDE DEF u
<1>4. Numbers(u) = f
  BY <1>1, <1>2 DEF Numbers
<1>5. NullFits(t) => NullFits(u)
  BY <1>1, <1>2 DEF NullFits
<1> QED BY <1>1, <1>2, <1>3, <1>4, <1>5 DEF IsTable, u

(* Renumbering from low on and recounting from low on is all a move or an  *)
(* insert does to the clues that stay: a pill that was exact is exact      *)
(* afterwards, and so is that of every clue whose number has changed.      *)
LEMMA RenumberingHeals ==
  ASSUME NEW t, IsTable(t), NEW g \in [DOMAIN t -> Int], NEW low \in Int,
         SameBelow(Numbers(t), g, low),
         NEW u, u = RecomputePills(Renumbered(t, g), low)
  PROVE  /\ IsTable(u) /\ DOMAIN u = DOMAIN t /\ Numbers(u) = g
         /\ \A d \in DOMAIN t : u[d].author = t[d].author /\ u[d].solver = t[d].solver
         /\ \A d \in DOMAIN t :
              /\ AuthorExact(t, d) \/ g[d] # t[d].number => AuthorExact(u, d)
              /\ SolverExact(t, d) \/ g[d] # t[d].number => SolverExact(u, d)
         /\ NullFits(t) => NullFits(u)
<1> DEFINE v == Renumbered(t, g)
<1>1. /\ IsTable(v) /\ DOMAIN v = DOMAIN t /\ Numbers(v) = g
      /\ \A d \in DOMAIN t : v[d] = [t[d] EXCEPT !.number = g[d]]
      /\ NullFits(t) => NullFits(v)
  BY RenumberedKeeps
<1>2. u = RecomputePills(v, low)
  OBVIOUS
<1>3. \A d \in DOMAIN t : t[d] \in Row /\ g[d] \in Int /\ Numbers(t)[d] = t[d].number
  BY DEF IsTable, Numbers
<1> HIDE DEF v
<1>4. \A d \in DOMAIN t : /\ v[d].author = t[d].author /\ v[d].authorPill = t[d].authorPill
                          /\ v[d].solver = t[d].solver /\ v[d].solverPill = t[d].solverPill
                          /\ v[d].number = g[d]
  BY <1>1, <1>3 DEF Row
<1>5. /\ IsTable(u) /\ DOMAIN u = DOMAIN v /\ Numbers(u) = g
      /\ \A d \in DOMAIN v : /\ u[d].number = v[d].number
                             /\ u[d].author = v[d].author
                             /\ u[d].solver = v[d].solver
      /\ \A d \in DOMAIN v : IF v[d].number < low
                             THEN u[d] = v[d]
                             ELSE AuthorExact(u, d) /\ SolverExact(u, d)
      /\ NullFits(v) => NullFits(u)
  BY <1>1, <1>2, RecomputeKeeps
<1>6. ASSUME NEW d \in DOMAIN t, v[d].number < low
      PROVE  /\ g[d] = t[d].number
             /\ AuthorExact(t, d) => AuthorExact(u, d)
             /\ SolverExact(t, d) => SolverExact(u, d)
  <2>1. g[d] = t[d].number /\ u[d] = v[d] /\ t[d].number < low
    BY <1>1, <1>3, <1>4, <1>5, <1>6 DEF SameBelow, Numbers
  <2>2. /\ DOMAIN u = DOMAIN t
        /\ \A e \in DOMAIN t : /\ u[e].author = t[e].author
                               /\ u[e].solver = t[e].solver
                               /\ u[e].number <= t[d].number <=> t[e].number <= t[d].number
    BY <1>1, <1>3, <1>4, <1>5, <2>1 DEF SameBelow, Numbers, Row
  <2>3. /\ \A a : AuthorCount(u, a, t[d].number) = AuthorCount(t, a, t[d].number)
        /\ \A s : SolverCount(u, s, t[d].number) = SolverCount(t, s, t[d].number)
    BY <2>2, CountsAgree
  <2> QED BY <1>4, <2>1, <2>3 DEF AuthorExact, SolverExact
<1> QED BY <1>1, <1>4, <1>5, <1>6

-----------------------------------------------------------------------------
(* The invariant and the steps *)

(* Well-formed rows and unique numbers are inductive together: the shifts  *)
(* of a move keep numbers apart only when they were apart before.  That no *)
(* pill is left on a clue without a solver is what migration 005 relies on *)
(* when it skips those clues.                                              *)
IInv == TypeOK /\ UniqueNumbers /\ NullFits(clues)

(* The inductive invariant, said of the table alone.                       *)
LEMMA IInvTable ==
  IInv <=> /\ IsTable(clues) /\ DOMAIN clues \subseteq Clue
           /\ Distinct(Numbers(clues)) /\ NullFits(clues)
BY DEF IInv, TypeOK, UniqueNumbers, IsTable

(* The step from t to u is one Chain allows: it touches clue m alone.      *)
GoodStep(t, u, m) ==
  /\ IsTable(u)
  /\ DOMAIN u \subseteq Clue
  /\ DOMAIN t \cup {m} = DOMAIN u \cup {m}
  /\ Distinct(Numbers(u))
  /\ OrderKept(Numbers(t), Numbers(u), m)
  /\ NullFits(u)

(* A table with one more row, of a number none of its rows has. *)
LEMMA WithRowKeeps ==
  ASSUME NEW t, IsTable(t), Distinct(Numbers(t)), DOMAIN t \subseteq Clue, NullFits(t),
         NEW c \in Clue, c \notin DOMAIN t,
         NEW r \in Row, r.solver = None => r.solverPill = None, \A d \in DOMAIN t : t[d].number # r.number,
         NEW u, u = WithRow(t, c, r)
  PROVE  GoodStep(t, u, c) /\ \A d \in DOMAIN t : Numbers(u)[d] = Numbers(t)[d]
<1>1. DOMAIN u = DOMAIN t \cup {c} /\ u[c] = r /\ \A d \in DOMAIN t : u[d] = t[d]
  BY DEF WithRow
<1>2. IsFiniteSet(DOMAIN t \cup {c})
  BY FS_AddElement DEF IsTable
<1>3. \A d \in DOMAIN t : t[d] \in Row
  BY DEF IsTable
<1>4. u \in [DOMAIN u -> Row]
  BY <1>1, <1>3 DEF WithRow
<1>5. /\ DOMAIN Numbers(u) = DOMAIN t \cup {c} /\ DOMAIN Numbers(t) = DOMAIN t
      /\ Numbers(u)[c] = r.number
      /\ \A d \in DOMAIN t : Numbers(u)[d] = Numbers(t)[d] /\ Numbers(t)[d] = t[d].number
  BY <1>1 DEF Numbers
<1>6. Distinct(Numbers(u))
  BY <1>5 DEF Distinct
<1>7. OrderKept(Numbers(t), Numbers(u), c)
  BY <1>5 DEF OrderKept
<1>8. NullFits(u)
  BY <1>1 DEF NullFits
<1> QED BY <1>1, <1>2, <1>4, <1>5, <1>6, <1>7, <1>8 DEF IsTable, GoodStep

(* The row ingest_clue adds is well formed and has the number it was given. *)
LEMMA NewRowTyped ==
  ASSUME NEW t, IsTable(t), NEW a \in Author, NEW s \in Solver \cup {None}, NEW n \in Int
  PROVE  LET r == NewRow(t, a, s, n)
         IN  /\ r \in Row /\ r.number = n
             /\ r.solver = None => r.solverPill = None
BY CountsTyped DEF NewRow, Row, OwnSolverPill

(* The state that adding clue c to an exact archive leaves: the pills of   *)
(* the later clues of its author and solver fall short by one.             *)
ShortByOne(u, c) ==
  \A d \in DOMAIN u :
    LET new   == u[c]
        r     == u[d]
        short == IF r.number > new.number THEN 1 ELSE 0
    IN  /\ IF r.author = new.author
           THEN r.authorPill = AuthorCount(u, r.author, r.number) - short
           ELSE AuthorExact(u, d)
        /\ IF r.solver = new.solver /\ r.solver # None
           THEN r.solverPill = SolverCount(u, r.solver, r.number) - short
           ELSE SolverExact(u, d)

(* The row ingest_clue adds to an exact table counts itself, the rows that *)
(* were there before do not: the recount ran without it.                   *)
LEMMA AddedShort ==
  ASSUME NEW t, IsTable(t), AllExact(t), NEW c, c \notin DOMAIN t,
         NEW a \in Author, NEW s \in Solver \cup {None}, NEW n \in Int,
         \A d \in DOMAIN t : t[d].number # n,
         NEW u, u = WithRow(t, c, NewRow(t, a, s, n))
  PROVE  ShortByOne(u, c)
<1> DEFINE new == NewRow(t, a, s, n)
<1>1. /\ new.number = n /\ new.author = a /\ new.solver = s
      /\ new.authorPill = OwnAuthorPill(t, a, n) /\ new.solverPill = OwnSolverPill(t, s, n)
  BY DEF NewRow
<1>0. u = WithRow(t, c, new)
  OBVIOUS
<1> HIDE DEF new
<1>2. DOMAIN u = DOMAIN t \cup {c} /\ u[c] = new /\ \A d \in DOMAIN t : u[d] = t[d]
  BY <1>0 DEF WithRow
<1>3. \A d \in DOMAIN t : t[d] \in Row /\ t[d].number \in Int
  BY DEF IsTable, Row
<1>4. \A x : \A m \in Int :
        /\ AuthorCount(u, x, m) =
             AuthorCount(t, x, m) + (IF new.author = x /\ new.number <= m THEN 1 ELSE 0)
        /\ x # None => SolverCount(u, x, m) =
             SolverCount(t, x, m) + (IF new.solver = x /\ new.number <= m THEN 1 ELSE 0)
  BY <1>0, CountAdds
<1>5. \A x : \A m \in Int : AuthorCount(t, x, m) \in Nat
                             /\ (x # None => SolverCount(t, x, m) \in Nat)
  <2>1. \A S : S \subseteq DOMAIN t => Cardinality(S) \in Nat
    BY FS_Subset, FS_CardinalityType DEF IsTable
  <2> QED BY <2>1 DEF AuthorCount, SolverCount
<1>6. ASSUME NEW d \in DOMAIN t
      PROVE  LET r     == u[d]
                 short == IF r.number > new.number THEN 1 ELSE 0
             IN  /\ IF r.author = new.author
                    THEN r.authorPill = AuthorCount(u, r.author, r.number) - short
                    ELSE AuthorExact(u, d)
                 /\ IF r.solver = new.solver /\ r.solver # None
                    THEN r.solverPill = SolverCount(u, r.solver, r.number) - short
                    ELSE SolverExact(u, d)
  <2> DEFINE r == t[d]
  <2>1. u[d] = r /\ r.number \in Int /\ r.number # n
    BY <1>2, <1>3
  <2>2. /\ r.authorPill = AuthorCount(t, r.author, r.number)
        /\ r.solverPill = SolverCount(t, r.solver, r.number)
    BY DEF AllExact, AuthorExact, SolverExact
  <2> HIDE DEF r
  <2>3. r.number > n <=> n <= r.number
    BY <2>1
  <2>4. IF r.author = new.author
        THEN r.authorPill = AuthorCount(u, r.author, r.number)
                              - (IF r.number > new.number THEN 1 ELSE 0)
        ELSE r.authorPill = AuthorCount(u, r.author, r.number)
    BY <1>1, <1>4, <1>5, <2>1, <2>2, <2>3
  <2>5. IF r.solver = new.solver /\ r.solver # None
        THEN r.solverPill = SolverCount(u, r.solver, r.number)
                              - (IF r.number > new.number THEN 1 ELSE 0)
        ELSE r.solverPill = SolverCount(u, r.solver, r.number)
    <3>1. CASE r.solver = None
      BY <2>2, <3>1 DEF SolverCount
    <3>2. CASE r.solver # None
      BY <1>1, <1>4, <1>5, <2>1, <2>2, <2>3, <3>2
    <3> QED BY <3>1, <3>2
  <2> QED BY <2>1, <2>4, <2>5 DEF AuthorExact, SolverExact
<1>7. /\ new.authorPill = AuthorCount(u, a, n)
      /\ new.solverPill = SolverCount(u, s, n)
  <2>1. \A d \in DOMAIN t : t[d].number <= n <=> t[d].number <= n - 1
    BY <1>3
  <2>2. /\ AuthorCount(t, a, n) = AuthorCount(t, a, n - 1)
        /\ SolverCount(t, s, n) = SolverCount(t, s, n - 1)
    <3>1. /\ {d \in DOMAIN t : t[d].author = a /\ t[d].number <= n}
               = {d \in DOMAIN t : t[d].author = a /\ t[d].number <= n - 1}
          /\ {d \in DOMAIN t : t[d].solver = s /\ t[d].number <= n}
               = {d \in DOMAIN t : t[d].solver = s /\ t[d].number <= n - 1}
      BY <2>1
    <3> QED BY <3>1 DEF AuthorCount, SolverCount
  <2>3. new.authorPill = AuthorCount(u, a, n)
    BY <1>1, <1>4, <2>2 DEF OwnAuthorPill
  <2>4. CASE s = None
    BY <1>1, <2>3, <2>4 DEF OwnSolverPill, SolverCount
  <2>5. CASE s # None
    BY <1>1, <1>4, <2>2, <2>3, <2>5 DEF OwnSolverPill
  <2> QED BY <2>4, <2>5
<1>8. ~(new.number > new.number)
  BY <1>1
<1>9. LET r     == u[c]
          short == IF r.number > new.number THEN 1 ELSE 0
      IN  /\ IF r.author = new.author
             THEN r.authorPill = AuthorCount(u, r.author, r.number) - short
             ELSE AuthorExact(u, c)
          /\ IF r.solver = new.solver /\ r.solver # None
             THEN r.solverPill = SolverCount(u, r.solver, r.number) - short
             ELSE SolverExact(u, c)
  <2>1. AuthorCount(u, a, n) \in Nat /\ (s # None => SolverCount(u, s, n) \in Nat)
    BY <1>4, <1>5
  <2> QED BY <1>1, <1>2, <1>7, <1>8, <2>1 DEF SolverExact
<1> QED BY <1>2, <1>6, <1>9 DEF ShortByOne

(* ingest_clue without a number adds one clue behind all the others.        *)
LEMMA AppendStep ==
  ASSUME IInv, NEW c \in Clue, NEW a \in Author, NEW s \in Solver \cup {None},
         AppendClue(c, a, s)
  PROVE  /\ GoodStep(clues, clues', c)
         /\ DOMAIN clues' = DOMAIN clues \cup {c} /\ c \notin DOMAIN clues
         /\ AllExact(clues) => ShortByOne(clues', c)
<1>1. /\ IsTable(clues) /\ DOMAIN clues \subseteq Clue
      /\ Distinct(Numbers(clues)) /\ NullFits(clues)
  BY IInvTable
<1>2. PICK n \in NextCandidates(Numbers(clues)) :
        /\ IsNextNumber(Numbers(clues), n)
        /\ clues' = WithRow(clues, c, NewRow(clues, a, s, n))
  BY DEF AppendClue
<1>3. /\ Numbers(clues) \in [DOMAIN clues -> Int]
      /\ \A d \in DOMAIN clues : Numbers(clues)[d] = clues[d].number
  BY <1>1, NumbersTyped
<1>4. n \in Int /\ \A d \in DOMAIN clues : clues[d].number # n
  BY <1>2, <1>3, NextNumberIsNew
<1> DEFINE r == NewRow(clues, a, s, n)
<1>5. r \in Row /\ r.number = n /\ (r.solver = None => r.solverPill = None)
  BY <1>1, <1>4, NewRowTyped
<1>6. c \notin DOMAIN clues /\ clues' = WithRow(clues, c, r)
  BY <1>2 DEF AppendClue
<1>8. AllExact(clues) => ShortByOne(clues', c)
  BY <1>1, <1>4, <1>6, AddedShort
<1> HIDE DEF r
<1>7. \A d \in DOMAIN clues : clues[d].number # r.number
  BY <1>4, <1>5
<1>9. GoodStep(clues, clues', c)
  BY <1>1, <1>5, <1>6, <1>7, WithRowKeeps
<1>10. DOMAIN clues' = DOMAIN clues \cup {c}
  BY <1>6 DEF WithRow
<1> QED BY <1>6, <1>8, <1>9, <1>10

(* ingest_clue with a number adds one clue there and reorders no others.    *)
LEMMA InsertStep ==
  ASSUME IInv, NEW c \in Clue, NEW a \in Author, NEW s \in Solver \cup {None},
         NEW n \in Position, InsertClue(c, a, s, n)
  PROVE  /\ GoodStep(clues, clues', c)
         /\ DOMAIN clues' = DOMAIN clues \cup {c} /\ c \notin DOMAIN clues
         /\ AllExact(clues) => ShortByOne(clues', c)
<1> DEFINE f       == Numbers(clues)
           g       == ShiftUp(f, n)
           shifted == RecomputePills(Renumbered(clues, g), n)
           r       == NewRow(shifted, a, s, n)
<1>1. IsTable(clues) /\ DOMAIN clues \subseteq Clue /\ Distinct(f) /\ NullFits(clues)
  BY IInvTable
<1>2. n \in Int /\ f \in [DOMAIN clues -> Int]
  BY <1>1, PositionAssumption, NumbersTyped
<1>3. clues' = WithRow(shifted, c, r) /\ c \notin DOMAIN clues
  BY DEF InsertClue
<1>4. /\ g \in [DOMAIN clues -> Int]
      /\ \A d \in DOMAIN clues : g[d] # n
      /\ OrderKept(f, g, c)
      /\ Distinct(g)
      /\ SameBelow(f, g, n)
  <2> HIDE DEF f
  <2> QED BY <1>1, <1>2, ShiftUpKeeps, ShiftUpLocal
<1> HIDE DEF g
<1>5. shifted = RecomputePills(Renumbered(clues, g), n)
  OBVIOUS
<1> HIDE DEF shifted
<1>6. /\ IsTable(shifted) /\ DOMAIN shifted = DOMAIN clues /\ Numbers(shifted) = g
      /\ \A d \in DOMAIN clues : /\ AuthorExact(clues, d) => AuthorExact(shifted, d)
                                 /\ SolverExact(clues, d) => SolverExact(shifted, d)
      /\ NullFits(shifted)
  BY <1>1, <1>2, <1>4, <1>5, RenumberingHeals
<1> HIDE DEF f
<1>7. r \in Row /\ r.number = n /\ (r.solver = None => r.solverPill = None)
  BY <1>2, <1>6, NewRowTyped
<1>8. \A d \in DOMAIN shifted : shifted[d].number # n
  BY <1>4, <1>6, NumbersTyped
<1>11. ASSUME AllExact(clues)
       PROVE  ShortByOne(clues', c)
  <2>1. AllExact(shifted)
    BY <1>6, <1>11 DEF AllExact
  <2> QED BY <1>2, <1>3, <1>6, <1>8, <2>1, AddedShort
<1> HIDE DEF r
<1>9. /\ GoodStep(shifted, clues', c)
      /\ \A d \in DOMAIN shifted : Numbers(clues')[d] = Numbers(shifted)[d]
  BY <1>1, <1>3, <1>4, <1>6, <1>7, <1>8, WithRowKeeps
<1>10. OrderKept(f, Numbers(clues'), c)
  BY <1>2, <1>4, <1>6, <1>9 DEF OrderKept
<1>12. GoodStep(clues, clues', c)
  BY <1>6, <1>9, <1>10 DEF GoodStep, f
<1>13. DOMAIN clues' = DOMAIN clues \cup {c}
  BY <1>3, <1>6 DEF WithRow
<1> QED BY <1>3, <1>11, <1>12, <1>13

(* Rewriting fields other than the number keeps a table and its numbers.   *)
LEMMA EditKeeps ==
  ASSUME NEW t, IsTable(t), NEW u, DOMAIN u = DOMAIN t, u \in [DOMAIN t -> Row],
         \A d \in DOMAIN t : u[d].number = t[d].number
  PROVE  IsTable(u) /\ Numbers(u) = Numbers(t)
BY DEF IsTable, Numbers

(* update_clue moves at most its own clue, whatever else it rewrites.  When *)
(* it writes a new author or solver it leaves exact pills on its clue, and  *)
(* when it does not, on every clue that had them or that it renumbers.      *)
LEMMA UpdateStep ==
  ASSUME IInv, NEW c \in Clue, NEW n \in Position \cup {Unset},
         NEW a \in Author \cup {Unset}, NEW s \in Solver \cup {None, Unset},
         UpdateClue(c, n, a, s)
  PROVE  /\ GoodStep(clues, clues', c)
         /\ c \in DOMAIN clues /\ DOMAIN clues' = DOMAIN clues
         /\ \A d \in DOMAIN clues : Renamed(d) => d = c
         /\ Renamed(c) => AuthorExact(clues', c) /\ SolverExact(clues', c)
         /\ ~Renamed(c) => \A d \in DOMAIN clues :
              /\ AuthorExact(clues, d) \/ clues'[d].number # clues[d].number
                   => AuthorExact(clues', d)
              /\ SolverExact(clues, d) \/ clues'[d].number # clues[d].number
                   => SolverExact(clues', d)
<1> DEFINE f      == Numbers(clues)
           g      == MoveTo(f, c, n)
           low    == LowerOf(n, clues[c].number)
           moved  == IF Renumbers(c, n) THEN RecomputePills(Renumbered(clues, g), low)
                     ELSE clues
           edited == [moved EXCEPT ![c].author = Applied(@, a),
                                   ![c].solver = Applied(@, s)]
           row    == edited[c]
           final  == [edited EXCEPT
                        ![c].authorPill = OwnAuthorPill(edited, row.author, row.number),
                        ![c].solverPill = OwnSolverPill(edited, row.solver, row.number)]
           recount == a # Unset \/ s # Unset \/ (n # Unset /\ ~Renumbers(c, n))
<1>1. IsTable(clues) /\ DOMAIN clues \subseteq Clue /\ Distinct(f) /\ NullFits(clues)
  BY IInvTable
<1>2. c \in DOMAIN clues /\ clues' = IF recount THEN final ELSE edited
  BY DEF UpdateClue
<1>3. /\ f \in [DOMAIN clues -> Int] /\ f[c] = clues[c].number
      /\ \A d \in DOMAIN clues : f[d] = clues[d].number
  BY <1>1, <1>2, NumbersTyped
<1>4. /\ IsTable(moved) /\ DOMAIN moved = DOMAIN clues /\ NullFits(moved)
      /\ Distinct(Numbers(moved)) /\ OrderKept(f, Numbers(moved), c)
      /\ \A d \in DOMAIN clues :
           /\ moved[d].author = clues[d].author /\ moved[d].solver = clues[d].solver
           /\ AuthorExact(clues, d) \/ Numbers(moved)[d] # clues[d].number
                => AuthorExact(moved, d)
           /\ SolverExact(clues, d) \/ Numbers(moved)[d] # clues[d].number
                => SolverExact(moved, d)
  <2>1. CASE ~Renumbers(c, n)
    <3>1. moved = clues
      BY <2>1
    <3> HIDE DEF moved
    <3> QED BY <1>1, <1>3, <3>1 DEF OrderKept
  <2>2. CASE Renumbers(c, n)
    <3>1. n \in Int /\ low \in Int /\ low <= n /\ low <= f[c]
      <4>1. n \in Int /\ f[c] \in Int
        BY <1>2, <1>3, <2>2, PositionAssumption DEF Renumbers
      <4>2. low = LowerOf(n, f[c])
        BY <1>3
      <4> HIDE DEF f, low
      <4> QED BY <4>1, <4>2 DEF LowerOf
    <3>2. moved = RecomputePills(Renumbered(clues, g), low)
      BY <2>2
    <3> HIDE DEF moved, low
    <3>3. /\ g \in [DOMAIN clues -> Int] /\ Distinct(g) /\ OrderKept(f, g, c)
          /\ SameBelow(f, g, low)
      <4> HIDE DEF f
      <4> QED BY <1>1, <1>2, <1>3, <3>1, MoveToKeeps, MoveToLocal
    <3> HIDE DEF g
    <3>4. /\ IsTable(moved) /\ DOMAIN moved = DOMAIN clues /\ Numbers(moved) = g
          /\ \A d \in DOMAIN clues : moved[d].author = clues[d].author
                                  /\ moved[d].solver = clues[d].solver
          /\ \A d \in DOMAIN clues :
               /\ AuthorExact(clues, d) \/ g[d] # clues[d].number => AuthorExact(moved, d)
               /\ SolverExact(clues, d) \/ g[d] # clues[d].number => SolverExact(moved, d)
          /\ NullFits(clues) => NullFits(moved)
      BY <1>1, <3>1, <3>2, <3>3, RenumberingHeals
    <3> HIDE DEF f
    <3> QED BY <1>1, <3>3, <3>4
  <2> QED BY <2>1, <2>2
<1> HIDE DEF f, moved
<1>5. /\ edited \in [DOMAIN clues -> Row] /\ DOMAIN edited = DOMAIN clues
      /\ \A d \in DOMAIN clues : /\ edited[d].number = moved[d].number
                                 /\ edited[d].authorPill = moved[d].authorPill
                                 /\ edited[d].solverPill = moved[d].solverPill
      /\ \A d \in DOMAIN clues \ {c} : edited[d] = moved[d]
      /\ edited[c].author = Applied(moved[c].author, a)
      /\ edited[c].solver = Applied(moved[c].solver, s)
  <2>1. moved[c] \in Row
    BY <1>2, <1>4 DEF IsTable
  <2>2. /\ Applied(moved[c].author, a) \in Author
        /\ Applied(moved[c].solver, s) \in Solver \cup {None}
    BY <2>1 DEF Applied, Row
  <2>3. edited = [moved EXCEPT ![c] = [moved[c] EXCEPT
                    !.author = Applied(moved[c].author, a),
                    !.solver = Applied(moved[c].solver, s)]]
    BY <1>2, <1>4, <2>1 DEF IsTable, Row
  <2> HIDE DEF edited
  <2>4. DOMAIN edited = DOMAIN clues /\ \A d \in DOMAIN clues \ {c} : edited[d] = moved[d]
    BY <1>4, <2>3
  <2>5. edited[c] = [moved[c] EXCEPT !.author = Applied(moved[c].author, a),
                                     !.solver = Applied(moved[c].solver, s)]
    BY <1>2, <1>4, <2>3
  <2>6. edited \in [DOMAIN clues -> Row]
    BY <1>2, <1>4, <2>1, <2>2, <2>3 DEF IsTable, Row
  <2>7. /\ edited[c].number = moved[c].number
        /\ edited[c].authorPill = moved[c].authorPill
        /\ edited[c].solverPill = moved[c].solverPill
        /\ edited[c].author = Applied(moved[c].author, a)
        /\ edited[c].solver = Applied(moved[c].solver, s)
    BY <2>1, <2>5 DEF Row
  <2> QED BY <2>4, <2>6, <2>7
<1> HIDE DEF edited
<1>6. IsTable(edited) /\ Numbers(edited) = Numbers(moved)
  BY <1>4, <1>5, EditKeeps
<1>7. /\ final \in [DOMAIN clues -> Row] /\ DOMAIN final = DOMAIN clues
      /\ \A d \in DOMAIN clues : /\ final[d].number = edited[d].number
                                 /\ final[d].author = edited[d].author
                                 /\ final[d].solver = edited[d].solver
      /\ \A d \in DOMAIN clues \ {c} : final[d] = edited[d]
      /\ final[c].authorPill = OwnAuthorPill(edited, row.author, row.number)
      /\ final[c].solverPill = OwnSolverPill(edited, row.solver, row.number)
  <2>1. edited[c] \in Row
    BY <1>2, <1>5
  <2>2. /\ OwnAuthorPill(edited, row.author, row.number) \in Nat
        /\ OwnSolverPill(edited, row.solver, row.number) \in Nat \cup {None}
    BY <1>6, <2>1, CountsTyped DEF Row
  <2>3. final = [edited EXCEPT ![c] = [edited[c] EXCEPT
                    !.authorPill = OwnAuthorPill(edited, row.author, row.number),
                    !.solverPill = OwnSolverPill(edited, row.solver, row.number)]]
    BY <1>2, <1>5, <2>1 DEF Row
  <2> HIDE DEF final
  <2>4. DOMAIN final = DOMAIN clues /\ \A d \in DOMAIN clues \ {c} : final[d] = edited[d]
    BY <1>5, <2>3
  <2>5. final[c] = [edited[c] EXCEPT
                      !.authorPill = OwnAuthorPill(edited, row.author, row.number),
                      !.solverPill = OwnSolverPill(edited, row.solver, row.number)]
    BY <1>2, <1>5, <2>3
  <2>6. final \in [DOMAIN clues -> Row]
    BY <1>2, <1>5, <2>1, <2>2, <2>3 DEF Row
  <2>7. /\ final[c].number = edited[c].number /\ final[c].author = edited[c].author
        /\ final[c].solver = edited[c].solver
        /\ final[c].authorPill = OwnAuthorPill(edited, row.author, row.number)
        /\ final[c].solverPill = OwnSolverPill(edited, row.solver, row.number)
    BY <2>1, <2>5 DEF Row
  <2> QED BY <2>4, <2>6, <2>7
<1>8. IsTable(final) /\ Numbers(final) = Numbers(edited)
  <2> HIDE DEF final
  <2> QED BY <1>5, <1>6, <1>7, EditKeeps
<1>9. AuthorExact(final, c) /\ SolverExact(final, c) /\ NullFits(final)
  <2> HIDE DEF final
  <2>1. /\ final[c].authorPill = AuthorCount(edited, row.author, row.number)
        /\ final[c].solverPill = SolverCount(edited, row.solver, row.number)
    BY <1>2, <1>4, <1>5, <1>6, <1>7, OwnPillExact
  <2>2. /\ AuthorCount(final, row.author, row.number) = AuthorCount(edited, row.author, row.number)
        /\ SolverCount(final, row.solver, row.number) = SolverCount(edited, row.solver, row.number)
    BY <1>5, <1>7, CountsAgree
  <2>3. NullFits(final)
    BY <1>2, <1>4, <1>5, <1>7 DEF NullFits, OwnSolverPill
  <2> QED BY <1>2, <1>7, <2>1, <2>2, <2>3 DEF AuthorExact, SolverExact
<1>10. /\ IsTable(clues') /\ DOMAIN clues' = DOMAIN clues
       /\ Numbers(clues') = Numbers(moved)
       /\ \A d \in DOMAIN clues : /\ clues'[d].number = moved[d].number
                                  /\ clues'[d].author = edited[d].author
                                  /\ clues'[d].solver = edited[d].solver
       /\ \A d \in DOMAIN clues \ {c} : clues'[d] = moved[d]
  <2> HIDE DEF final
  <2> QED BY <1>2, <1>5, <1>6, <1>7, <1>8
<1>11. ~recount => a = Unset /\ s = Unset
  OBVIOUS
<1>12. CASE recount
  <2>1. clues' = final
    BY <1>2, <1>12
  <2> HIDE DEF final, recount
  <2>2. ASSUME ~Renamed(c), NEW d \in DOMAIN clues
        PROVE  /\ AuthorExact(clues, d) \/ clues'[d].number # clues[d].number
                    => AuthorExact(clues', d)
               /\ SolverExact(clues, d) \/ clues'[d].number # clues[d].number
                    => SolverExact(clues', d)
    <3>1. CASE d = c
      BY <1>9, <2>1, <3>1
    <3>2. CASE d # c
      <4>1. /\ DOMAIN final = DOMAIN moved
            /\ \A e \in DOMAIN moved : /\ final[e].author = moved[e].author
                                       /\ final[e].solver = moved[e].solver
                                       /\ final[e].number = moved[e].number
        BY <1>2, <1>4, <1>5, <1>7, <2>1, <2>2 DEF Renamed
      <4>2. /\ \A x : AuthorCount(final, x, moved[d].number) = AuthorCount(moved, x, moved[d].number)
            /\ \A x : SolverCount(final, x, moved[d].number) = SolverCount(moved, x, moved[d].number)
        BY <4>1, CountsAgree
      <4>3. final[d] = moved[d] /\ Numbers(moved)[d] = moved[d].number
        BY <1>4, <1>5, <1>7, <3>2 DEF Numbers
      <4>4. /\ AuthorExact(moved, d) => AuthorExact(final, d)
            /\ SolverExact(moved, d) => SolverExact(final, d)
        BY <4>2, <4>3 DEF AuthorExact, SolverExact
      <4> QED BY <1>4, <2>1, <4>3, <4>4
    <3> QED BY <3>1, <3>2
  <2>3. \A d \in DOMAIN clues : Renamed(d) => d = c
    BY <1>4, <1>10 DEF Renamed
  <2>4. GoodStep(clues, clues', c)
    BY <1>1, <1>2, <1>4, <1>9, <1>10, <2>1 DEF GoodStep, f
  <2> QED BY <1>2, <1>9, <1>10, <2>1, <2>2, <2>3, <2>4
<1>13. CASE ~recount
  <2>1. clues' = edited
    BY <1>2, <1>13
  <2>2. \A d \in DOMAIN clues : /\ edited[d].author = moved[d].author
                               /\ edited[d].solver = moved[d].solver
    BY <1>2, <1>5, <1>11, <1>13 DEF Applied
  <2> HIDE DEF final, recount
  <2>3. ASSUME NEW d \in DOMAIN clues
        PROVE  /\ ~Renamed(d)
               /\ AuthorExact(clues, d) \/ clues'[d].number # clues[d].number
                    => AuthorExact(clues', d)
               /\ SolverExact(clues, d) \/ clues'[d].number # clues[d].number
                    => SolverExact(clues', d)
    <3>1. /\ \A x : AuthorCount(edited, x, moved[d].number) = AuthorCount(moved, x, moved[d].number)
          /\ \A x : SolverCount(edited, x, moved[d].number) = SolverCount(moved, x, moved[d].number)
      <4>1. /\ DOMAIN edited = DOMAIN moved
            /\ \A e \in DOMAIN moved : /\ edited[e].author = moved[e].author
                                        /\ edited[e].solver = moved[e].solver
                                        /\ edited[e].number = moved[e].number
        BY <1>4, <1>5, <2>2
      <4> QED BY <4>1, CountsAgree
    <3>2. /\ AuthorExact(moved, d) => AuthorExact(edited, d)
          /\ SolverExact(moved, d) => SolverExact(edited, d)
      BY <1>5, <2>2, <3>1 DEF AuthorExact, SolverExact
    <3>3. Numbers(moved)[d] = moved[d].number /\ edited[d].number = moved[d].number
      BY <1>4, <1>5 DEF Numbers
    <3> QED BY <1>4, <2>1, <2>2, <3>2, <3>3 DEF Renamed
  <2>4. NullFits(edited)
    BY <1>4, <1>5, <2>2 DEF NullFits
  <2>5. GoodStep(clues, clues', c)
    BY <1>1, <1>2, <1>4, <1>10, <2>1, <2>4 DEF GoodStep, f
  <2> QED BY <1>2, <1>10, <2>3, <2>5
<1> QED BY <1>12, <1>13

(* The delete endpoint removes one clue and leaves the numbers of the rest. *)
LEMMA DeleteStep ==
  ASSUME IInv, NEW c \in Clue, DeleteClue(c)
  PROVE  GoodStep(clues, clues', c)
<1>1. /\ IsTable(clues) /\ DOMAIN clues \subseteq Clue
      /\ Distinct(Numbers(clues)) /\ NullFits(clues)
  BY IInvTable
<1>2. /\ DOMAIN clues' = DOMAIN clues \ {c} /\ c \in DOMAIN clues
      /\ \A d \in DOMAIN clues' : clues'[d] = clues[d]
      /\ clues' \in [DOMAIN clues' -> Row]
  BY <1>1 DEF DeleteClue, IsTable
<1>3. IsFiniteSet(DOMAIN clues')
  BY <1>1, <1>2, FS_Subset DEF IsTable
<1>4. /\ DOMAIN Numbers(clues') = DOMAIN clues' /\ DOMAIN Numbers(clues) = DOMAIN clues
      /\ \A d \in DOMAIN clues' : Numbers(clues')[d] = Numbers(clues)[d]
  BY <1>2 DEF Numbers
<1>5. Distinct(Numbers(clues')) /\ OrderKept(Numbers(clues), Numbers(clues'), c)
  BY <1>1, <1>2, <1>4 DEF Distinct, OrderKept
<1>6. NullFits(clues')
  BY <1>1, <1>2 DEF NullFits
<1> QED BY <1>1, <1>2, <1>3, <1>5, <1>6 DEF GoodStep, IsTable

(* The two repairs only write pills: the script makes every pill exact,    *)
(* the migration every solver pill, whatever they were before.             *)
LEMMA RepairStep ==
  ASSUME IInv, BackfillPills \/ RecountSolverPills
  PROVE  /\ GoodStep(clues, clues', None)
         /\ DOMAIN clues' = DOMAIN clues
         /\ \A d \in DOMAIN clues : ~Renamed(d) /\ clues'[d].number = clues[d].number
         /\ \A d \in DOMAIN clues : SolverExact(clues', d)
         /\ AllExact(clues) => AllExact(clues')
<1>1. /\ IsTable(clues) /\ DOMAIN clues \subseteq Clue
      /\ Distinct(Numbers(clues)) /\ NullFits(clues)
  BY IInvTable
<1>2. \A d \in DOMAIN clues :
        /\ clues[d] \in Row
        /\ AuthorCount(clues, clues[d].author, clues[d].number) \in Nat
        /\ SolverCount(clues, clues[d].solver, clues[d].number) \in Nat \cup {None}
  BY <1>1, CountsTyped DEF IsTable, Row
<1>3. /\ DOMAIN clues' = DOMAIN clues
      /\ clues' \in [DOMAIN clues -> Row]
      /\ \A d \in DOMAIN clues :
           /\ clues'[d].number = clues[d].number
           /\ clues'[d].author = clues[d].author
           /\ clues'[d].solver = clues[d].solver
           /\ clues'[d].solverPill = SolverCount(clues, clues[d].solver, clues[d].number)
           /\ \/ clues'[d].authorPill = clues[d].authorPill
              \/ clues'[d].authorPill = AuthorCount(clues, clues[d].author, clues[d].number)
  <2>1. CASE BackfillPills
    BY <1>2, <2>1 DEF BackfillPills, Row
  <2>2. CASE RecountSolverPills
    <3>1. \A d \in DOMAIN clues : clues[d].solver = None =>
            clues[d].solverPill = SolverCount(clues, clues[d].solver, clues[d].number)
      BY <1>1 DEF NullFits, SolverCount
    <3> QED BY <1>2, <2>2, <3>1 DEF RecountSolverPills, Row
  <2> QED BY <2>1, <2>2
<1>4. IsTable(clues') /\ Numbers(clues') = Numbers(clues)
  BY <1>1, <1>3, EditKeeps
<1>5. \A n : /\ \A a : AuthorCount(clues', a, n) = AuthorCount(clues, a, n)
             /\ \A s : SolverCount(clues', s, n) = SolverCount(clues, s, n)
  BY <1>3, CountsAgree
<1>6. NullFits(clues')
  BY <1>3 DEF NullFits, SolverCount
<1>7. \A d \in DOMAIN clues : SolverExact(clues', d)
  BY <1>3, <1>5 DEF SolverExact
<1>8. AllExact(clues) => AllExact(clues')
  BY <1>3, <1>5, <1>7 DEF AllExact, AuthorExact
<1>9. \A d \in DOMAIN clues : ~Renamed(d)
  BY <1>3 DEF Renamed
<1> QED BY <1>1, <1>3, <1>4, <1>6, <1>7, <1>8, <1>9 DEF GoodStep, OrderKept

(* The empty archive satisfies the invariant and Chain's initial predicate. *)
LEMMA InitIInv == Init => IInv /\ ChainOrder!Init
<1> SUFFICES ASSUME Init PROVE IInv /\ ChainOrder!Init
  OBVIOUS
<1>1. DOMAIN clues = {} /\ clues \in [DOMAIN clues -> Row]
  BY DEF Init
<1> QED BY <1>1, FS_EmptySet DEF IInv, TypeOK, UniqueNumbers, NullFits, Distinct, Numbers,
                                ChainOrder!Init, ChainOrder!Distinct

(* Every step touches at most one clue. *)
LEMMA NextGood ==
  ASSUME IInv, Next
  PROVE  \E m \in Clue \cup {None} : GoodStep(clues, clues', m)
<1>1. CASE Append  BY <1>1, AppendStep DEF Append
<1>2. CASE Insert  BY <1>2, InsertStep DEF Insert
<1>3. CASE Update  BY <1>3, UpdateStep DEF Update
<1>4. CASE Delete  BY <1>4, DeleteStep DEF Delete
<1>5. CASE BackfillPills \/ RecountSolverPills
  BY <1>5, RepairStep
<1> QED BY <1>1, <1>2, <1>3, <1>4, <1>5 DEF Next

(* A step keeps the invariant, and is a step of Chain or a stutter.         *)
LEMMA StepKeeps == IInv /\ [Next]_vars => IInv' /\ [ChainOrder!Next]_(Numbers(clues))
<1> SUFFICES ASSUME IInv, [Next]_vars
             PROVE  IInv' /\ [ChainOrder!Next]_(Numbers(clues))
  OBVIOUS
<1>1. CASE UNCHANGED vars
  BY <1>1 DEF vars, IInv, TypeOK, UniqueNumbers, Numbers
<1>2. CASE Next
  <2>1. PICK m \in Clue \cup {None} : GoodStep(clues, clues', m)
    BY <1>2, NextGood
  <2>2. IInv'
    BY <2>1 DEF GoodStep, IInv, TypeOK, UniqueNumbers, IsTable
  <2>3. ChainOrder!Touch(m)
    BY <2>1 DEF GoodStep, Numbers, Distinct, OrderKept,
                ChainOrder!Touch, ChainOrder!Distinct, ChainOrder!OrderKept
  <2> QED BY <2>1, <2>2, <2>3 DEF ChainOrder!Next
<1> QED BY <1>1, <1>2

-----------------------------------------------------------------------------

(* The inductive invariant holds in every reachable state. *)
THEOREM Invariance == Spec => []IInv
BY InitIInv, StepKeeps, PTL DEF Spec

(* Every row stays well formed, whatever the sizes of the archive.         *)
THEOREM TypeCorrect == Spec => []TypeOK
<1>1. IInv => TypeOK
  BY DEF IInv
<1> QED BY Invariance, <1>1, PTL

(* uq_clues_legacy_number can always be recreated: no sequence of appends, *)
(* inserts, moves and deletes gives two clues one number.                  *)
THEOREM NumbersUnique == Spec => []UniqueNumbers
<1>1. IInv => UniqueNumbers
  BY DEF IInv
<1> QED BY Invariance, <1>1, PTL

(* The archive implements Chain: no operation reorders two clues it was    *)
(* not asked to move, and none touches more than one.                      *)
THEOREM ArchiveIsChain == Spec => ImplementsChain
BY InitIInv, StepKeeps, Invariance, PTL DEF Spec, ImplementsChain, ChainOrder!Spec

-----------------------------------------------------------------------------
(* The pills *)

(* A step adds one clue, or updates one, or repairs, or deletes: what each  *)
(* does to the pills, gathered from the lemmas above.                       *)
LEMMA StepCases ==
  ASSUME IInv, Next
  PROVE  \/ \E c \in Clue : /\ DOMAIN clues' = DOMAIN clues \cup {c} /\ c \notin DOMAIN clues
                            /\ AllExact(clues) => ShortByOne(clues', c)
         \/ \E c \in Clue :
              /\ c \in DOMAIN clues /\ DOMAIN clues' = DOMAIN clues
              /\ \A d \in DOMAIN clues : Renamed(d) => d = c
              /\ Renamed(c) => AuthorExact(clues', c) /\ SolverExact(clues', c)
              /\ ~Renamed(c) => \A d \in DOMAIN clues :
                   /\ AuthorExact(clues, d) \/ clues'[d].number # clues[d].number
                        => AuthorExact(clues', d)
                   /\ SolverExact(clues, d) \/ clues'[d].number # clues[d].number
                        => SolverExact(clues', d)
         \/ /\ DOMAIN clues' = DOMAIN clues
            /\ \A d \in DOMAIN clues : ~Renamed(d) /\ clues'[d].number = clues[d].number
            /\ AllExact(clues) => AllExact(clues')
         \/ \E c \in Clue : c \in DOMAIN clues /\ DOMAIN clues' = DOMAIN clues \ {c}
<1>1. CASE Append  BY <1>1, AppendStep DEF Append
<1>2. CASE Insert  BY <1>2, InsertStep DEF Insert
<1>3. CASE Update
  <2>1. PICK c \in Clue, n \in Position \cup {Unset}, a \in Author \cup {Unset},
             s \in Solver \cup {None, Unset} : UpdateClue(c, n, a, s)
    BY <1>3 DEF Update
  <2> QED BY <2>1, UpdateStep
<1>4. CASE Delete  BY <1>4 DEF Delete, DeleteClue
<1>5. CASE BackfillPills \/ RecountSolverPills
  BY <1>5, RepairStep
<1> QED BY <1>1, <1>2, <1>3, <1>4, <1>5 DEF Next

(* How far InsertKeepsPills is from the truth: adding a clue to an exact    *)
(* archive, in the middle or at the end, leaves the later pills of its      *)
(* author and solver short by exactly one and every other pill exact, its   *)
(* own included.  The recount of ingest_clue runs before the row is there.  *)
THEOREM InsertsFallShort ==
  Spec => [][AllExact(clues) => \A c \in Added : ShortByOne(clues', c)]_vars
<1>1. IInv /\ [Next]_vars => (AllExact(clues) => \A c \in Added : ShortByOne(clues', c))
  <2> SUFFICES ASSUME IInv, [Next]_vars, AllExact(clues), NEW c \in Added
               PROVE  ShortByOne(clues', c)
    OBVIOUS
  <2>1. Next
    BY DEF vars, Added
  <2>2. PICK m \in Clue : /\ DOMAIN clues' = DOMAIN clues \cup {m}
                          /\ AllExact(clues) => ShortByOne(clues', m)
    BY <2>1, StepCases DEF Added
  <2> QED BY <2>2 DEF Added
<1> QED BY <1>1, Invariance, PTL DEF Spec

(* Pills drift only by a delete, an edit of a name or an insert before      *)
(* other clues: a move renumbers any number of clues and still recounts     *)
(* every pill it could have made wrong.                                     *)
THEOREM PillsStayExact == Spec => ExactUnlessRewritten
<1> DEFINE Exact ==
      AllExact(clues) =>
        \/ AllExact(clues')
        \/ ~(DOMAIN clues \subseteq DOMAIN clues')
        \/ \E c \in Kept : Renamed(c)
        \/ \E c \in Added, d \in Kept : clues'[c].number < clues'[d].number
<1>1. IInv /\ [Next]_vars => Exact
  <2> SUFFICES ASSUME IInv, [Next]_vars, AllExact(clues),
                      DOMAIN clues \subseteq DOMAIN clues',
                      \A c \in Kept : ~Renamed(c),
                      \A c \in Added, d \in Kept : ~(clues'[c].number < clues'[d].number)
               PROVE  AllExact(clues')
    OBVIOUS
  <2>1. CASE UNCHANGED vars
    BY <2>1 DEF vars
  <2>2. CASE Next
    <3>1. ASSUME NEW c \in Clue, DOMAIN clues' = DOMAIN clues \cup {c}, c \notin DOMAIN clues,
                 ShortByOne(clues', c)
          PROVE  AllExact(clues')
      <4>1. c \in Added /\ \A d \in DOMAIN clues : d \in Kept
        BY <3>1 DEF Added, Kept
      <4>2. IsTable(clues')
        BY <2>2, NextGood DEF GoodStep
      <4>3. \A d \in DOMAIN clues' : clues'[d].number \in Int
        BY <4>2 DEF IsTable, Row
      <4>4. \A d \in DOMAIN clues' : ~(clues'[d].number > clues'[c].number)
        BY <3>1, <4>1, <4>3
      <4>5. ASSUME NEW d \in DOMAIN clues'
            PROVE  AuthorExact(clues', d) /\ SolverExact(clues', d)
        <5>1. /\ AuthorCount(clues', clues'[d].author, clues'[d].number) \in Int
              /\ clues'[d].solver # None =>
                   SolverCount(clues', clues'[d].solver, clues'[d].number) \in Int
          <6>1. \A S : S \subseteq DOMAIN clues' => Cardinality(S) \in Int
            BY <4>2, FS_Subset, FS_CardinalityType DEF IsTable
          <6> QED BY <6>1 DEF AuthorCount, SolverCount
        <5> QED BY <3>1, <4>4, <5>1 DEF ShortByOne, AuthorExact, SolverExact
      <4> QED BY <4>5 DEF AllExact
    <3>2. ASSUME NEW c \in Clue, c \in DOMAIN clues, DOMAIN clues' = DOMAIN clues,
                 \A d \in DOMAIN clues :
                   /\ AuthorExact(clues, d) => AuthorExact(clues', d)
                   /\ SolverExact(clues, d) => SolverExact(clues', d)
          PROVE  AllExact(clues')
      BY <3>2 DEF AllExact
    <3>3. \A c \in DOMAIN clues : ~Renamed(c)
      BY DEF Kept
    <3> QED BY <2>2, <3>1, <3>2, <3>3, StepCases
  <2> QED BY <2>1, <2>2
<1> QED BY <1>1, Invariance, PTL DEF Spec, ExactUnlessRewritten

(* What heals, however far the archive had drifted: the clue an update      *)
(* gives a new author or solver, every clue a move renumbers, and all       *)
(* solver pills at a restart of the web app; the last because a clue        *)
(* without a solver, which migration 005 skips, never keeps a pill.         *)
THEOREM UpdatesAndRestartsHeal == Spec => DriftHeals
<1> DEFINE Heals ==
      /\ RecountSolverPills => \A d \in DOMAIN clues' : SolverExact(clues', d)
      /\ DOMAIN clues' = DOMAIN clues =>
        \A c \in DOMAIN clues :
          \/ Renamed(c)
          \/ clues'[c].number # clues[c].number /\ ~\E d \in DOMAIN clues : Renamed(d)
          => AuthorExact(clues', c) /\ SolverExact(clues', c)
<1>1. IInv /\ [Next]_vars => Heals
  <2>1. ASSUME IInv, RecountSolverPills
        PROVE  \A d \in DOMAIN clues' : SolverExact(clues', d)
    BY <2>1, RepairStep
  <2>2. ASSUME IInv, [Next]_vars, DOMAIN clues' = DOMAIN clues, NEW c \in DOMAIN clues,
               \/ Renamed(c)
               \/ clues'[c].number # clues[c].number /\ ~\E d \in DOMAIN clues : Renamed(d)
        PROVE  AuthorExact(clues', c) /\ SolverExact(clues', c)
    <3>1. Next
      BY <2>2 DEF vars, Renamed
    <3>2. PICK m \in Clue :
              /\ m \in DOMAIN clues
              /\ \A d \in DOMAIN clues : Renamed(d) => d = m
              /\ Renamed(m) => AuthorExact(clues', m) /\ SolverExact(clues', m)
              /\ ~Renamed(m) => \A d \in DOMAIN clues :
                   /\ AuthorExact(clues, d) \/ clues'[d].number # clues[d].number
                        => AuthorExact(clues', d)
                   /\ SolverExact(clues, d) \/ clues'[d].number # clues[d].number
                        => SolverExact(clues', d)
      BY <2>2, <3>1, StepCases
    <3> QED BY <2>2, <3>2
  <2> QED BY <2>1, <2>2
<1> QED BY <1>1, Invariance, PTL DEF Spec, DriftHeals

=============================================================================
