------------------------------ MODULE Archive ------------------------------
(***************************************************************************)
(* The clue archive as its committed operations leave it.                  *)
(*                                                                         *)
(* Every clue has a position in the chain (legacy_number) and two pills:   *)
(* "Nth clue by this author" and "Nth clue by this solver", stored when    *)
(* the row is written and never derived on read.  This module takes each   *)
(* call of app/services/clue_service.py, the delete endpoint and the pill  *)
(* repairs as one transaction that ran alone; ClueTxn opens the            *)
(* transactions up and interleaves their statements.                       *)
(***************************************************************************)
EXTENDS Numbering, FiniteSets

CONSTANTS
  Clue,       \* primary keys of the clues table
  Author,     \* display names that post clues
  Solver,     \* display names that solve clues
  Position,   \* legacy_number values a client may send
  None,       \* SQL NULL in the solver columns
  Unset,      \* a field the request does not carry
  MaxNumber   \* bound: no operation leaves a number above this one

ASSUME PositionAssumption == Position \subseteq Int /\ MaxNumber \in Int
ASSUME NullAssumption == /\ None \notin Author \cup Solver \cup Int
                         /\ Unset \notin Author \cup Solver \cup Int \cup {None}

VARIABLE clues   \* the table: a function from the ids in use to their rows

Row == [number     : Int,
        author     : Author,
        solver     : Solver \cup {None},
        authorPill : Nat,
        solverPill : Nat \cup {None}]

-----------------------------------------------------------------------------
(* Counting.  t is a table; the two pills of a clue are counts over it.    *)

AuthorCount(t, a, n) == Cardinality({d \in DOMAIN t : t[d].author = a /\ t[d].number <= n})

SolverCount(t, s, n) ==
  IF s = None THEN None
  ELSE Cardinality({d \in DOMAIN t : t[d].solver = s /\ t[d].number <= n})

(* _recompute_pills: recount every clue at or after a position *)
RecomputePills(t, from) ==
  [d \in DOMAIN t |->
     IF t[d].number < from THEN t[d]
     ELSE [t[d] EXCEPT !.authorPill = AuthorCount(t, t[d].author, t[d].number),
                       !.solverPill = SolverCount(t, t[d].solver, t[d].number)]]

(* Mutant: no NULL for a clue without a solver *)
OwnSolverPillZero(t, s, n) == IF s = None THEN 0 ELSE SolverCount(t, s, n - 1) + 1

(* The pill the code gives a row it writes itself: the clues strictly      *)
(* before it, plus one.                                                    *)
OwnAuthorPill(t, a, n) == AuthorCount(t, a, n - 1) + 1
OwnSolverPill(t, s, n) == IF s = None THEN None ELSE SolverCount(t, s, n - 1) + 1

-----------------------------------------------------------------------------
(* Renumbering: the legacy_number column alone, and writing it back.       *)

Numbers(t) == [d \in DOMAIN t |-> t[d].number]

Renumbered(t, f) == [d \in DOMAIN t |-> [t[d] EXCEPT !.number = f[d]]]

(* Mutant: recompute from the new position even when the clue moved later *)
FirstOf(a, b) == a

(* the first position a move can have touched *)
LowerOf(a, b) == IF a < b THEN a ELSE b

-----------------------------------------------------------------------------
(* The operations *)

NewRow(t, a, s, n) ==
  [number |-> n, author |-> a, solver |-> s,
   authorPill |-> OwnAuthorPill(t, a, n), solverPill |-> OwnSolverPill(t, s, n)]

WithRow(t, c, r) == [d \in DOMAIN t \cup {c} |-> IF d = c THEN r ELSE t[d]]

(* ingest_clue without legacy_number: the clue goes to the end *)
AppendClue(c, a, s) ==
  /\ c \notin DOMAIN clues
  /\ \E n \in NextCandidates(Numbers(clues)) :
       /\ IsNextNumber(Numbers(clues), n)
       /\ n <= MaxNumber
       /\ clues' = WithRow(clues, c, NewRow(clues, a, s, n))

(* ingest_clue with legacy_number: shift, recompute the pills of the       *)
(* shifted clues, and only then add the row                                *)
InsertClue(c, a, s, n) ==
  LET shifted == RecomputePills(Renumbered(clues, ShiftUp(Numbers(clues), n)), n)
  IN  /\ c \notin DOMAIN clues
      /\ \A d \in DOMAIN clues : clues[d].number < MaxNumber
      /\ clues' = WithRow(shifted, c, NewRow(shifted, a, s, n))

(* Mutant: a PUT applies the fields it does not carry *)
AppliedDump(old, new) == new

(* exclude_unset: a field the request does not carry keeps its value *)
Applied(old, new) == IF new = Unset THEN old ELSE new

Renumbers(c, n) == n # Unset /\ n # clues[c].number

(* update_clue: n, a and s are the legacy_number, author and solver of the *)
(* request, Unset when it does not carry them                              *)
UpdateClue(c, n, a, s) ==
  LET moved == IF Renumbers(c, n)
               THEN RecomputePills(Renumbered(clues, MoveTo(Numbers(clues), c, n)),
                                   LowerOf(n, clues[c].number))
               ELSE clues
      edited == [moved EXCEPT ![c].author = Applied(@, a), ![c].solver = Applied(@, s)]
      row    == edited[c]
      \* a renumbering has popped legacy_number from update_data
      recount == a # Unset \/ s # Unset \/ (n # Unset /\ ~Renumbers(c, n))
  IN  /\ c \in DOMAIN clues
      /\ clues' =
           IF recount
           THEN [edited EXCEPT
                   ![c].authorPill = OwnAuthorPill(edited, row.author, row.number),
                   ![c].solverPill = OwnSolverPill(edited, row.solver, row.number)]
           ELSE edited

(* DELETE /api/clues/{id}: the row goes, nothing else changes *)
DeleteClue(c) ==
  /\ c \in DOMAIN clues
  /\ clues' = [d \in DOMAIN clues \ {c} |-> clues[d]]

(* scripts/backfill_pills.py: recount every pill *)
BackfillPills ==
  clues' = [d \in DOMAIN clues |->
              [clues[d] EXCEPT
                 !.authorPill = AuthorCount(clues, clues[d].author, clues[d].number),
                 !.solverPill = SolverCount(clues, clues[d].solver, clues[d].number)]]

(* migration 005, run at every start of the web app: recount the solver    *)
(* pills of the clues that have a solver                                   *)
RecountSolverPills ==
  clues' = [d \in DOMAIN clues |->
              IF clues[d].solver = None THEN clues[d]
              ELSE [clues[d] EXCEPT
                      !.solverPill = SolverCount(clues, clues[d].solver, clues[d].number)]]

-----------------------------------------------------------------------------

Init == clues = [d \in {} |-> None]

Append == \E c \in Clue, a \in Author, s \in Solver \cup {None} : AppendClue(c, a, s)

Insert == \E c \in Clue, a \in Author, s \in Solver \cup {None}, n \in Position :
            InsertClue(c, a, s, n)

Update == \E c \in Clue, n \in Position \cup {Unset}, a \in Author \cup {Unset},
             s \in Solver \cup {None, Unset} : UpdateClue(c, n, a, s)

Delete == \E c \in Clue : DeleteClue(c)

Next == Append \/ Insert \/ Update \/ Delete \/ BackfillPills \/ RecountSolverPills

vars == <<clues>>

Spec == Init /\ [][Next]_vars

-----------------------------------------------------------------------------
(* Properties *)

(* The table is finite and every row is well formed: in particular a       *)
(* request never writes a field it does not carry.                         *)
TypeOK == /\ DOMAIN clues \subseteq Clue
          /\ IsFiniteSet(DOMAIN clues)
          /\ clues \in [DOMAIN clues -> Row]

(* No two clues ever share a legacy_number, whatever mix of appends,       *)
(* mid-chain inserts, moves and deletes led here (the shifts of            *)
(* ingest_clue and update_clue run with the unique index dropped).         *)
UniqueNumbers == Distinct(Numbers(clues))

(* Each operation adds, moves or removes at most one clue and leaves the   *)
(* others in their relative order, however many of them it renumbers.      *)
ChainOrder == INSTANCE Chain WITH chain <- Numbers(clues)

ImplementsChain == ChainOrder!Spec

(* A pill is exact when it is the count clue_service.py:35-37 defines.     *)
AuthorExact(t, d) == t[d].authorPill = AuthorCount(t, t[d].author, t[d].number)
SolverExact(t, d) == t[d].solverPill = SolverCount(t, t[d].solver, t[d].number)
AllExact(t) == \A d \in DOMAIN t : AuthorExact(t, d) /\ SolverExact(t, d)

Renamed(c) == \/ clues'[c].author # clues[c].author
              \/ clues'[c].solver # clues[c].solver

Added == DOMAIN clues' \ DOMAIN clues
Kept  == DOMAIN clues' \cap DOMAIN clues

(* An exact archive stays exact unless a clue is deleted, its author or    *)
(* solver is edited, or a clue is inserted before another: appends and     *)
(* moves, which renumber any number of clues, recompute enough pills.      *)
ExactUnlessRewritten ==
  [][AllExact(clues) =>
       \/ AllExact(clues')
       \/ ~(DOMAIN clues \subseteq DOMAIN clues')
       \/ \E c \in Kept : Renamed(c)
       \/ \E c \in Added, d \in Kept : clues'[c].number < clues'[d].number]_vars

(* "If the inserted clue is by the same author, every later clue by that   *)
(* author gains one.  This recomputes them from scratch for correctness":  *)
(* a clue added to an exact archive leaves it exact.                       *)
InsertKeepsPills ==
  [][Added # {} /\ AllExact(clues) => AllExact(clues')]_vars

(* However far the archive had drifted before: an update leaves exact      *)
(* pills on the clue whose author or solver it changes, and, when it only  *)
(* moves a clue, on every clue it renumbers; and a restart of the web app  *)
(* makes every solver pill exact, although migration 005 skips the clues   *)
(* without a solver.                                                       *)
DriftHeals ==
  [][/\ RecountSolverPills => \A d \in DOMAIN clues' : SolverExact(clues', d)
     /\ DOMAIN clues' = DOMAIN clues =>
       \A c \in DOMAIN clues :
         \/ Renamed(c)
         \/ clues'[c].number # clues[c].number /\ ~\E d \in DOMAIN clues : Renamed(d)
         => AuthorExact(clues', c) /\ SolverExact(clues', c)]_vars

=============================================================================
