------------------------------ MODULE ClueTxn ------------------------------
(***************************************************************************)
(* The operations of Archive as PostgreSQL transactions of concurrent      *)
(* sessions: the web workers and the ingest daemon.  Each transaction      *)
(* issues its statements one by one under READ COMMITTED; what it writes   *)
(* becomes visible when it commits.  The locks are those the statements    *)
(* take: on the table clues (a SELECT, a row write, DROP INDEX), on a row, *)
(* on a value of the unique index, and the advisory lock of                *)
(* _acquire_renumber_lock.  All are held to the end of the transaction.    *)
(*                                                                         *)
(* A transaction that adds a clue gives it its own name as primary key, so *)
(* a clue of the table is one of Existing or the transaction that added it.*)
(***************************************************************************)
EXTENDS Numbering, FiniteSets

CONSTANTS
  Txn,           \* transactions that may run, each once
  Existing,      \* clues in the table at the start
  Position,      \* legacy_number values a request may carry
  None           \* no clue

ASSUME TxnAssumption == /\ Position \subseteq Int
                        /\ IsFiniteSet(Txn) /\ IsFiniteSet(Existing)
                        /\ Txn \cap Existing = {}
                        /\ None \notin Txn \cup Existing

Clue == Existing \cup Txn

Op == [kind : {"append"}] \cup [kind : {"insert"}, at : Position]
      \cup [kind : {"move"}, clue : Clue, at : Position]
      \cup [kind : {"edit", "delete"}, clue : Clue]

VARIABLES
  chain,   \* committed legacy_number of every clue
  op,      \* what each transaction is to do
  pc,      \* how far it is; this alone determines the locks it holds
  seen     \* the number its SELECT returned: max for an append, the target's own for the others

vars == <<chain, op, pc, seen>>

-----------------------------------------------------------------------------
(* Locks *)

Writes == {"edit", "delete", "move"}

(* the strongest mode held on the table clues *)
TableLock(t) ==
  CASE pc[t] = "selected" -> "AccessShare"
    [] pc[t] = "serial" /\ op[t].kind = "move" -> "AccessShare"
    [] pc[t] \in {"nulled", "written"} -> "RowExclusive"
    [] pc[t] = "exclusive" -> "AccessExclusive"
    [] OTHER -> "none"

HoldsAdvisory(t) == pc[t] \in {"serial", "nulled", "exclusive"}

HoldsRow(t, c) == /\ op[t].kind \in Writes /\ op[t].clue = c
                  /\ pc[t] \in {"nulled", "written", "exclusive"}

TableHolders(modes) == {u \in Txn : TableLock(u) \in modes}
AdvisoryHolders     == {u \in Txn : HoldsAdvisory(u)}
RowHolders(c)       == {u \in Txn : HoldsRow(u, c)}

(* transactions whose unfinished write decides whether the number n is     *)
(* taken: another insert of n, or a write to the clue that has it          *)
IndexHolders(n) ==
  {u \in Txn : \/ op[u].kind = "append" /\ pc[u] = "written" /\ seen[u] + 1 = n
               \/ \E c \in DOMAIN chain : chain[c] = n /\ HoldsRow(u, c)}

AnyMode == {"AccessShare", "RowExclusive", "AccessExclusive"}

Renumbers(t) == op[t].kind = "move" /\ op[t].at # seen[t]

(* Mutant: an append, too, takes the table lock DROP INDEX needs *)
BlockersUpgrade(t) ==
  (CASE pc[t] = "start" /\ op[t].kind = "insert" -> AdvisoryHolders
     [] pc[t] = "start" /\ op[t].kind # "insert" -> TableHolders({"AccessExclusive"})
     [] pc[t] = "selected" /\ Renumbers(t) -> AdvisoryHolders
     [] pc[t] = "selected" /\ op[t].kind # "append" /\ ~Renumbers(t) -> RowHolders(op[t].clue)
     [] pc[t] = "serial" /\ op[t].kind = "move" -> RowHolders(op[t].clue)
     [] \/ pc[t] \in {"nulled", "serial"}
        \/ pc[t] = "selected" /\ op[t].kind = "append" -> TableHolders(AnyMode)
     [] OTHER -> {}) \ {t}

(* who keeps t's next statement waiting *)
Blockers(t) ==
  (CASE pc[t] = "start" /\ op[t].kind = "insert" -> AdvisoryHolders
     [] pc[t] = "start" /\ op[t].kind # "insert" -> TableHolders({"AccessExclusive"})
     [] pc[t] = "selected" /\ op[t].kind = "append" -> IndexHolders(seen[t] + 1)
     [] pc[t] = "selected" /\ Renumbers(t) -> AdvisoryHolders
     [] pc[t] = "selected" /\ op[t].kind # "append" /\ ~Renumbers(t) -> RowHolders(op[t].clue)
     [] pc[t] = "serial" /\ op[t].kind = "insert" -> TableHolders(AnyMode)
     [] pc[t] = "serial" /\ op[t].kind = "move" -> RowHolders(op[t].clue)
     [] pc[t] = "nulled" -> TableHolders(AnyMode)
     [] OTHER -> {}) \ {t}

Granted(t) == Blockers(t) = {}

(* t waits, directly or not, for itself *)
InCycle(t) ==
  \E S \in SUBSET Txn :
    /\ t \in S
    /\ \A u \in S : /\ Blockers(u) \cap S # {}
                    /\ \E v \in S : u \in Blockers(v)

-----------------------------------------------------------------------------
(* Statements *)

Goto(t, l) == pc' = [pc EXCEPT ![t] = l]

Running(t) == pc[t] \in {"start", "selected", "serial", "nulled", "written", "exclusive"}

(* Mutant: a request for a clue that is not there waits for it *)
SelectWaiting(t) ==
  /\ pc[t] = "start" /\ op[t].kind # "insert" /\ Granted(t)
  /\ IF op[t].kind = "append"
     THEN \E n \in NextCandidates(chain) :
            IsNextNumber(chain, n) /\ seen' = [seen EXCEPT ![t] = n - 1]
     ELSE op[t].clue \in DOMAIN chain /\ seen' = [seen EXCEPT ![t] = chain[op[t].clue]]
  /\ Goto(t, "selected")
  /\ UNCHANGED <<chain, op>>

(* The first SELECT on clues: max(legacy_number) for an append, the target *)
(* row for the others, which end (404) when it is not there.               *)
Select(t) ==
  /\ pc[t] = "start" /\ op[t].kind # "insert" /\ Granted(t)
  /\ IF op[t].kind = "append"
     THEN /\ \E n \in NextCandidates(chain) :
               IsNextNumber(chain, n) /\ seen' = [seen EXCEPT ![t] = n - 1]
          /\ Goto(t, "selected")
     ELSE IF op[t].clue \in DOMAIN chain
          THEN seen' = [seen EXCEPT ![t] = chain[op[t].clue]] /\ Goto(t, "selected")
          ELSE UNCHANGED seen /\ Goto(t, "aborted")
  /\ UNCHANGED <<chain, op>>

(* pg_advisory_xact_lock: first thing in an insert, after the SELECT in a  *)
(* move that changes the number                                            *)
Serialise(t) ==
  /\ \/ pc[t] = "start" /\ op[t].kind = "insert"
     \/ pc[t] = "selected" /\ Renumbers(t)
  /\ Granted(t)
  /\ Goto(t, "serial")
  /\ UNCHANGED <<chain, op, seen>>

(* UPDATE clues SET legacy_number = NULL on the clue to move *)
NullNumber(t) ==
  /\ pc[t] = "serial" /\ op[t].kind = "move" /\ Granted(t)
  /\ Goto(t, "nulled")
  /\ UNCHANGED <<chain, op, seen>>

(* Mutant: the shift runs under the advisory lock alone *)
DropIndexUngranted(t) ==
  /\ \/ pc[t] = "serial" /\ op[t].kind = "insert"
     \/ pc[t] = "nulled"
  /\ Goto(t, "exclusive")
  /\ UNCHANGED <<chain, op, seen>>

(* DROP INDEX, which locks out every other user of the table *)
DropIndex(t) ==
  /\ \/ pc[t] = "serial" /\ op[t].kind = "insert"
     \/ pc[t] = "nulled"
  /\ Granted(t)
  /\ Goto(t, "exclusive")
  /\ UNCHANGED <<chain, op, seen>>

(* Mutant: there is no unique index to refuse a number *)
WriteUnchecked(t) ==
  /\ pc[t] = "selected" /\ ~Renumbers(t) /\ Granted(t)
  /\ LET fails == op[t].kind \notin {"append", "delete"} /\ op[t].clue \notin DOMAIN chain
     IN  Goto(t, IF fails THEN "aborted" ELSE "written")
  /\ UNCHANGED <<chain, op, seen>>

(* The INSERT of an append, and the UPDATE or DELETE of a single row: they *)
(* fail on a number already taken and on a row that went (a delete of a    *)
(* missing row is only a warning).                                         *)
Write(t) ==
  /\ pc[t] = "selected" /\ ~Renumbers(t) /\ Granted(t)
  /\ LET fails == IF op[t].kind = "append"
                  THEN \E c \in DOMAIN chain : chain[c] = seen[t] + 1
                  ELSE op[t].kind # "delete" /\ op[t].clue \notin DOMAIN chain
     IN  Goto(t, IF fails THEN "aborted" ELSE "written")
  /\ UNCHANGED <<chain, op, seen>>

WithClue(f, c, n) == [d \in DOMAIN f \cup {c} |-> IF d = c THEN n ELSE f[d]]
Without(f, c)     == [d \in DOMAIN f \ {c} |-> f[d]]

(* COMMIT of a transaction that did not renumber *)
Commit(t) ==
  /\ pc[t] = "written"
  /\ chain' = CASE op[t].kind = "append" -> WithClue(chain, t, seen[t] + 1)
                [] op[t].kind = "delete" -> Without(chain, op[t].clue)
                [] OTHER -> chain
  /\ Goto(t, "committed")
  /\ UNCHANGED <<op, seen>>

(* The shift of a move runs over the committed rows, from the number the   *)
(* SELECT returned: the code never looks at the row again.                 *)
ShiftFrom(t) == MoveTo([chain EXCEPT ![op[t].clue] = seen[t]], op[t].clue, op[t].at)

(* Bulk shift, CREATE UNIQUE INDEX, INSERT or UPDATE, COMMIT: one step,    *)
(* for the table lock keeps everyone else out.  A moved clue deleted in    *)
(* the meantime fails the flush.                                           *)
CommitRenumbering(t) ==
  /\ pc[t] = "exclusive"
  /\ IF op[t].kind = "insert"
     THEN /\ chain' = WithClue(ShiftUp(chain, op[t].at), t, op[t].at)
          /\ Goto(t, "committed")
     ELSE IF op[t].clue \in DOMAIN chain
          THEN chain' = ShiftFrom(t) /\ Goto(t, "committed")
          ELSE UNCHANGED chain /\ Goto(t, "aborted")
  /\ UNCHANGED <<op, seen>>

(* PostgreSQL's deadlock detector rolls back a member of a wait cycle *)
DeadlockDetected(t) ==
  /\ Running(t) /\ InCycle(t)
  /\ Goto(t, "aborted")
  /\ UNCHANGED <<chain, op, seen>>

(* the request is cancelled or its process dies: rollback *)
Fail(t) ==
  /\ Running(t)
  /\ Goto(t, "aborted")
  /\ UNCHANGED <<chain, op, seen>>

-----------------------------------------------------------------------------

(* Existing clues are numbered without gaps, as import_csv.py leaves them. *)
Init ==
  /\ chain \in {f \in [Existing -> 1..Cardinality(Existing)] : Distinct(f)}
  /\ op \in [Txn -> Op]
  /\ pc = [t \in Txn |-> "start"]
  /\ seen = [t \in Txn |-> 0]

Step(t) == \/ Select(t) \/ Serialise(t) \/ NullNumber(t) \/ DropIndex(t)
           \/ Write(t) \/ Commit(t) \/ CommitRenumbering(t)

Next == \E t \in Txn : Step(t) \/ DeadlockDetected(t) \/ Fail(t)

(* Each session goes on with its transaction, and the deadlock detector    *)
(* runs; nobody has to cancel.                                             *)
Fairness == \A t \in Txn : WF_vars(Step(t)) /\ WF_vars(DeadlockDetected(t))

Spec == Init /\ [][Next]_vars /\ Fairness

-----------------------------------------------------------------------------
(* Properties *)

(* However the statements interleave, the committed archive changes one    *)
(* clue at a time and never holds a number twice.                          *)
ChainOrder == INSTANCE Chain

ImplementsChain == ChainOrder!Spec

(* update_clue reads the old number before it takes the advisory lock and  *)
(* shifts by it afterwards.  It is never stale: the SELECT's own table     *)
(* lock keeps every other renumbering from committing.                     *)
OldNumberCurrent ==
  \A t \in Txn :
    /\ op[t].kind = "move" /\ pc[t] \in {"selected", "serial", "nulled", "exclusive"}
    /\ op[t].clue \in DOMAIN chain
    => seen[t] = chain[op[t].clue]

(* Appends, inserts, edits and deletes alone never wait in a circle: every *)
(* deadlock of the archive has a move in it.                               *)
DeadlockNeedsMove ==
  \A t \in Txn : InCycle(t) =>
    \E u \in Txn : op[u].kind = "move" /\ Running(u) /\ InCycle(u)

(* Every transaction commits or is rolled back: whatever waits, waits for  *)
(* one that ends or is in a cycle the deadlock detector finds.             *)
EveryTxnEnds == \A t \in Txn : <>(pc[t] \in {"committed", "aborted"})

(* What clue_service.py:19-21 and :121-122 say of the advisory lock: the   *)
(* renumberings can never deadlock.  The code breaks it.                   *)
NoDeadlock == \A t \in Txn : ~InCycle(t)

=============================================================================
