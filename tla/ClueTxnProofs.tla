--------------------------- MODULE ClueTxnProofs ---------------------------
(***************************************************************************)
(* Proofs about ClueTxn, for any number of concurrent transactions on an   *)
(* archive of any size.                                                    *)
(*                                                                         *)
(* What the locks guarantee is the invariant Locked: a renumbering has the *)
(* table to itself, and an append that has written its row keeps its       *)
(* number free.  With it a number that was read before the advisory lock   *)
(* is still current, and every commit is a step of Chain.  That no cycle   *)
(* of waits is without a move follows from Blockers alone: the other       *)
(* operations take their locks in one order.                               *)
(***************************************************************************)
EXTENDS ClueTxn, NumberingProofs, FiniteSetTheorems

-----------------------------------------------------------------------------
(* The invariant *)

Place == {"start", "selected", "serial", "nulled", "written", "exclusive",
          "committed", "aborted"}

TypeOK ==
  /\ chain \in [DOMAIN chain -> Int] /\ DOMAIN chain \subseteq Clue
  /\ op \in [Txn -> Op]
  /\ pc \in [Txn -> Place]
  /\ seen \in [Txn -> Int]

(* Each kind of operation has its own way through the statements. *)
Ways ==
  \A t \in Txn :
    /\ pc[t] \in {"selected", "written"} => op[t].kind # "insert"
    /\ pc[t] \in {"serial", "exclusive"} => op[t].kind \in {"insert", "move"}
    /\ pc[t] = "nulled" => op[t].kind = "move"

(* A transaction that is about to shift has the table to itself. *)
TableExclusive ==
  \A t, u \in Txn : pc[t] = "exclusive" /\ u # t => TableLock(u) = "none"

(* A clue enters the table when its transaction commits, and a target that *)
(* was selected did.                                                       *)
Entered ==
  /\ \A t \in Txn : t \in DOMAIN chain => pc[t] = "committed"
  /\ \A t, u \in Txn :
       /\ pc[t] \in {"selected", "serial", "nulled", "written", "exclusive"}
       /\ op[t].kind \in Writes /\ op[t].clue = u
       => pc[u] = "committed"

(* The number of an append that has written is taken by nobody. *)
Reserved ==
  \A t \in Txn : op[t].kind = "append" /\ pc[t] = "written" =>
    /\ \A c \in DOMAIN chain : chain[c] # seen[t] + 1
    /\ \A u \in Txn : op[u].kind = "append" /\ pc[u] = "written" /\ u # t => seen[u] # seen[t]

Locked == /\ TypeOK /\ Ways
          /\ TableExclusive /\ Entered /\ Reserved
          /\ OldNumberCurrent
          /\ Distinct(chain)

-----------------------------------------------------------------------------
(* Cycles of waits *)

(* Whoever a transaction that is no move waits for, in a cycle without     *)
(* moves, waits in turn for somebody further on: an insert for whoever has *)
(* selected, and whoever has selected only for one that writes, which      *)
(* waits for nobody.                                                       *)
LEMMA MoveInCycle ==
  ASSUME TypeOK, Ways, NEW S \in SUBSET Txn, S # {},
         \A u \in S : Blockers(u) \cap S # {}
  PROVE  \E u \in S : op[u].kind = "move" /\ Running(u)
<1>1. \A u \in S : pc[u] \in {"start", "selected", "serial", "nulled"}
  BY DEF Blockers, TypeOK, Place
<1>2. SUFFICES ASSUME \A u \in S : op[u].kind # "move"
               PROVE  FALSE
  BY <1>1 DEF Running
<1>3. \A u \in S : pc[u] # "nulled" /\ op[u].kind \in {"append", "insert", "edit", "delete"}
  BY <1>2 DEF Ways, TypeOK, Op
<1>4. \A u \in S : pc[u] # "selected"
  <2> SUFFICES ASSUME NEW u \in S, pc[u] = "selected"
               PROVE  FALSE
    OBVIOUS
  <2>1. PICK v \in S : v \in Blockers(u)
    OBVIOUS
  <2>2. op[u].kind # "insert" /\ ~Renumbers(u)
    BY <1>2, <1>3 DEF Ways, Renumbers
  <2>3. CASE op[u].kind = "append"
    <3>1. v \in IndexHolders(seen[u] + 1)
      BY <2>1, <2>2, <2>3 DEF Blockers
    <3> QED BY <1>1, <1>3, <3>1 DEF IndexHolders, HoldsRow
  <2>4. CASE op[u].kind # "append"
    <3>1. v \in RowHolders(op[u].clue)
      BY <2>1, <2>2, <2>4 DEF Blockers
    <3> QED BY <1>1, <1>3, <3>1 DEF RowHolders, HoldsRow
  <2> QED BY <2>3, <2>4
<1>5. \A u \in S : TableLock(u) = "none"
  BY <1>1, <1>2, <1>3, <1>4 DEF TableLock
<1>6. \A u \in S : pc[u] # "serial"
  <2> SUFFICES ASSUME NEW u \in S, pc[u] = "serial"
               PROVE  FALSE
    OBVIOUS
  <2>1. PICK v \in S : v \in Blockers(u)
    OBVIOUS
  <2>2. op[u].kind = "insert"
    BY <1>2 DEF Ways
  <2>3. v \in TableHolders(AnyMode)
    BY <2>1, <2>2 DEF Blockers
  <2> QED BY <1>5, <2>3 DEF TableHolders, AnyMode
<1>7. \A u \in S : pc[u] = "start"
  BY <1>1, <1>3, <1>4, <1>6
<1>8. PICK u \in S : TRUE
  OBVIOUS
<1>9. PICK v \in S : v \in Blockers(u)
  OBVIOUS
<1>10. v \in AdvisoryHolders \/ v \in TableHolders({"AccessExclusive"})
  BY <1>7, <1>9 DEF Blockers
<1> QED BY <1>5, <1>7, <1>10 DEF AdvisoryHolders, HoldsAdvisory, TableHolders

(* Every cycle of waits has a move in it.                                  *)
LEMMA CyclesNeedMoves == TypeOK /\ Ways => DeadlockNeedsMove
<1> SUFFICES ASSUME TypeOK, Ways, NEW t \in Txn, InCycle(t)
             PROVE  \E u \in Txn : op[u].kind = "move" /\ Running(u) /\ InCycle(u)
  BY DEF DeadlockNeedsMove
<1>1. PICK S \in SUBSET Txn :
        /\ t \in S
        /\ \A u \in S : /\ Blockers(u) \cap S # {}
                        /\ \E v \in S : u \in Blockers(v)
  BY DEF InCycle
<1>2. PICK u \in S : op[u].kind = "move" /\ Running(u)
  BY <1>1, MoveInCycle
<1>3. InCycle(u)
  BY <1>1, <1>2 DEF InCycle
<1> QED BY <1>2, <1>3

-----------------------------------------------------------------------------
(* Steps that leave the table as it is *)

(* A transaction alone moves from one place to another. *)
Moves(t, l) ==
  /\ pc' = [pc EXCEPT ![t] = l]
  /\ \E n \in Int : seen' = [seen EXCEPT ![t] = n]
  /\ UNCHANGED op

(* A transaction that moves leaves the others where they are.              *)
LEMMA MovesFacts ==
  ASSUME TypeOK, NEW t \in Txn, NEW l \in Place, Moves(t, l)
  PROVE  /\ pc' \in [Txn -> Place] /\ seen' \in [Txn -> Int] /\ op' \in [Txn -> Op]
         /\ pc'[t] = l /\ op' = op
         /\ \A u \in Txn : u # t => pc'[u] = pc[u] /\ seen'[u] = seen[u]
BY DEF TypeOK, Moves

(* A step that does not read leaves what was read.                         *)
LEMMA Unmoved ==
  ASSUME TypeOK, NEW t \in Txn, seen' = seen
  PROVE  \E n \in Int : seen' = [seen EXCEPT ![t] = n]
<1>1. seen[t] \in Int /\ seen = [seen EXCEPT ![t] = seen[t]]
  BY DEF TypeOK
<1> QED BY <1>1

(* A transaction that ends gives back its locks and holds no promise. *)
LEMMA AbortLocked ==
  ASSUME Locked, NEW t \in Txn, Goto(t, "aborted"), UNCHANGED <<chain, op, seen>>, pc[t] # "committed"
  PROVE  Locked'
<1>1. TypeOK /\ Moves(t, "aborted")
  BY Unmoved DEF Locked, Moves, Goto
<1>2. /\ pc' \in [Txn -> Place] /\ pc'[t] = "aborted" /\ op' = op /\ seen' = seen /\ chain' = chain
      /\ \A u \in Txn : u # t => pc'[u] = pc[u]
  BY <1>1, MovesFacts DEF Place
<1>3. TypeOK'
  BY <1>1, <1>2 DEF TypeOK
<1>4. Ways'
  BY <1>2 DEF Locked, Ways
<1>5. TableExclusive'
  BY <1>2 DEF Locked, TableExclusive, TableLock
<1>6. Entered'
  BY <1>2 DEF Locked, Entered
<1>7. Reserved'
  BY <1>2 DEF Locked, Reserved
<1>8. OldNumberCurrent' /\ Distinct(chain)'
  BY <1>2 DEF Locked, OldNumberCurrent, Distinct
<1> QED BY <1>3, <1>4, <1>5, <1>6, <1>7, <1>8 DEF Locked

(* The SELECT reads the number that is committed, and whoever is about to  *)
(* renumber keeps it waiting.                                              *)
LEMMA SelectLocked ==
  ASSUME Locked, NEW t \in Txn, Select(t)
  PROVE  Locked'
<1>1. TypeOK /\ pc[t] = "start" /\ op[t].kind # "insert" /\ UNCHANGED <<chain, op>>
  BY DEF Locked, Select
<1>2. CASE Goto(t, "aborted") /\ UNCHANGED seen
  BY <1>1, <1>2, AbortLocked
<1>3. CASE Goto(t, "selected") /\ op[t].kind = "append"
  <2>1. PICK n \in NextCandidates(chain) : seen' = [seen EXCEPT ![t] = n - 1]
    BY <1>1, <1>3 DEF Select, Goto
  <2>2. n - 1 \in Int
    <3>1. n \in Int
      BY <1>1 DEF NextCandidates, TypeOK
    <3> QED BY <3>1
  <2>3. Moves(t, "selected")
    BY <1>1, <1>3, <2>1, <2>2 DEF Moves, Goto
  <2>4. /\ pc' \in [Txn -> Place] /\ seen' \in [Txn -> Int] /\ pc'[t] = "selected" /\ op' = op /\ chain' = chain
        /\ \A u \in Txn : u # t => pc'[u] = pc[u] /\ seen'[u] = seen[u]
    BY <1>1, <2>3, MovesFacts DEF Place
  <2>5. TypeOK' /\ Ways'
    BY <1>1, <1>3, <2>4 DEF Locked, TypeOK, Ways
  <2>6. TableExclusive'
    <3>1. TableHolders({"AccessExclusive"}) \subseteq {t}
      BY <1>1 DEF Select, Granted, Blockers
    <3>2. \A u \in Txn : u # t => pc[u] # "exclusive"
      BY <3>1 DEF TableHolders, TableLock
    <3> QED BY <2>4, <3>2 DEF Locked, TableExclusive, TableLock
  <2>7. Entered' /\ Reserved' /\ OldNumberCurrent' /\ Distinct(chain)'
    BY <1>1, <1>3, <2>4 DEF Locked, Entered, Reserved, OldNumberCurrent, Distinct, Writes
  <2> QED BY <2>5, <2>6, <2>7 DEF Locked
<1>4. CASE Goto(t, "selected") /\ op[t].kind # "append"
  <2>1. /\ op[t].clue \in DOMAIN chain /\ seen' = [seen EXCEPT ![t] = chain[op[t].clue]]
        /\ chain[op[t].clue] \in Int
    BY <1>1, <1>4 DEF Select, Goto, TypeOK, Place
  <2>2. Moves(t, "selected")
    BY <1>1, <1>4, <2>1 DEF Moves, Goto
  <2>3. /\ pc' \in [Txn -> Place] /\ seen' \in [Txn -> Int] /\ pc'[t] = "selected" /\ op' = op /\ chain' = chain
        /\ \A u \in Txn : u # t => pc'[u] = pc[u] /\ seen'[u] = seen[u]
    BY <1>1, <2>2, MovesFacts DEF Place
  <2>4. seen'[t] = chain[op[t].clue]
    BY <1>1, <2>1 DEF TypeOK
  <2>5. TypeOK' /\ Ways'
    BY <1>1, <1>4, <2>3 DEF Locked, TypeOK, Ways
  <2>6. TableExclusive'
    <3>1. TableHolders({"AccessExclusive"}) \subseteq {t}
      BY <1>1 DEF Select, Granted, Blockers
    <3>2. \A u \in Txn : u # t => pc[u] # "exclusive"
      BY <3>1 DEF TableHolders, TableLock
    <3> QED BY <2>3, <3>2 DEF Locked, TableExclusive, TableLock
  <2>7. Entered'
    BY <1>1, <2>1, <2>3 DEF Locked, Entered
  <2>8. Reserved' /\ OldNumberCurrent' /\ Distinct(chain)'
    BY <1>1, <2>3, <2>4 DEF Locked, Reserved, OldNumberCurrent, Distinct
  <2> QED BY <2>5, <2>6, <2>7, <2>8 DEF Locked
<1> QED BY <1>1, <1>2, <1>3, <1>4 DEF Select

(* On the way to its commit a transaction only gains locks it is granted.  *)
LEMMA AdvanceLocked ==
  ASSUME Locked, NEW t \in Txn, Serialise(t) \/ NullNumber(t) \/ DropIndex(t)
  PROVE  Locked'
<1>1. PICK l \in {"serial", "nulled", "exclusive"} : Goto(t, l)
  BY DEF Serialise, NullNumber, DropIndex
<1>2. TypeOK /\ l \in Place /\ UNCHANGED <<chain, op, seen>>
  BY DEF Locked, Place, Serialise, NullNumber, DropIndex
<1>3. Moves(t, l)
  BY <1>1, <1>2, Unmoved DEF Moves, Goto
<1>4. /\ pc' \in [Txn -> Place] /\ pc'[t] = l /\ op' = op /\ seen' = seen /\ chain' = chain
      /\ \A u \in Txn : u # t => pc'[u] = pc[u]
  BY <1>2, <1>3, MovesFacts
<1>5. /\ l = "serial" => \/ pc[t] = "start" /\ op[t].kind = "insert"
                         \/ pc[t] = "selected" /\ op[t].kind = "move"
      /\ l = "nulled" => pc[t] = "serial" /\ op[t].kind = "move"
      /\ l = "exclusive" => \/ pc[t] = "serial" /\ op[t].kind = "insert"
                            \/ pc[t] = "nulled" /\ op[t].kind = "move"
  BY <1>2, <1>4 DEF Serialise, NullNumber, DropIndex, Renumbers, Goto, Locked, Ways
<1>6. TypeOK' /\ Ways'
  BY <1>2, <1>4, <1>5 DEF Locked, TypeOK, Ways
<1>7. TableExclusive'
  <2>1. CASE l # "exclusive"
    <3>1. TableLock(t)' # "none" => TableLock(t) # "none"
      BY <1>4, <1>5, <2>1 DEF TableLock
    <3> QED BY <1>4, <2>1, <3>1 DEF Locked, TableExclusive, TableLock
  <2>2. CASE l = "exclusive"
    <3>1. DropIndex(t)
      BY <1>1, <1>2, <1>4, <1>5, <2>2 DEF Serialise, NullNumber, DropIndex, Goto, TypeOK
    <3>2. TableHolders(AnyMode) \subseteq {t}
      BY <3>1, <1>5, <2>2 DEF DropIndex, Granted, Blockers
    <3>3. \A u \in Txn : u # t => TableLock(u) = "none"
      BY <1>2, <3>2 DEF TableHolders, AnyMode, TableLock
    <3>4. \A u \in Txn : u # t => pc[u] # "exclusive"
      BY <3>3 DEF TableLock
    <3> QED BY <1>4, <3>3, <3>4 DEF TableExclusive, TableLock
  <2> QED BY <2>1, <2>2
<1>8. Entered'
  BY <1>4, <1>5 DEF Locked, Entered, Writes
<1>9. Reserved'
  BY <1>4 DEF Locked, Reserved
<1>10. OldNumberCurrent' /\ Distinct(chain)'
  BY <1>4, <1>5 DEF Locked, OldNumberCurrent, Distinct
<1> QED BY <1>6, <1>7, <1>8, <1>9, <1>10 DEF Locked

(* An append writes only a number that is free and that no other append    *)
(* has written.                                                            *)
LEMMA WriteLocked ==
  ASSUME Locked, NEW t \in Txn, Write(t)
  PROVE  Locked'
<1>1. /\ TypeOK /\ pc[t] = "selected" /\ ~Renumbers(t) /\ Granted(t)
      /\ UNCHANGED <<chain, op, seen>>
  BY DEF Locked, Write
<1>2. CASE Goto(t, "aborted")
  BY <1>1, <1>2, AbortLocked
<1>3. CASE ~Goto(t, "aborted")
  <2>1. /\ Goto(t, "written")
        /\ op[t].kind = "append" => \A c \in DOMAIN chain : chain[c] # seen[t] + 1
    BY <1>3 DEF Write
  <2>2. Moves(t, "written")
    BY <1>1, <2>1, Unmoved DEF Moves, Goto
  <2>3. /\ pc' \in [Txn -> Place] /\ pc'[t] = "written" /\ op' = op /\ seen' = seen /\ chain' = chain
        /\ \A u \in Txn : u # t => pc'[u] = pc[u]
    BY <1>1, <2>2, MovesFacts DEF Place
  <2>4. TypeOK' /\ Ways'
    BY <1>1, <2>3 DEF Locked, TypeOK, Ways
  <2>5. TableExclusive'
    BY <1>1, <2>3 DEF Locked, TableExclusive, TableLock
  <2>6. Entered'
    BY <1>1, <2>3 DEF Locked, Entered
  <2>7. OldNumberCurrent' /\ Distinct(chain)'
    BY <2>3 DEF Locked, OldNumberCurrent, Distinct
  <2>8. Reserved'
    <3>1. ASSUME op[t].kind = "append", NEW u \in Txn, op[u].kind = "append", pc[u] = "written", u # t
          PROVE  seen[u] # seen[t]
      <4>1. IndexHolders(seen[t] + 1) \subseteq {t}
        BY <1>1, <3>1 DEF Granted, Blockers
      <4>2. seen[u] \in Int /\ seen[t] \in Int
        BY <1>1 DEF TypeOK
      <4> QED BY <3>1, <4>1, <4>2 DEF IndexHolders
    <3> QED BY <2>1, <2>3, <3>1 DEF Locked, Reserved
  <2> QED BY <2>4, <2>5, <2>6, <2>7, <2>8 DEF Locked
<1> QED BY <1>2, <1>3

-----------------------------------------------------------------------------
(* Commits *)

(* The clue m enters the chain f at the number n. *)
LEMMA AddKeeps ==
  ASSUME NEW S, NEW f \in [S -> Int], Distinct(f), NEW m, m \notin S, NEW n \in Int,
         \A d \in S : f[d] # n, NEW g, g = WithClue(f, m, n)
  PROVE  /\ g \in [S \cup {m} -> Int]
         /\ g[m] = n /\ \A d \in S : g[d] = f[d]
         /\ Distinct(g)
<1>1. /\ g \in [S \cup {m} -> Int] /\ DOMAIN g = S \cup {m}
      /\ g[m] = n /\ \A d \in S : g[d] = f[d]
  BY DEF WithClue
<1>2. Distinct(g)
  BY <1>1 DEF Distinct
<1> QED BY <1>1, <1>2

(* What a commit has to show: the new chain is a chain, the clue that came *)
(* is the transaction's own, and no number that another append wrote was   *)
(* taken, nor one that another move read changed.                          *)
LEMMA CommitLocked ==
  ASSUME Locked, NEW t \in Txn, Goto(t, "committed"), UNCHANGED <<op, seen>>,
         chain' \in [DOMAIN chain' -> Int], Distinct(chain'),
         DOMAIN chain' \subseteq DOMAIN chain \cup {t},
         \A u \in Txn : u # t /\ TableLock(u) # "none" =>
           /\ op[u].kind = "append" /\ pc[u] = "written" =>
                \A c \in DOMAIN chain' : chain'[c] # seen[u] + 1
           /\ op[u].kind = "move" /\ op[u].clue \in DOMAIN chain' \cap DOMAIN chain =>
                chain'[op[u].clue] = chain[op[u].clue],
         pc[t] \in {"written", "exclusive"}
  PROVE  Locked'
<1>1. TypeOK /\ Moves(t, "committed")
  BY Unmoved DEF Locked, Moves, Goto
<1>2. /\ pc' \in [Txn -> Place] /\ pc'[t] = "committed" /\ op' = op /\ seen' = seen
      /\ \A u \in Txn : u # t => pc'[u] = pc[u]
  BY <1>1, MovesFacts DEF Place
<1>3. TypeOK'
  BY <1>1, <1>2 DEF TypeOK, Clue
<1>4. Ways' /\ TableExclusive'
  BY <1>2 DEF Locked, Ways, TableExclusive, TableLock
<1>5. Entered'
  BY <1>2 DEF Locked, Entered
<1>6. \A u \in Txn : pc[u] = "written" => TableLock(u) # "none"
  BY DEF TableLock
<1>7. Reserved'
  BY <1>2, <1>6 DEF Locked, Reserved
<1>8. OldNumberCurrent'
  <2> SUFFICES ASSUME NEW u \in Txn, op[u].kind = "move",
                      pc'[u] \in {"selected", "serial", "nulled", "exclusive"},
                      op[u].clue \in DOMAIN chain'
               PROVE  seen[u] = chain'[op[u].clue]
    BY <1>2 DEF OldNumberCurrent
  <2>1. u # t /\ pc[u] = pc'[u] /\ TableLock(u) # "none"
    BY <1>2 DEF TableLock
  <2>2. op[u].clue \in DOMAIN chain
    <3>1. op[u].clue # t
      BY <2>1 DEF Locked, Entered, Writes
    <3> QED BY <3>1
  <2> QED BY <2>1, <2>2 DEF Locked, OldNumberCurrent
<1> QED BY <1>3, <1>4, <1>5, <1>7, <1>8 DEF Locked

(* The clue m alone comes, goes or changes place; no two have one number. *)
Touched(m) == /\ m \in Clue \cup {None}
              /\ DOMAIN chain \cup {m} = DOMAIN chain' \cup {m}
              /\ Distinct(chain') /\ OrderKept(chain, chain', m)

(* The commit of an append, an edit or a delete: the number an append      *)
(* computed is still free.                                                 *)
LEMMA PlainCommit ==
  ASSUME Locked, NEW t \in Txn, Commit(t)
  PROVE  Locked' /\ \E m : Touched(m)
<1>1. /\ TypeOK /\ pc[t] = "written" /\ Goto(t, "committed") /\ UNCHANGED <<op, seen>>
      /\ Distinct(chain) /\ op[t] \in Op
  BY DEF Locked, Commit, TypeOK
<1>2. \A u \in Txn : op[u].kind = "append" /\ pc[u] = "written" =>
        \A c \in DOMAIN chain : chain[c] # seen[u] + 1
  BY DEF Locked, Reserved
<1>3. CASE op[t].kind = "append"
  <2> DEFINE n == seen[t] + 1
  <2>1. /\ chain' = WithClue(chain, t, n) /\ n \in Int /\ t \notin DOMAIN chain
        /\ \A d \in DOMAIN chain : chain[d] # n
    BY <1>1, <1>2, <1>3 DEF Commit, Locked, Entered, TypeOK
  <2> HIDE DEF n
  <2>2. /\ chain' \in [DOMAIN chain \cup {t} -> Int] /\ chain'[t] = n
        /\ \A d \in DOMAIN chain : chain'[d] = chain[d]
        /\ Distinct(chain')
    <3>1. PICK f : f = chain
      OBVIOUS
    <3>2. PICK g : g = chain'
      OBVIOUS
    <3>3. PICK S : S = DOMAIN f
      OBVIOUS
    <3>4. f \in [S -> Int]
      BY <1>1, <3>1, <3>3 DEF TypeOK
    <3>5. /\ Distinct(f) /\ t \notin S /\ n \in Int /\ \A d \in S : f[d] # n
          /\ g = WithClue(f, t, n)
      BY <1>1, <2>1, <3>1, <3>2, <3>3
    <3>6. /\ g \in [S \cup {t} -> Int] /\ g[t] = n /\ \A d \in S : g[d] = f[d]
          /\ Distinct(g)
      <4>1. /\ DOMAIN g = S \cup {t} /\ g \in [S \cup {t} -> Int]
            /\ g[t] = n /\ \A d \in S : g[d] = f[d]
        BY <3>4, <3>5 DEF WithClue
      <4> QED BY <3>4, <3>5, <4>1 DEF Distinct
    <3> QED BY <3>1, <3>2, <3>3, <3>6
  <2>3. \A u \in Txn : op[u].kind = "append" /\ pc[u] = "written" /\ u # t => seen[u] + 1 # n
    <3> TAKE u \in Txn
    <3>1. seen[u] \in Int /\ seen[t] \in Int
      BY <1>1 DEF TypeOK
    <3> QED BY <1>1, <1>3, <3>1 DEF Locked, Reserved, n
  <2>4. Locked'
    BY <1>1, <1>2, <2>2, <2>3, CommitLocked
  <2>5. Touched(t)
    BY <2>2 DEF Touched, Clue, OrderKept
  <2> QED BY <2>4, <2>5
<1>4. CASE op[t].kind = "delete"
  <2> DEFINE m == op[t].clue
  <2>1. chain' = Without(chain, m) /\ m \in Clue
    BY <1>1, <1>4 DEF Commit, Op
  <2> HIDE DEF m
  <2>2. /\ chain' \in [DOMAIN chain \ {m} -> Int] /\ DOMAIN chain' = DOMAIN chain \ {m}
        /\ \A d \in DOMAIN chain' : chain'[d] = chain[d]
    BY <1>1, <2>1 DEF Without, TypeOK
  <2>3. Distinct(chain')
    BY <1>1, <2>2 DEF Distinct
  <2>4. Locked'
    BY <1>1, <1>2, <2>2, <2>3, CommitLocked
  <2>5. Touched(m)
    BY <2>1, <2>2, <2>3 DEF Touched, OrderKept
  <2> QED BY <2>4, <2>5
<1>5. CASE op[t].kind \notin {"append", "delete"}
  <2>1. chain' = chain
    BY <1>5 DEF Commit
  <2>2. Locked'
    BY <1>1, <1>2, <2>1, CommitLocked DEF TypeOK
  <2>3. Touched(None)
    BY <1>1, <2>1 DEF Touched, OrderKept
  <2> QED BY <2>2, <2>3
<1> QED BY <1>3, <1>4, <1>5

(* A renumbering has the table to itself, and the number a move read is    *)
(* still the clue's, so that the shift it computes is the one it needs.    *)
LEMMA RenumberingCommit ==
  ASSUME Locked, NEW t \in Txn, CommitRenumbering(t)
  PROVE  Locked' /\ \E m : Touched(m)
<1>1. /\ TypeOK /\ pc[t] = "exclusive" /\ UNCHANGED <<op, seen>> /\ Distinct(chain)
      /\ op[t] \in Op /\ op[t].kind \in {"insert", "move"} /\ op[t].at \in Int
      /\ \A u \in Txn : u # t => TableLock(u) = "none"
  BY TxnAssumption DEF Locked, CommitRenumbering, TypeOK, Ways, Op, TableExclusive
<1>2. CASE op[t].kind = "insert"
  <2> DEFINE n == op[t].at
             g == ShiftUp(chain, n)
  <2>1. /\ chain' = WithClue(g, t, n) /\ Goto(t, "committed") /\ t \notin DOMAIN chain
    BY <1>1, <1>2 DEF CommitRenumbering, Locked, Entered
  <2>2. /\ g \in [DOMAIN chain -> Int] /\ Distinct(g) /\ OrderKept(chain, g, t)
        /\ \A d \in DOMAIN chain : g[d] # n
    BY <1>1, ShiftUpKeeps DEF TypeOK
  <2>3. n \in Int
    BY <1>1
  <2> HIDE DEF g, n
  <2>4. /\ chain' \in [DOMAIN chain \cup {t} -> Int]
        /\ \A d \in DOMAIN chain : chain'[d] = g[d]
        /\ Distinct(chain')
    <3>1. PICK S : S = DOMAIN chain
      OBVIOUS
    <3> QED BY <2>1, <2>2, <2>3, <3>1, AddKeeps
  <2>5. Locked'
    BY <1>1, <2>1, <2>4, CommitLocked
  <2>6. DOMAIN g = DOMAIN chain
    BY <2>2
  <2>7. Touched(t)
    BY <2>2, <2>4, <2>6 DEF Touched, Clue, OrderKept
  <2> QED BY <2>5, <2>7
<1>3. CASE op[t].kind = "move" /\ op[t].clue \in DOMAIN chain
  <2> DEFINE m == op[t].clue
             n == op[t].at
  <2>1. seen[t] = chain[m] /\ m \in Clue /\ m \in DOMAIN chain /\ n \in Int
    BY <1>1, <1>3 DEF Locked, OldNumberCurrent, TypeOK
  <2>2. [chain EXCEPT ![m] = seen[t]] = chain
    BY <1>1, <2>1 DEF TypeOK
  <2>3. chain' = MoveTo(chain, m, n) /\ Goto(t, "committed")
    BY <1>3, <1>1, <2>2 DEF CommitRenumbering, ShiftFrom
  <2> HIDE DEF m, n
  <2>4. chain' \in [DOMAIN chain -> Int] /\ Distinct(chain') /\ OrderKept(chain, chain', m)
    BY <1>1, <2>1, <2>3, MoveToKeeps DEF TypeOK
  <2>5. Locked'
    BY <1>1, <2>3, <2>4, CommitLocked
  <2>6. Touched(m)
    BY <2>1, <2>4 DEF Touched
  <2> QED BY <2>5, <2>6
<1>4. CASE op[t].kind = "move" /\ op[t].clue \notin DOMAIN chain
  <2>1. Goto(t, "aborted") /\ UNCHANGED chain
    BY <1>4 DEF CommitRenumbering
  <2>2. Touched(None)
    BY <1>1, <2>1 DEF Touched, OrderKept
  <2> QED BY <1>1, <2>1, <2>2, AbortLocked
<1> QED BY <1>1, <1>2, <1>3, <1>4

-----------------------------------------------------------------------------
(* The theorems *)

(* No transaction has done anything yet, and the archive is numbered.      *)
LEMMA InitLocked == Init => Locked
<1> SUFFICES ASSUME Init PROVE Locked
  OBVIOUS
<1>1. chain \in [Existing -> Int] /\ Distinct(chain)
  <2>1. chain \in [Existing -> 1..Cardinality(Existing)] /\ Distinct(chain)
    BY DEF Init
  <2>2. Cardinality(Existing) \in Nat
    BY TxnAssumption, FS_CardinalityType
  <2> QED BY <2>1, <2>2
<1>2. TypeOK
  BY <1>1 DEF Init, TypeOK, Clue, Place
<1>3. Ways /\ TableExclusive /\ Reserved /\ OldNumberCurrent
  BY DEF Init, Ways, TableExclusive, Reserved, OldNumberCurrent
<1>4. Entered
  BY <1>1, TxnAssumption DEF Init, Entered
<1> QED BY <1>1, <1>2, <1>3, <1>4 DEF Locked

(* Every step keeps the invariant and touches at most one clue. *)
LEMMA StepLocked ==
  ASSUME Locked, Next
  PROVE  Locked' /\ (UNCHANGED chain \/ \E m : Touched(m))
<1>1. PICK t \in Txn : Step(t) \/ DeadlockDetected(t) \/ Fail(t)
  BY DEF Next
<1>2. CASE DeadlockDetected(t) \/ Fail(t)
  BY <1>2, AbortLocked DEF DeadlockDetected, Fail, Running
<1>3. CASE Select(t)
  BY <1>3, SelectLocked DEF Select
<1>4. CASE Serialise(t) \/ NullNumber(t) \/ DropIndex(t)
  BY <1>4, AdvanceLocked DEF Serialise, NullNumber, DropIndex
<1>5. CASE Write(t)
  BY <1>5, WriteLocked DEF Write
<1>6. CASE Commit(t)
  BY <1>6, PlainCommit
<1>7. CASE CommitRenumbering(t)
  BY <1>7, RenumberingCommit
<1> QED BY <1>1, <1>2, <1>3, <1>4, <1>5, <1>6, <1>7 DEF Step

(* Every step keeps the invariant.                                         *)
LEMMA NextLocked == Locked /\ [Next]_vars => Locked'
<1> SUFFICES ASSUME Locked, UNCHANGED vars
             PROVE  Locked'
  BY StepLocked
<1>1. UNCHANGED <<chain, op, pc, seen>>
  BY DEF vars
<1> QED BY <1>1 DEF Locked, TypeOK, Ways, TableExclusive, TableLock, Entered, Reserved,
                    OldNumberCurrent, Distinct

(* The locks keep their invariant, however many transactions interleave.   *)
THEOREM TxnLocked == Spec => []Locked
BY InitLocked, NextLocked, PTL DEF Spec

(* The number update_clue shifts by is the one the clue has.               *)
THEOREM OldNumberStaysCurrent == Spec => []OldNumberCurrent
<1>1. Locked => OldNumberCurrent
  BY DEF Locked
<1> QED BY <1>1, TxnLocked, PTL

(* A deadlock of the archive has a move in it.                             *)
THEOREM DeadlocksNeedMoves == Spec => []DeadlockNeedsMove
<1>1. Locked => DeadlockNeedsMove
  BY CyclesNeedMoves DEF Locked
<1> QED BY <1>1, TxnLocked, PTL

(* The committed archive implements Chain: whatever the interleaving, it   *)
(* changes one clue at a time and never holds a number twice.              *)
THEOREM TxnIsChain == Spec => ImplementsChain
<1>1. Init => ChainOrder!Init
  BY InitLocked DEF Locked, TypeOK, ChainOrder!Init, Distinct, ChainOrder!Distinct
<1>2. Locked /\ [Next]_vars => [ChainOrder!Next]_chain
  <2> SUFFICES ASSUME Locked, Next, ~UNCHANGED chain
               PROVE  ChainOrder!Next
    BY DEF vars
  <2>1. PICK m : Touched(m)
    BY StepLocked
  <2>2. DOMAIN chain' \subseteq Clue
    BY StepLocked DEF Locked, TypeOK
  <2> QED BY <2>1, <2>2 DEF Touched, ChainOrder!Next, ChainOrder!Touch, Distinct, OrderKept,
             ChainOrder!Distinct, ChainOrder!OrderKept
<1> QED BY <1>1, <1>2, TxnLocked, PTL DEF Spec, ImplementsChain, ChainOrder!Spec

=============================================================================
