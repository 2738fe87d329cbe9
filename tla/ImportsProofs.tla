---------------------------- MODULE ImportsProofs ----------------------------
(***************************************************************************)
(* Proofs about Imports, for every spreadsheet and every set of links.     *)
(*                                                                         *)
(* As long as no import has put one text over another, a clue's id stands  *)
(* for the same clue for ever: ids are not given twice, and texts do not   *)
(* change.  So what backfill_message_ids has read of a clue in one session *)
(* is still true of it in the next.  And as long as every clue has its     *)
(* text's number, an import finds nothing to overwrite.                    *)
(***************************************************************************)
EXTENDS Imports, FiniteSetTheorems, SequenceTheorems, TLAPS

-----------------------------------------------------------------------------
(* The invariant *)

Row  == [number : Nat, text : Text, message : Text \cup {None}]
Item == [id : Nat, number : Nat, message : Text]

TypeOK ==
  /\ lastId \in Nat /\ DOMAIN rows \subseteq 1..lastId
  /\ rows \in [DOMAIN rows -> Row]
  /\ import = 0 \/ import \in DOMAIN Batches
  /\ backfill \in [pc : {"off", "loaded", "writing"},
                   loaded : SUBSET Item, chosen : SUBSET Item, todo : SUBSET Item]
  /\ covered \subseteq 1..lastId
  /\ listening \in BOOLEAN /\ drifted \in BOOLEAN /\ overwritten \in BOOLEAN

(* The constraints UNIQUE of legacy_number and of message_id.  Nothing     *)
(* checks the number: every writer finds a free one.                       *)
KeysUnique ==
  \A i, j \in DOMAIN rows : i # j =>
    /\ rows[i].number # rows[j].number
    /\ rows[i].message = None \/ rows[i].message # rows[j].message

(* The archive is still numbered like the spreadsheet. *)
NumberedLikeSheet == ~drifted => \A i \in DOMAIN rows : rows[i].number = rows[i].text

(* What the script has read of a clue holds of it, unless it is gone; what *)
(* it has written is there.                                                *)
ReadStillTrue ==
  /\ backfill.todo \subseteq backfill.chosen /\ backfill.chosen \subseteq backfill.loaded
  /\ \A x \in backfill.loaded : x.id \in 1..lastId
  /\ ~overwritten => \A x \in backfill.loaded :
       x.id \in DOMAIN rows => x.message = Link[rows[x.id].text]
  /\ ~overwritten => \A x \in backfill.chosen \ backfill.todo :
       x.id \in DOMAIN rows => rows[x.id].message = x.message

(* A clue that a completed backfill was about has its link's message. *)
CoveredLinked ==
  ~overwritten => \A i \in covered \cap DOMAIN rows : rows[i].message = Link[rows[i].text]

IInv == /\ TypeOK /\ KeysUnique /\ NumberedLikeSheet
        /\ ReadStillTrue /\ CoveredLinked /\ MessageFollowsClue

-----------------------------------------------------------------------------
(* Numbers *)

(* How many members of S are not above k; the lowest has 1.                *)
Rank(S, k) == Cardinality({l \in S : l <= k})

(* The members of a finite set are ranked from 1 to its cardinality, all   *)
(* ranks are taken, and none twice.                                        *)
LEMMA RankOnto ==
  ASSUME NEW S \in SUBSET Nat, IsFiniteSet(S)
  PROVE  /\ Cardinality(S) \in Nat
         /\ \A k \in S : Rank(S, k) \in 1..Cardinality(S)
         /\ \A j \in 1..Cardinality(S) : \E k \in S : Rank(S, k) = j
<1> DEFINE n == Cardinality(S)
           B(k) == {l \in S : l <= k}
           f == [k \in S |-> Rank(S, k)]
<1>1. n \in Nat
  BY FS_CardinalityType
<1>2. ASSUME NEW k \in S
      PROVE  IsFiniteSet(B(k)) /\ Cardinality(B(k)) \in 1..n /\ k \in B(k)
  <2>1. IsFiniteSet(B(k)) /\ Cardinality(B(k)) <= n /\ k \in B(k)
    BY FS_Subset
  <2>2. Cardinality(B(k)) \in Nat /\ Cardinality(B(k)) # 0
    BY <2>1, FS_CardinalityType, FS_EmptySet
  <2> QED BY <1>1, <2>1, <2>2
<1>3. ASSUME NEW k \in S, NEW l \in S, k < l
      PROVE  Cardinality(B(k)) # Cardinality(B(l))
  <2>1. k \in Nat /\ l \in Nat /\ \A m \in S : m \in Nat
    OBVIOUS
  <2>2. ~(l <= k) /\ l <= l /\ \A m \in S : m <= k => m <= l
    BY <1>3, <2>1
  <2>3. B(k) \subseteq B(l) /\ l \notin B(k) /\ l \in B(l)
    BY <2>2
  <2> QED BY <1>2, <2>3, FS_Subset
<1>4. f \in [S -> 1..n] /\ \A k \in S : f[k] = Cardinality(B(k))
  BY <1>2 DEF Rank
<1>5. \A k, l \in S : f[k] = f[l] => k = l
  <2> TAKE k, l \in S
  <2>1. k < l \/ l < k \/ k = l
    OBVIOUS
  <2> QED BY <1>3, <1>4, <2>1
<1> HIDE DEF f
<1>6. f \in Injection(S, 1..n)
  BY <1>4, <1>5 DEF Injection, IsInjective
<1>7. IsFiniteSet(1..n) /\ Cardinality(1..n) = n
  BY <1>1, FS_Interval
<1>8. f \in Surjection(S, 1..n)
  BY <1>6, <1>7, FS_Injection
<1>9. \A j \in 1..n : \E k \in S : f[k] = j
  BY <1>8 DEF Surjection
<1> QED BY <1>1, <1>2, <1>4, <1>9 DEF Rank

(* A finite set of numbers that is not empty has a highest.                *)
LEMMA HighestExists ==
  ASSUME NEW S \in SUBSET Nat, IsFiniteSet(S), S # {}
  PROVE  \E n \in S : \A k \in S : k <= n
<1>1. Cardinality(S) \in Nat /\ Cardinality(S) # 0
  BY FS_CardinalityType, FS_EmptySet
<1>2. PICK n \in S : Rank(S, n) = Cardinality(S)
  BY <1>1, RankOnto
<1>3. {l \in S : l <= n} = S
  BY <1>2, FS_Subset DEF Rank
<1> QED BY <1>3

(* The numbers in use, and the next one: past all of them.                 *)
LEMMA NumbersFacts ==
  ASSUME TypeOK
  PROVE  /\ IsFiniteSet(Numbers) /\ Numbers \in SUBSET Nat
         /\ NextNumber \in Nat /\ NextNumber \notin Numbers
<1>1. IsFiniteSet(DOMAIN rows)
  <2>1. DOMAIN rows \subseteq 1..lastId /\ lastId \in Int
    BY DEF TypeOK
  <2>2. IsFiniteSet(1..lastId)
    BY <2>1, FS_Interval
  <2> QED BY <2>1, <2>2, FS_Subset
<1>2. Numbers \in SUBSET Nat
  BY DEF Numbers, Ids, TypeOK, Row
<1> DEFINE f == [i \in DOMAIN rows |-> rows[i].number]
<1>3. f \in Surjection(DOMAIN rows, Numbers)
  BY DEF Surjection, Numbers, Ids
<1>4. IsFiniteSet(Numbers)
  BY <1>1, <1>3, FS_Surjection
<1>5. CASE Numbers = {}
  BY <1>2, <1>4, <1>5 DEF NextNumber, Numbers, Ids
<1>6. CASE Numbers # {}
  <2>1. PICK m \in Numbers : m = (CHOOSE n \in Numbers : \A k \in Numbers : k <= n)
                             /\ \A k \in Numbers : k <= m
    BY <1>2, <1>4, <1>6, HighestExists
  <2>2. NextNumber = 1 + m
    BY <1>6, <2>1 DEF NextNumber, Numbers, Ids
  <2>3. m \in Nat /\ 1 + m \in Nat /\ 1 + m \notin Numbers
    <3>1. m \in Nat /\ \A k \in Numbers : k \in Nat
      BY <1>2
    <3>2. 1 + m \in Nat /\ ~(1 + m <= m)
      BY <3>1
    <3> QED BY <2>1, <3>1, <3>2
  <2> QED BY <1>2, <1>4, <2>2, <2>3
<1> QED BY <1>5, <1>6

-----------------------------------------------------------------------------
(* Steps of the tables *)

(* Rows that come and go do not disturb what was read and written, if none *)
(* that stays changes its message, or its text without that being noted,   *)
(* and no id is given again.                                               *)
LEMMA RowsKeep ==
  ASSUME IInv, UNCHANGED <<backfill, covered>>, lastId' \in Nat, lastId <= lastId',
         overwritten' \in BOOLEAN, overwritten => overwritten',
         \A i \in DOMAIN rows' \cap 1..lastId :
           /\ i \in DOMAIN rows /\ rows'[i].message = rows[i].message
           /\ overwritten' \/ rows'[i].text = rows[i].text,
         \A i \in DOMAIN rows' \ 1..lastId : rows'[i].message \in {None, rows'[i].text}
  PROVE  /\ ReadStillTrue' /\ CoveredLinked'
         /\ ~overwritten' => \A i \in DOMAIN rows' :
              rows'[i].message \in {None, rows'[i].text, Link[rows'[i].text]}
<1>1. ReadStillTrue'
  BY DEF IInv, TypeOK, ReadStillTrue
<1>2. CoveredLinked'
  BY DEF IInv, TypeOK, CoveredLinked
<1>3. ASSUME ~overwritten', NEW i \in DOMAIN rows'
      PROVE  rows'[i].message \in {None, rows'[i].text, Link[rows'[i].text]}
  <2>1. i \in 1..lastId \/ i \notin 1..lastId
    OBVIOUS
  <2> QED BY <1>3, <2>1 DEF IInv, MessageFollowsClue, Ids
<1> QED BY <1>1, <1>2, <1>3

(* Rows of a batch that are new: one for each number that is missing.      *)
LEMMA NewRowsFacts ==
  ASSUME TypeOK, NEW batch \in SUBSET Sheet, IsFiniteSet(batch)
  PROVE  /\ Cardinality(Fresh(batch)) \in Nat
         /\ DOMAIN NewRows(batch) = lastId + 1 .. lastId + Cardinality(Fresh(batch))
         /\ \A i \in DOMAIN NewRows(batch) : \E n \in Fresh(batch) :
              /\ NewRows(batch)[i] = [number |-> n, text |-> n, message |-> None]
              /\ NewId(batch, n) = i
<1> DEFINE F == Fresh(batch)
<1>1. F \in SUBSET Nat /\ IsFiniteSet(F) /\ lastId \in Nat
  BY FS_Subset, ImportsAssumption DEF Fresh, Text, TypeOK
<1>2. DOMAIN NewRows(batch) = lastId + 1 .. lastId + Cardinality(F)
  BY DEF NewRows
<1> HIDE DEF F
<1>3. Cardinality(F) \in Nat /\ \A j \in 1..Cardinality(F) : \E k \in F : Rank(F, k) = j
  BY <1>1, RankOnto
<1>4. ASSUME NEW i \in lastId + 1 .. lastId + Cardinality(F)
      PROVE  \E n \in F : /\ NewRows(batch)[i] = [number |-> n, text |-> n, message |-> None]
                          /\ NewId(batch, n) = i
  <2>1. i - lastId \in 1..Cardinality(F)
    BY <1>1, <1>3
  <2>2. PICK k \in F : Rank(F, k) = i - lastId
    BY <1>3, <2>1
  <2>3. NewId(batch, k) = i
    BY <1>1, <2>2 DEF NewId, Rank, F
  <2>4. PICK n \in F : n = (CHOOSE m \in F : NewId(batch, m) = i) /\ NewId(batch, n) = i
    BY <2>3
  <2> QED BY <2>4 DEF NewRows, F
<1> QED BY <1>2, <1>3, <1>4 DEF F

-----------------------------------------------------------------------------
(* Each step *)

(* One batch: a row with a number of the batch gets its text, which is the *)
(* one it has as long as the numbers are the spreadsheet's.                *)
LEMMA ImportKeeps ==
  ASSUME IInv, ImportBatch
  PROVE  IInv'
<1>1. TypeOK /\ import \in DOMAIN Batches /\ UNCHANGED <<backfill, listening, covered, drifted>>
  BY DEF IInv, TypeOK, ImportBatch
<1>2. PICK batch \in SUBSET Sheet : batch = Batches[import] /\ IsFiniteSet(batch)
  BY <1>1, ImportsAssumption DEF Sheet
<1>3. PICK new : new = NewRows(batch)
  OBVIOUS
<1>4. PICK count \in Nat : count = Cardinality(Fresh(batch))
  BY <1>1, <1>2, NewRowsFacts
<1>5. /\ DOMAIN new = lastId + 1 .. lastId + count
      /\ \A i \in DOMAIN new : \E n \in Fresh(batch) :
           /\ new[i] = [number |-> n, text |-> n, message |-> None]
           /\ NewId(batch, n) = i
  BY <1>1, <1>2, <1>3, <1>4, NewRowsFacts
<1>6. /\ rows' = [i \in DOMAIN rows \cup DOMAIN new |->
                    IF i \in DOMAIN rows THEN Upserted(i, batch) ELSE new[i]]
      /\ lastId' = lastId + count
      /\ overwritten' = (overwritten \/ \E i \in DOMAIN rows : rows'[i].text # rows[i].text)
      /\ import' = IF import + 1 \in DOMAIN Batches THEN import + 1 ELSE 0
  BY <1>2, <1>3, <1>4 DEF ImportBatch, Imported, Ids
<1>7. lastId \in Nat /\ DOMAIN rows \subseteq 1..lastId /\ \A i \in DOMAIN rows : rows[i] \in Row
  BY <1>1 DEF TypeOK
<1>8. DOMAIN rows \cap DOMAIN new = {} /\ lastId' \in Nat /\ lastId <= lastId'
      /\ DOMAIN rows' = DOMAIN rows \cup DOMAIN new /\ DOMAIN rows' \subseteq 1..lastId'
  BY <1>5, <1>6, <1>7
<1>9. ASSUME NEW i \in DOMAIN rows
      PROVE  /\ rows'[i] \in Row /\ rows'[i].number = rows[i].number /\ rows'[i].message = rows[i].message
             /\ rows[i].number = rows[i].text => rows'[i].text = rows[i].text
             /\ rows'[i].text = rows[i].text \/ rows'[i].text = rows[i].number
  <2>1. rows'[i] = Upserted(i, batch)
    BY <1>6
  <2>2. PICK r \in Row : r = rows[i]
    BY <1>7
  <2>3. rows'[i] = IF r.number \in batch THEN [r EXCEPT !.text = r.number] ELSE r
    BY <2>1, <2>2 DEF Upserted
  <2>4. r.number \in batch => r.number \in Text
    BY <1>2 DEF Text
  <2> QED BY <2>2, <2>3, <2>4 DEF Row
<1>10. ASSUME NEW i \in DOMAIN new
       PROVE  /\ rows'[i] \in Row /\ rows'[i].number = rows'[i].text /\ rows'[i].message = None
              /\ rows'[i].number \in Fresh(batch) /\ NewId(batch, rows'[i].number) = i
  <2>1. rows'[i] = new[i]
    BY <1>6, <1>8
  <2>2. PICK n \in Fresh(batch) : new[i] = [number |-> n, text |-> n, message |-> None] /\ NewId(batch, n) = i
    BY <1>5
  <2>3. n \in Text /\ n \in Nat
    BY <1>2, ImportsAssumption DEF Fresh, Text
  <2> QED BY <2>1, <2>2, <2>3 DEF Row
<1>11. TypeOK'
  <2>1. rows' \in [DOMAIN rows' -> Row]
    BY <1>6, <1>8, <1>9, <1>10
  <2>2. overwritten' \in BOOLEAN /\ (import' = 0 \/ import' \in DOMAIN Batches)
    BY <1>1, <1>6 DEF TypeOK
  <2>3. covered \subseteq 1..lastId'
    BY <1>1, <1>7, <1>8 DEF TypeOK
  <2> QED BY <1>1, <1>6, <1>8, <2>1, <2>2, <2>3 DEF TypeOK
<1>12. KeysUnique'
  <2> SUFFICES ASSUME NEW i \in DOMAIN rows', NEW j \in DOMAIN rows', i # j
               PROVE  /\ rows'[i].number # rows'[j].number
                      /\ rows'[i].message = None \/ rows'[i].message # rows'[j].message
    BY DEF KeysUnique
  <2>1. CASE i \in DOMAIN rows /\ j \in DOMAIN rows
    BY <1>9, <2>1 DEF IInv, KeysUnique
  <2>2. CASE i \in DOMAIN new /\ j \in DOMAIN new
    BY <1>10, <2>2
  <2>3. ASSUME NEW k \in DOMAIN rows, NEW l \in DOMAIN new
        PROVE  /\ rows'[k].number # rows'[l].number
               /\ rows'[k].message = None \/ rows'[k].message # rows'[l].message
               /\ rows'[l].message = None \/ rows'[k].message # rows'[l].message
    BY <1>9, <1>10 DEF Fresh, Numbers, Ids
  <2> QED BY <1>8, <2>1, <2>2, <2>3
<1>13. NumberedLikeSheet' /\ (overwritten' => drifted' \/ overwritten)
  <2>1. ASSUME ~drifted, NEW i \in DOMAIN rows
        PROVE  rows[i].number = rows[i].text /\ rows'[i].text = rows[i].text
    <3>1. rows[i].number = rows[i].text
      BY <2>1 DEF IInv, NumberedLikeSheet
    <3> QED BY <1>9, <3>1
  <2>2. ~drifted => \A i \in DOMAIN rows' : rows'[i].number = rows'[i].text
    BY <1>8, <1>9, <1>10, <2>1
  <2> QED BY <1>1, <1>6, <2>1, <2>2 DEF NumberedLikeSheet
<1>14. /\ overwritten' \in BOOLEAN /\ (overwritten => overwritten')
       /\ \A i \in DOMAIN rows : overwritten' \/ rows'[i].text = rows[i].text
  BY <1>6
<1>15. /\ ReadStillTrue' /\ CoveredLinked'
       /\ ~overwritten' => \A i \in DOMAIN rows' :
            rows'[i].message \in {None, rows'[i].text, Link[rows'[i].text]}
  <2>1. \A i \in DOMAIN rows' \cap 1..lastId : i \in DOMAIN rows
    BY <1>5, <1>7, <1>8
  <2>2. \A i \in DOMAIN rows' \ 1..lastId : i \in DOMAIN new
    BY <1>7, <1>8
  <2> QED BY <1>1, <1>8, <1>9, <1>10, <1>14, <2>1, <2>2, RowsKeep
<1>16. MessageFollowsClue'
  BY <1>1, <1>13, <1>15 DEF IInv, MessageFollowsClue, Ids
<1> QED BY <1>11, <1>12, <1>13, <1>15, <1>16 DEF IInv

(* A clue more, whose number is past all others or was made free.          *)
LEMMA InsertKeeps ==
  ASSUME IInv, UNCHANGED <<import, backfill, listening, covered, overwritten>>,
         drifted' \in BOOLEAN, drifted => drifted', lastId' = lastId + 1,
         NEW row \in Row, row.message \in {None, row.text} \ Messages,
         NEW shifted \in [DOMAIN rows -> Row],
         \A i \in DOMAIN rows : /\ shifted[i].text = rows[i].text /\ shifted[i].message = rows[i].message
                                /\ shifted[i].number # row.number,
         \A i, j \in DOMAIN rows : i # j => shifted[i].number # shifted[j].number,
         ~drifted' => /\ row.number = row.text
                      /\ \A i \in DOMAIN rows : shifted[i].number = rows[i].number,
         rows' = WithRow(shifted, row)
  PROVE  IInv'
<1>1. TypeOK /\ lastId \in Nat /\ lastId' \in Nat /\ DOMAIN rows \subseteq 1..lastId
  BY DEF IInv, TypeOK
<1>2. /\ DOMAIN rows' = DOMAIN rows \cup {lastId + 1} /\ lastId + 1 \notin DOMAIN rows
      /\ DOMAIN rows' \subseteq 1..lastId'
      /\ rows'[lastId + 1] = row /\ \A i \in DOMAIN rows : rows'[i] = shifted[i]
  BY <1>1 DEF WithRow, Ids
<1>3. TypeOK'
  <2>1. rows' \in [DOMAIN rows' -> Row]
    BY <1>1, <1>2 DEF WithRow, Ids
  <2>2. covered' \subseteq 1..lastId'
    BY <1>1 DEF TypeOK
  <2> QED BY <1>1, <1>2, <2>1, <2>2 DEF TypeOK
<1>4. KeysUnique'
  <2>1. \A i \in DOMAIN rows : row.message = None \/ rows[i].message # row.message
    BY DEF Messages, Ids
  <2> QED BY <1>2, <2>1 DEF IInv, KeysUnique
<1>5. NumberedLikeSheet'
  BY <1>2 DEF IInv, NumberedLikeSheet
<1>6. /\ ReadStillTrue' /\ CoveredLinked'
      /\ ~overwritten' => \A i \in DOMAIN rows' :
           rows'[i].message \in {None, rows'[i].text, Link[rows'[i].text]}
  <2>1. \A i \in DOMAIN rows' \cap 1..lastId : i \in DOMAIN rows
    BY <1>1, <1>2
  <2>2. \A i \in DOMAIN rows' \ 1..lastId : rows'[i] = row
    BY <1>1, <1>2
  <2>3. lastId <= lastId' /\ overwritten' \in BOOLEAN /\ (overwritten => overwritten')
    BY <1>1 DEF TypeOK
  <2>4. \A i \in DOMAIN rows : /\ i \in DOMAIN rows' /\ rows'[i].text = rows[i].text
                               /\ rows'[i].message = rows[i].message
    BY <1>2
  <2>5. \A i \in DOMAIN rows' \ 1..lastId : rows'[i].message \in {None, rows'[i].text}
    BY <2>2
  <2> QED BY <1>1, <2>1, <2>3, <2>4, <2>5, RowsKeep
<1>7. MessageFollowsClue'
  BY <1>6 DEF IInv, MessageFollowsClue, Ids
<1> QED BY <1>3, <1>4, <1>5, <1>6, <1>7 DEF IInv

(* The daemon appends the clue of a message no row has.                    *)
LEMMA ArchiveKeeps ==
  ASSUME IInv, NEW t \in Live, DaemonArchives(t)
  PROVE  IInv'
<1>1. TypeOK /\ NextNumber \in Nat /\ NextNumber \notin Numbers /\ t \in Text /\ None \notin Text
  BY NumbersFacts, ImportsAssumption DEF IInv, Text
<1>2. PICK n \in Nat : n = NextNumber
  BY <1>1
<1> DEFINE row == NewRow(n, t, t)
<1>3. row \in Row /\ row.number = n /\ row.text = t /\ row.message = t
  BY <1>1 DEF NewRow, Row
<1>4. /\ rows' = WithRow(rows, row) /\ lastId' = lastId + 1 /\ t \notin Messages
      /\ drifted' = (drifted \/ n # t)
      /\ UNCHANGED <<import, backfill, listening, covered, overwritten>>
  BY <1>2 DEF DaemonArchives
<1> HIDE DEF row
<1>5. rows \in [DOMAIN rows -> Row] /\ \A i \in DOMAIN rows : rows[i].number # n
  BY <1>1, <1>2 DEF TypeOK, Numbers, Ids
<1>6. \A i, j \in DOMAIN rows : i # j => rows[i].number # rows[j].number
  BY DEF IInv, KeysUnique
<1>7. /\ row.message \in {None, row.text} \ Messages
      /\ drifted' \in BOOLEAN /\ (drifted => drifted')
      /\ ~drifted' => row.number = row.text
  BY <1>1, <1>3, <1>4 DEF TypeOK
<1> QED BY <1>3, <1>4, <1>5, <1>6, <1>7, InsertKeeps

(* An editor makes room and inserts.                                       *)
LEMMA EditorInsertKeeps ==
  ASSUME IInv, NEW t \in Text, NEW p \in Numbers, EditorInserts(t, p)
  PROVE  IInv'
<1>1. TypeOK /\ p \in Nat /\ rows \in [DOMAIN rows -> Row]
  BY NumbersFacts DEF IInv, TypeOK
<1> DEFINE row == NewRow(p, t, None)
<1>2. row \in Row /\ row.number = p /\ row.text = t /\ row.message = None
  BY <1>1 DEF NewRow, Row
<1>3. PICK shifted : shifted = ShiftedUp(p)
  OBVIOUS
<1>4. ASSUME NEW i \in DOMAIN rows
      PROVE  /\ shifted[i] \in Row /\ shifted[i].text = rows[i].text /\ shifted[i].message = rows[i].message
             /\ rows[i].number \in Nat
             /\ shifted[i].number = IF rows[i].number >= p THEN rows[i].number + 1 ELSE rows[i].number
  <2>1. PICK r \in Row : r = rows[i]
    BY <1>1
  <2>2. r.number \in Nat /\ r.number + 1 \in Nat
    BY DEF Row
  <2>3. shifted[i] = IF r.number >= p THEN [r EXCEPT !.number = @ + 1] ELSE r
    BY <1>3, <2>1 DEF ShiftedUp, Ids
  <2> QED BY <2>1, <2>2, <2>3 DEF Row
<1>5. shifted \in [DOMAIN rows -> Row]
  BY <1>3, <1>4 DEF ShiftedUp, Ids
<1>6. \A i \in DOMAIN rows : shifted[i].number # p
  BY <1>1, <1>4
<1>7. ASSUME NEW i \in DOMAIN rows, NEW j \in DOMAIN rows, i # j
      PROVE  shifted[i].number # shifted[j].number
  <2>1. rows[i].number # rows[j].number
    BY <1>7 DEF IInv, KeysUnique
  <2> QED BY <1>1, <1>4, <2>1
<1>8. /\ rows' = WithRow(shifted, row) /\ lastId' = lastId + 1 /\ drifted' = TRUE
      /\ UNCHANGED <<import, backfill, listening, covered, overwritten>>
  BY <1>3 DEF EditorInserts
<1> HIDE DEF row
<1>9. None \notin Messages
  BY DEF Messages
<1> QED BY <1>2, <1>4, <1>5, <1>6, <1>7, <1>8, <1>9, InsertKeeps

(* A deleted clue leaves its number and its message free.                  *)
LEMMA EditorDeleteKeeps ==
  ASSUME IInv, NEW d \in DOMAIN rows, EditorDeletes(d)
  PROVE  IInv'
<1>1. /\ rows' = [j \in DOMAIN rows \ {d} |-> rows[j]]
      /\ UNCHANGED <<lastId, import, backfill, listening, covered, drifted, overwritten>>
  BY DEF EditorDeletes, Ids, history
<1>2. DOMAIN rows' = DOMAIN rows \ {d} /\ \A i \in DOMAIN rows' : i \in DOMAIN rows /\ rows'[i] = rows[i]
  BY <1>1
<1>3. TypeOK'
  <2>1. rows' \in [DOMAIN rows' -> Row]
    BY <1>2, <1>1 DEF IInv, TypeOK
  <2> QED BY <1>1, <1>2, <2>1 DEF IInv, TypeOK
<1>4. KeysUnique' /\ NumberedLikeSheet' /\ ReadStillTrue' /\ CoveredLinked' /\ MessageFollowsClue'
  BY <1>1, <1>2 DEF IInv, KeysUnique, NumberedLikeSheet, ReadStillTrue, CoveredLinked, MessageFollowsClue, Ids
<1> QED BY <1>3, <1>4 DEF IInv

(* The script reads: what it reads is there.                               *)
LEMMA LoadKeeps ==
  ASSUME IInv, BackfillLoads
  PROVE  IInv'
<1>1. TypeOK /\ UNCHANGED <<rows, lastId, import, listening, covered, drifted, overwritten>>
  BY DEF IInv, BackfillLoads, tables, history
<1>2. backfill' = [Off EXCEPT !.pc = "loaded", !.loaded = Loaded]
  BY DEF BackfillLoads
<1>3. ASSUME NEW x \in Loaded
      PROVE  /\ x \in Item /\ x.id \in DOMAIN rows
             /\ x.message = Link[rows[x.id].text]
  <2>1. PICK i \in WithoutId : x = [id |-> i, number |-> rows[i].number, message |-> Link[rows[i].text]]
    BY DEF Loaded
  <2>2. i \in DOMAIN rows /\ Link[rows[i].text] # None /\ rows[i] \in Row /\ i \in Nat
    BY <1>1 DEF WithoutId, Ids, TypeOK
  <2>3. Link[rows[i].text] \in Text
    BY <2>2, ImportsAssumption DEF Row
  <2> QED BY <2>1, <2>2, <2>3 DEF Item, Row
<1>4. Loaded \in SUBSET Item
  BY <1>3
<1>5. /\ backfill'.pc = "loaded" /\ backfill'.loaded = Loaded /\ backfill'.chosen = {} /\ backfill'.todo = {}
      /\ backfill' \in [pc : {"off", "loaded", "writing"},
                        loaded : SUBSET Item, chosen : SUBSET Item, todo : SUBSET Item]
  BY <1>2, <1>4 DEF Off
<1>6. TypeOK'
  BY <1>1, <1>5 DEF TypeOK
<1>7. ReadStillTrue'
  BY <1>1, <1>3, <1>5 DEF ReadStillTrue, TypeOK
<1>8. KeysUnique' /\ NumberedLikeSheet' /\ CoveredLinked' /\ MessageFollowsClue'
  BY <1>1 DEF IInv, KeysUnique, NumberedLikeSheet, CoveredLinked, MessageFollowsClue, Ids
<1> QED BY <1>6, <1>7, <1>8 DEF IInv

(* The script compares, ends or dies: it looks at less of what it has      *)
(* read, or takes all of it as written.                                    *)
LEMMA ScriptKeeps ==
  ASSUME IInv, UNCHANGED <<rows, lastId, drifted, overwritten>>,
         import' = 0 \/ import' = import \/ import' \in DOMAIN Batches, listening' \in BOOLEAN,
         \/ UNCHANGED <<backfill, covered>>
         \/ backfill' = Off /\ UNCHANGED covered
         \/ backfill' = Off /\ backfill.todo = {} /\ covered' = covered \cup {x.id : x \in backfill.chosen}
         \/ /\ UNCHANGED covered
            /\ backfill' = [backfill EXCEPT !.pc = "writing", !.chosen = Assignable, !.todo = Assignable]
  PROVE  IInv'
<1> DEFINE Places == [pc : {"off", "loaded", "writing"},
                      loaded : SUBSET Item, chosen : SUBSET Item, todo : SUBSET Item]
<1>1. TypeOK /\ ReadStillTrue /\ backfill \in Places
  BY DEF IInv, TypeOK
<1>2. Assignable \subseteq backfill.loaded
  BY DEF Assignable
<1>3. /\ backfill' \in Places
      /\ backfill'.todo \subseteq backfill'.chosen /\ backfill'.chosen \subseteq backfill'.loaded
      /\ backfill'.loaded \subseteq backfill.loaded
      /\ backfill' # backfill => backfill'.chosen \ backfill'.todo = {}
  <2>1. CASE UNCHANGED backfill
    BY <1>1, <2>1 DEF ReadStillTrue
  <2>2. CASE backfill' = Off
    BY <2>2 DEF Off
  <2>3. CASE backfill' = [backfill EXCEPT !.pc = "writing", !.chosen = Assignable, !.todo = Assignable]
    <3>1. PICK b \in Places : b = backfill
      BY <1>1
    <3>2. PICK A \in SUBSET Item : A = Assignable /\ A \subseteq b.loaded
      BY <1>2, <3>1
    <3>3. backfill' = [b EXCEPT !.pc = "writing", !.chosen = A, !.todo = A]
      BY <2>3, <3>1, <3>2
    <3>4. /\ backfill' \in Places /\ backfill'.todo = A /\ backfill'.chosen = A
          /\ backfill'.loaded = b.loaded
      BY <3>3
    <3> QED BY <3>1, <3>2, <3>4
  <2> QED BY <2>1, <2>2, <2>3
<1>4. covered' \subseteq 1..lastId
  BY <1>1 DEF TypeOK, ReadStillTrue
<1>5. TypeOK'
  BY <1>1, <1>3, <1>4 DEF TypeOK
<1>6. ReadStillTrue'
  BY <1>1, <1>3 DEF ReadStillTrue
<1>7. CoveredLinked'
  <2> SUFFICES ASSUME ~overwritten, NEW i \in covered' \cap DOMAIN rows, i \notin covered
               PROVE  rows[i].message = Link[rows[i].text]
    BY DEF IInv, CoveredLinked
  <2>1. PICK x \in backfill.chosen \ backfill.todo : x.id = i
    OBVIOUS
  <2> QED BY <1>1, <2>1 DEF ReadStillTrue
<1>8. KeysUnique' /\ NumberedLikeSheet' /\ MessageFollowsClue'
  BY DEF IInv, KeysUnique, NumberedLikeSheet, MessageFollowsClue, Ids
<1> QED BY <1>5, <1>6, <1>7, <1>8 DEF IInv

(* One id is written: it is the one the clue's link names, as it was when  *)
(* it was read.                                                            *)
LEMMA WriteKeeps ==
  ASSUME IInv, BackfillWrites
  PROVE  IInv'
<1>1. /\ TypeOK /\ ReadStillTrue /\ backfill.todo \subseteq Item
      /\ UNCHANGED <<lastId, import, listening, covered, drifted, overwritten>>
  BY DEF IInv, TypeOK, BackfillWrites, history
<1>2. PICK x \in backfill.todo :
        /\ Target(x) # {} => x.message \notin Messages
        /\ rows' = [i \in DOMAIN rows |-> IF i \in Target(x) THEN [rows[i] EXCEPT !.message = x.message]
                                          ELSE rows[i]]
        /\ backfill' = [backfill EXCEPT !.todo = @ \ {x}]
  BY DEF BackfillWrites, Ids
<1>3. DOMAIN rows' = DOMAIN rows /\ x \in Item /\ x.message \in Text
  BY <1>1, <1>2 DEF Item
<1>4. ASSUME NEW i \in DOMAIN rows
      PROVE  /\ rows'[i] \in Row /\ rows'[i].number = rows[i].number /\ rows'[i].text = rows[i].text
             /\ rows'[i].message = IF i = x.id THEN x.message ELSE rows[i].message
  <2>1. PICK r \in Row : r = rows[i]
    BY <1>1 DEF TypeOK
  <2>2. rows'[i] = IF i = x.id THEN [r EXCEPT !.message = x.message] ELSE r
    BY <1>2, <2>1 DEF Target, Ids
  <2> QED BY <1>3, <2>1, <2>2 DEF Row
<1>5. /\ backfill'.todo = backfill.todo \ {x} /\ backfill'.chosen = backfill.chosen
      /\ backfill'.loaded = backfill.loaded
      /\ backfill' \in [pc : {"off", "loaded", "writing"},
                        loaded : SUBSET Item, chosen : SUBSET Item, todo : SUBSET Item]
  BY <1>1, <1>2 DEF TypeOK
<1>6. rows' \in [DOMAIN rows' -> Row]
  BY <1>2, <1>3, <1>4
<1>7. TypeOK'
  BY <1>1, <1>3, <1>5, <1>6 DEF TypeOK
<1>8. KeysUnique'
  <2> SUFFICES ASSUME NEW i \in DOMAIN rows, NEW j \in DOMAIN rows, i # j
               PROVE  /\ rows'[i].number # rows'[j].number
                      /\ rows'[i].message = None \/ rows'[i].message # rows'[j].message
    BY <1>3 DEF KeysUnique
  <2>1. x.id \in DOMAIN rows => \A k \in DOMAIN rows : rows[k].message # x.message
    <3>1. x.message # None
      BY <1>3, ImportsAssumption
    <3> QED BY <1>2, <3>1 DEF Target, Messages, Ids
  <2>2. /\ rows[i].number # rows[j].number
        /\ rows[i].message = None \/ rows[i].message # rows[j].message
    BY DEF IInv, KeysUnique
  <2> QED BY <1>4, <2>1, <2>2
<1>9. ~overwritten /\ x.id \in DOMAIN rows => x.message = Link[rows[x.id].text]
  BY <1>1 DEF ReadStillTrue
<1>10. ReadStillTrue'
  <2>1. ASSUME ~overwritten, NEW y \in backfill.chosen, y \notin backfill.todo \/ y = x, y.id \in DOMAIN rows
        PROVE  rows'[y.id].message = y.message
    <3>1. y.message = Link[rows[y.id].text]
      BY <1>1, <2>1 DEF ReadStillTrue
    <3>2. CASE y.id = x.id
      BY <1>4, <1>9, <2>1, <3>1, <3>2
    <3>3. CASE y.id # x.id
      BY <1>1, <1>4, <2>1, <3>3 DEF ReadStillTrue
    <3> QED BY <3>2, <3>3
  <2> QED BY <1>1, <1>3, <1>4, <1>5, <2>1 DEF ReadStillTrue
<1>11. NumberedLikeSheet' /\ CoveredLinked' /\ MessageFollowsClue'
  BY <1>1, <1>3, <1>4, <1>9 DEF IInv, NumberedLikeSheet, CoveredLinked, MessageFollowsClue, Ids
<1> QED BY <1>7, <1>8, <1>10, <1>11 DEF IInv

(* Every step of the scripts, the daemon and the editors keeps the         *)
(* invariant.                                                              *)
LEMMA NextKeeps == IInv /\ [Next]_vars => IInv'
<1> SUFFICES ASSUME IInv, [Next]_vars
             PROVE  IInv'
  OBVIOUS
<1>1. CASE UNCHANGED vars
  BY <1>1 DEF IInv, TypeOK, KeysUnique, NumberedLikeSheet, ReadStillTrue, CoveredLinked,
              MessageFollowsClue, Ids, vars, tables, history
<1>2. CASE ImportStarts \/ ImportDies \/ BackfillCompares \/ BackfillEnds \/ BackfillDies \/ DaemonStops
  <2>1. /\ UNCHANGED <<rows, lastId, drifted, overwritten>>
        /\ import' = 0 \/ import' = import \/ import' \in DOMAIN Batches
    BY <1>2, ImportsAssumption DEF ImportStarts, ImportDies, BackfillCompares, BackfillEnds, BackfillDies,
       DaemonStops, tables, history
  <2>2. listening' \in BOOLEAN
    BY <1>2 DEF IInv, TypeOK, ImportStarts, ImportDies, BackfillCompares, BackfillEnds, BackfillDies,
       DaemonStops
  <2>3. \/ UNCHANGED <<backfill, covered>>
        \/ backfill' = Off /\ UNCHANGED covered
        \/ backfill' = Off /\ backfill.todo = {} /\ covered' = covered \cup {x.id : x \in backfill.chosen}
        \/ /\ UNCHANGED covered
           /\ backfill' = [backfill EXCEPT !.pc = "writing", !.chosen = Assignable, !.todo = Assignable]
    BY <1>2 DEF ImportStarts, ImportDies, BackfillCompares, BackfillEnds, BackfillDies, DaemonStops, history
  <2> QED BY <2>1, <2>2, <2>3, ScriptKeeps
<1> QED BY <1>1, <1>2, ImportKeeps, LoadKeeps, WriteKeeps, ArchiveKeeps, EditorInsertKeeps,
           EditorDeleteKeeps DEF Next, Ids

(* The first start, on tables without rows.                                *)
LEMMA InitKeeps == Init => IInv
<1> SUFFICES ASSUME Init PROVE IInv
  OBVIOUS
<1>1. DOMAIN rows = {} /\ rows \in [DOMAIN rows -> Row]
  <2>1. rows \in Seq(Row) /\ rows = << >>
    BY EmptySeq DEF Init
  <2> QED BY <2>1
<1>2. /\ backfill.loaded = {} /\ backfill.chosen = {} /\ backfill.todo = {}
      /\ backfill \in [pc : {"off", "loaded", "writing"},
                       loaded : SUBSET Item, chosen : SUBSET Item, todo : SUBSET Item]
  BY DEF Init, Off
<1>3. TypeOK
  BY <1>1, <1>2 DEF Init, TypeOK
<1> QED BY <1>1, <1>2, <1>3 DEF Init, IInv, KeysUnique, NumberedLikeSheet, ReadStillTrue,
                                CoveredLinked, MessageFollowsClue, Ids

-----------------------------------------------------------------------------
(* The theorems *)

(* The invariant, however the scripts, the daemon and the editors meet.    *)
THEOREM ImportsSound == Spec => []IInv
BY InitKeeps, NextKeeps, PTL DEF Spec

(* legacy_number and message_id stay unique; for the numbers no writer     *)
(* needs the constraint of the table.                                      *)
THEOREM KeysStayUnique == Spec => []KeysUnique
<1>1. IInv => KeysUnique
  BY DEF IInv
<1> QED BY <1>1, ImportsSound, PTL

(* Texts are overwritten only once the numbers have drifted, and until     *)
(* then a message_id belongs to the clue of its row.                       *)
THEOREM MessageIsOfClue == Spec => []MessageFollowsClue
<1>1. IInv => MessageFollowsClue
  BY DEF IInv
<1> QED BY <1>1, ImportsSound, PTL

(* The daemon does not archive again what a completed backfill has linked. *)
THEOREM BackfilledOnce == Spec => BackfillProtects
<1> DEFINE Spares == \A t \in Live : DaemonArchives(t) /\ ~overwritten =>
                       \A i \in covered \cap Ids : rows[i].text = t => Link[t] # t
<1>1. IInv /\ [Next]_vars => Spares
  <2> SUFFICES ASSUME IInv, NEW t \in Live, DaemonArchives(t), ~overwritten,
                      NEW i \in covered \cap DOMAIN rows, rows[i].text = t, Link[t] = t
               PROVE  FALSE
    BY DEF Ids
  <2>1. rows[i].message = t
    BY DEF IInv, CoveredLinked
  <2>2. t # None
    BY ImportsAssumption DEF Text
  <2> QED BY <2>1, <2>2 DEF DaemonArchives, Messages, Ids
<1>2. Spec => [][Spares]_vars
  BY <1>1, ImportsSound, PTL DEF Spec
<1> QED BY <1>2 DEF BackfillProtects

=============================================================================
