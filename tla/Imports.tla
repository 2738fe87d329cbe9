------------------------------ MODULE Imports ------------------------------
(***************************************************************************)
(* Two scripts that write the clues table of a running system:             *)
(* scripts/import_csv.py, which upserts the spreadsheet by legacy_number   *)
(* in batches and is run before each start of the web app, and             *)
(* scripts/backfill_message_ids.py, run before each start of the chat      *)
(* daemon, which gives the imported clues the message_id their transcript  *)
(* links name, so that the daemon does not archive them again.             *)
(*                                                                         *)
(* A clue's text stands for all that the spreadsheet holds of it; row n of *)
(* the spreadsheet holds text n.  Texts above it are new in the chat, and  *)
(* text t is posted in message t.  Its link names a message too, or a      *)
(* whole day (None), or the message of another clue.  The database starts  *)
(* with its tables: on a database without them the check of --if-empty     *)
(* fails, and with it the first start.                                     *)
(***************************************************************************)
EXTENDS Integers, FiniteSets

CONSTANTS
  Batches,      \* the spreadsheet: a sequence of sets of numbers
  Live,         \* texts posted while the daemon listens
  Link,         \* the message each text's transcript_link names, or None
  None,
  MaxRows,      \* bound: rows ever inserted
  MaxImports, MaxBackfills, MaxEdits  \* bounds: runs of the scripts, editors' changes

Sheet == UNION {Batches[i] : i \in DOMAIN Batches}
Text == Sheet \cup Live

ASSUME ImportsAssumption ==
  /\ Text \subseteq Nat /\ Link \in [Text -> Text \cup {None}] /\ None \notin Text
  /\ 1 \in DOMAIN Batches /\ \A i \in DOMAIN Batches : IsFiniteSet(Batches[i])
  /\ {MaxRows, MaxImports, MaxBackfills, MaxEdits} \subseteq Nat

VARIABLES
  rows,         \* the clues table: id -> [number, text, message]
  lastId,       \* the highest id given so far
  import,       \* import_csv: the batch it is at, 0 when it does not run
  backfill,     \* backfill_message_ids: [pc, loaded, chosen, todo]
  listening,    \* the daemon runs
  covered,      \* the clues that completed backfills gave their ids
  drifted,      \* a number of the archive and of the spreadsheet may differ
  overwritten,  \* an import has put a text over another one
  spent

tables == <<rows, lastId>>
history == <<covered, drifted, overwritten>>
vars == <<tables, import, backfill, listening, history, spent>>

Ids == DOMAIN rows
Messages == {rows[i].message : i \in Ids} \ {None}
Numbers == {rows[i].number : i \in Ids}
NextNumber == IF Ids = {} THEN 1 ELSE 1 + CHOOSE n \in Numbers : \A k \in Numbers : k <= n

Off == [pc |-> "off", loaded |-> {}, chosen |-> {}, todo |-> {}]

Spend(what, bound) == spent[what] < bound /\ spent' = [spent EXCEPT ![what] = @ + 1]

Init ==
  /\ rows = <<>> /\ lastId = 0
  /\ import = 0 /\ backfill = Off /\ listening = FALSE
  /\ covered = {} /\ drifted = FALSE /\ overwritten = FALSE
  /\ spent = [imports |-> 0, backfills |-> 0, edits |-> 0]

-----------------------------------------------------------------------------
(* scripts/import_csv.py *)

(* with --if-empty a table with rows ends it at once, so that only the     *)
(* check of an empty one is a step; by hand it is run without              *)
ImportStarts ==
  /\ import = 0 /\ Spend("imports", MaxImports)
  /\ import' = 1
  /\ UNCHANGED <<tables, backfill, listening, history>>

Fresh(batch) == batch \ Numbers

(* the ids of new rows: in the order of the numbers *)
NewId(batch, n) == lastId + Cardinality({k \in Fresh(batch) : k <= n})

NewRows(batch) ==
  [i \in lastId + 1 .. lastId + Cardinality(Fresh(batch)) |->
     LET n == CHOOSE k \in Fresh(batch) : NewId(batch, k) = i
     IN [number |-> n, text |-> n, message |-> None]]

(* Mutant: the conflict is decided on the id *)
UpsertedById(i, batch) == IF i \in batch THEN [rows[i] EXCEPT !.text = i] ELSE rows[i]

(* a row with a number of the batch gets the text, and keeps its message *)
Upserted(i, batch) == IF rows[i].number \in batch THEN [rows[i] EXCEPT !.text = rows[i].number] ELSE rows[i]

Imported(batch) ==
  [i \in Ids \cup DOMAIN NewRows(batch) |-> IF i \in Ids THEN Upserted(i, batch) ELSE NewRows(batch)[i]]

(* one batch and its commit *)
ImportBatch ==
  LET batch == Batches[import] IN
  /\ import # 0
  /\ rows' = Imported(batch)
  /\ lastId' = lastId + Cardinality(Fresh(batch))
  /\ overwritten' = (overwritten \/ \E i \in Ids : rows'[i].text # rows[i].text)
  /\ import' = IF import + 1 \in DOMAIN Batches THEN import + 1 ELSE 0
  /\ UNCHANGED <<backfill, listening, covered, drifted, spent>>

(* the batches done so far stay *)
ImportDies ==
  /\ import # 0 /\ import' = 0
  /\ UNCHANGED <<tables, backfill, listening, history, spent>>

-----------------------------------------------------------------------------
(* scripts/backfill_message_ids.py *)

(* the clues with a link and no id, as they are now *)
WithoutId == {i \in Ids : rows[i].message = None /\ Link[rows[i].text] # None}

Loaded == {[id |-> i, number |-> rows[i].number, message |-> Link[rows[i].text]] : i \in WithoutId}

BackfillLoads ==
  /\ backfill.pc = "off" /\ Spend("backfills", MaxBackfills)
  /\ backfill' = [Off EXCEPT !.pc = "loaded", !.loaded = Loaded]
  /\ UNCHANGED <<tables, import, listening, history>>

(* an id that two of them share, or that is taken, is given to none *)
Assignable == {x \in backfill.loaded : /\ \A y \in backfill.loaded : y.message = x.message => y = x
                                      /\ x.message \notin Messages}

(* the ids that are taken are read in a session of its own *)
BackfillCompares ==
  /\ backfill.pc = "loaded"
  /\ backfill' = [backfill EXCEPT !.pc = "writing", !.chosen = Assignable, !.todo = Assignable]
  /\ UNCHANGED <<tables, import, listening, history, spent>>

(* Mutant: the row is found by the number it had *)
TargetByNumber(x) == {i \in Ids : rows[i].number = x.number}

(* the row, unless it has gone *)
Target(x) == {x.id} \cap Ids

(* each id is written in a transaction; one that was taken meanwhile ends  *)
(* the script                                                              *)
BackfillWrites ==
  \E x \in backfill.todo :
    /\ backfill.pc = "writing"
    /\ Target(x) # {} => x.message \notin Messages
    /\ rows' = [i \in Ids |-> IF i \in Target(x) THEN [rows[i] EXCEPT !.message = x.message] ELSE rows[i]]
    /\ backfill' = [backfill EXCEPT !.todo = @ \ {x}]
    /\ UNCHANGED <<lastId, import, listening, history, spent>>

(* the container's command goes on to the daemon *)
BackfillEnds ==
  /\ backfill.pc = "writing" /\ backfill.todo = {}
  /\ covered' = covered \cup {x.id : x \in backfill.chosen}
  /\ backfill' = Off /\ listening' = TRUE
  /\ UNCHANGED <<tables, import, drifted, overwritten, spent>>

BackfillDies ==
  /\ backfill.pc # "off" /\ backfill' = Off
  /\ UNCHANGED <<tables, import, listening, history, spent>>

-----------------------------------------------------------------------------
(* The daemon and the editors *)

NewRow(number, text, message) == [number |-> number, text |-> text, message |-> message]

WithRow(shifted, row) == [i \in Ids \cup {lastId + 1} |-> IF i \in Ids THEN shifted[i] ELSE row]

(* a clue is posted whose message no row has *)
DaemonArchives(t) ==
  /\ listening /\ lastId < MaxRows
  /\ t \notin Messages
  /\ rows' = WithRow(rows, NewRow(NextNumber, t, t))
  /\ lastId' = lastId + 1
  /\ drifted' = (drifted \/ NextNumber # t)
  /\ UNCHANGED <<import, backfill, listening, covered, overwritten, spent>>

ShiftedUp(p) == [i \in Ids |-> IF rows[i].number >= p THEN [rows[i] EXCEPT !.number = @ + 1] ELSE rows[i]]

(* an editor inserts a clue that was missing; what follows moves up *)
EditorInserts(t, p) ==
  /\ Spend("edits", MaxEdits) /\ lastId < MaxRows
  /\ p \in Numbers /\ t \notin {rows[i].text : i \in Ids}
  /\ rows' = WithRow(ShiftedUp(p), NewRow(p, t, None))
  /\ lastId' = lastId + 1 /\ drifted' = TRUE
  /\ UNCHANGED <<import, backfill, listening, covered, overwritten>>

EditorDeletes(i) ==
  /\ Spend("edits", MaxEdits) /\ i \in Ids
  /\ rows' = [j \in Ids \ {i} |-> rows[j]]
  /\ UNCHANGED <<lastId, import, backfill, listening, history>>

DaemonStops ==
  /\ listening /\ listening' = FALSE
  /\ UNCHANGED <<tables, import, backfill, history, spent>>

Next ==
  \/ ImportStarts \/ ImportBatch \/ ImportDies
  \/ BackfillLoads \/ BackfillCompares \/ BackfillWrites \/ BackfillEnds \/ BackfillDies
  \/ \E t \in Live : DaemonArchives(t)
  \/ \E t \in Text, p \in Numbers : EditorInserts(t, p)
  \/ \E i \in Ids : EditorDeletes(i)
  \/ DaemonStops

Spec == Init /\ [][Next]_vars

-----------------------------------------------------------------------------
(***************************************************************************)
(* Properties                                                              *)
(***************************************************************************)

(* An import puts a text over another only in an archive whose numbers     *)
(* have left those of the spreadsheet: by a mid-chain insert, or because   *)
(* the daemon archived a clue at another number, as it does when it runs   *)
(* before the import is complete.  Until then a message_id belongs to the  *)
(* clue of its row, however the scripts, the daemon and the editors meet.  *)
MessageFollowsClue ==
  /\ overwritten => drifted
  /\ ~overwritten => \A i \in Ids : rows[i].message \in {None, rows[i].text, Link[rows[i].text]}

(* A clue that a completed backfill gave its id, from a link that names    *)
(* its own message, is never archived again by the daemon (README.md:      *)
(* 366-369), unless an import has put another text over it.                *)
BackfillProtects ==
  [][\A t \in Live : DaemonArchives(t) /\ ~overwritten =>
       \A i \in covered \cap Ids : rows[i].text = t => Link[t] # t]_vars
=============================================================================
