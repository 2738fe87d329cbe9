----------------------------- MODULE Membership ----------------------------
(***************************************************************************)
(* Sequences, the groups of clues that belong together                     *)
(* (app/api/sequences.py), edited by hand while scripts/import_sequences   *)
(* recreates those of the old spreadsheet, and clues are deleted and       *)
(* renumbered.                                                             *)
(*                                                                         *)
(* A change of the membership is two steps.  The first is what the request *)
(* reads, with the DELETE of a set, which sees the rows committed before   *)
(* it; the second its INSERTs and the commit, where the primary key of     *)
(* clue_sequences and its foreign keys decide.  Who waits for whose row    *)
(* lock is the order of the commits.  Requests that read one row and write *)
(* it are one step.  All clues are of one author; a tag is a theme.        *)
(***************************************************************************)
EXTENDS Access, FiniteSets, Sequences

CONSTANTS
  Clue,         \* database ids of clues
  Number,       \* the legacy numbers
  Manual,       \* a sequence made by hand, there at the start
  Groups,       \* the spreadsheet: a sequence of [type, key, numbers]
  MaxEvents, MaxImports   \* bounds: requests, edits of rows and starts together; imports

ASSUME MembershipAssumption ==
  /\ Len(Groups) \in Nat /\ DOMAIN Groups = 1 .. Len(Groups)
  /\ \A i \in DOMAIN Groups : Groups[i].numbers \subseteq Number
  /\ {MaxEvents, MaxImports} \subseteq Nat

VARIABLES
  numbers,      \* the legacy_number of each clue there is
  sequences,    \* the rows of sequences: [type, key]
  members,      \* the rows of clue_sequences: <<clue, sequence>>
  lastId,       \* the highest sequence id given so far
  importer,     \* the import script: [pc, byNumber]
  spent         \* how often the bounded events have happened

accessVars == <<users, request>>
tableVars == <<numbers, sequences, members, lastId>>
vars == <<accessVars, tableVars, importer, spent>>

Clues == DOMAIN numbers
MembersOf(s) == {c \in Clue : <<c, s>> \in members}
WithoutSequences(gone) == [s \in DOMAIN sequences \ gone |-> sequences[s]]
WithSequences(new) == [s \in DOMAIN sequences \cup DOMAIN new |->
                         IF s \in DOMAIN sequences THEN sequences[s] ELSE new[s]]
Legacy == {s \in DOMAIN sequences : sequences[s].key # None}

(* uq_sequences_type_legacy: NULL keys never collide *)
Taken(type, key) == key # None /\ [type |-> type, key |-> key] \in {sequences[s] : s \in DOMAIN sequences}

Spend(what, bound) == spent[what] < bound /\ spent' = [spent EXCEPT ![what] = @ + 1]

Off == [pc |-> "off", byNumber |-> <<>>]

Init ==
  /\ AccessInit
  /\ numbers \in {n \in [Clue -> Number] : \A c, d \in Clue : n[c] = n[d] => c = d}
  /\ sequences = [s \in {1} |-> Manual]
  /\ members = {} /\ lastId = 1
  /\ importer = Off
  /\ spent = [events |-> 0, imports |-> 0]

-----------------------------------------------------------------------------
(* Rows of sequences and clues *)

NewSequence(type, key) == WithSequences([s \in {lastId + 1} |-> [type |-> type, key |-> key]])

(* create_sequence; a client may give a legacy_key *)
Create(type, key) ==
  /\ Writers # {} /\ ~Taken(type, key)
  /\ sequences' = NewSequence(type, key) /\ lastId' = lastId + 1
  /\ UNCHANGED <<accessVars, numbers, members>>

(* update_sequence, as far as the type goes *)
Retype(s, type) ==
  /\ Writers # {} /\ s \in DOMAIN sequences /\ type # sequences[s].type
  /\ ~Taken(type, sequences[s].key)
  /\ sequences' = [sequences EXCEPT ![s].type = type]
  /\ UNCHANGED <<accessVars, numbers, members, lastId>>

(* delete_sequence, for admins; its memberships go with it *)
DeleteSequence(s) ==
  /\ Managers # {} /\ s \in DOMAIN sequences
  /\ sequences' = WithoutSequences({s})
  /\ members' = {m \in members : m[2] # s}
  /\ UNCHANGED <<accessVars, numbers, lastId>>

(* api/clues.py: a clue is deleted with its memberships *)
DeleteClue(c) ==
  /\ Writers # {} /\ c \in Clues
  /\ numbers' = [d \in Clues \ {c} |-> numbers[d]]
  /\ members' = {m \in members : m[1] # c}
  /\ UNCHANGED <<accessVars, sequences, lastId>>

(* api/clues.py: a move, where it exchanges the numbers of two clues *)
MoveClue(c, d) ==
  /\ Writers # {} /\ {c, d} \subseteq Clues /\ c # d
  /\ numbers' = [numbers EXCEPT ![c] = numbers[d], ![d] = numbers[c]]
  /\ UNCHANGED <<accessVars, sequences, members, lastId>>

-----------------------------------------------------------------------------
(* Changes of the membership: what is read *)

(* seen: the members the request read; removed, added: what it will write *)
Change(op, s, removed, added) ==
  [op |-> op, seq |-> s, seen |-> MembersOf(s), removed |-> removed, added |-> added]

Begins(r, s, change) ==
  /\ Writers # {} /\ s \in DOMAIN sequences
  /\ Begin(r, change) /\ Spend("events", MaxEvents)
  /\ UNCHANGED <<users, tableVars, importer>>

(* set_sequence_clues: ids of no clue are dropped, then the memberships    *)
(* there are at this moment are deleted                                    *)
SetClues(r, s, wanted) == Begins(r, s, Change("set", s, MembersOf(s), wanted \cap Clues))

(* add_clue_to_sequence; nothing is written when it is a member already *)
AddClue(r, s, c) ==
  c \in Clues \ MembersOf(s) /\ Begins(r, s, Change("add", s, {}, {c}))

(* remove_clue_from_sequence *)
RemoveClue(r, s, c) ==
  c \in MembersOf(s) /\ Begins(r, s, Change("remove", s, {c}, {}))

(* the count clues with the highest numbers *)
Recent(count) == {c \in Clues : Cardinality({d \in Clues : numbers[d] > numbers[c]}) < count}

(* auto_add_by_author *)
AutoAdd(r, s, count) ==
  /\ s \in DOMAIN sequences /\ sequences[s].type = "author"
  /\ Recent(count) \ MembersOf(s) # {}
  /\ Begins(r, s, Change("auto", s, {}, Recent(count) \ MembersOf(s)))

-----------------------------------------------------------------------------
(* Changes of the membership: the commit *)

Links(clues, s) == {<<c, s>> : c \in clues}

(* Mutant: the members the request has read are taken for the present ones *)
StoredAsRead(x) == (members \ Links(Clue, x.seq)) \cup Links((x.seen \ x.removed) \cup x.added, x.seq)

(* a row removed by someone else meanwhile is no error: asyncpg does not   *)
(* count the rows                                                          *)
Stored(x) == (members \ Links(x.removed, x.seq)) \cup Links(x.added, x.seq)

(* the DELETE of a set skips a row that someone else has deleted; one of   *)
(* the same key that came since is another row, which it does not see      *)
Remaining(y, x) == IF y.op = "set" /\ y.seq = x.seq
                   THEN [y EXCEPT !.removed = @ \ x.removed] ELSE y

Editing == {"set", "add", "remove", "auto"}

Commit(r) ==
  LET x == request[r] IN
  /\ x.op \in Editing
  /\ x.added \subseteq Clues /\ (x.added = {} \/ x.seq \in DOMAIN sequences)  \* the foreign keys
  /\ x.added \cap (MembersOf(x.seq) \ x.removed) = {}                         \* the primary key
  /\ members' = Stored(x)
  /\ request' = [q \in Request |-> IF q = r THEN Idle ELSE Remaining(request[q], x)]
  /\ UNCHANGED <<users, numbers, sequences, lastId, importer, spent>>

-----------------------------------------------------------------------------
(* scripts/import_sequences.py *)

(* the clues are read once, before anything is written *)
ImportReads ==
  /\ importer.pc = "off" /\ Spend("imports", MaxImports)
  /\ importer' = [pc |-> "read", byNumber |-> numbers]
  /\ UNCHANGED <<accessVars, tableVars>>

(* Mutant: every sequence of the types the spreadsheet knows is wiped *)
WipedByType == {s \in DOMAIN sequences : \E i \in DOMAIN Groups : sequences[s].type = Groups[i].type}

(* the sequences with a legacy_key, whoever made or edited them *)
Wiped == Legacy

(* the first transaction *)
ImportWipes ==
  /\ importer.pc = "read"
  /\ sequences' = WithoutSequences(Wiped)
  /\ members' = {m \in members : m[2] \notin Wiped}
  /\ importer' = [importer EXCEPT !.pc = "wiped"]
  /\ UNCHANGED <<accessVars, numbers, lastId, spent>>

(* the clues of a group, by the numbers that were read; others are skipped *)
Resolve(g) == {c \in DOMAIN importer.byNumber : importer.byNumber[c] \in g.numbers}

(* the second transaction: all groups, or none *)
ImportLinks ==
  LET made == {lastId + i : i \in DOMAIN Groups}
      group(s) == Groups[s - lastId] IN
  /\ importer.pc = "wiped"
  /\ \A s \in made : ~Taken(group(s).type, group(s).key) /\ Resolve(group(s)) \subseteq Clues
  /\ sequences' = WithSequences([s \in made |-> [type |-> group(s).type, key |-> group(s).key]])
  /\ members' = members \cup UNION {Links(Resolve(group(s)), s) : s \in made}
  /\ lastId' = lastId + Cardinality(made)
  /\ importer' = Off
  /\ UNCHANGED <<accessVars, numbers, spent>>

(* it fails, at a constraint or otherwise, or is killed *)
ImportDies ==
  /\ importer.pc # "off" /\ importer' = Off
  /\ UNCHANGED <<accessVars, tableVars, spent>>

-----------------------------------------------------------------------------
Restart ==
  /\ Spend("events", MaxEvents) /\ Start
  /\ UNCHANGED <<tableVars, importer>>

Type == {"author", "theme"}
Key == {Groups[i].key : i \in DOMAIN Groups} \cup {None}

RowStep ==
  /\ Spend("events", MaxEvents) /\ UNCHANGED importer
  /\ \/ \E type \in Type, key \in Key : Create(type, key)
     \/ \E s \in DOMAIN sequences : DeleteSequence(s) \/ \E type \in Type : Retype(s, type)
     \/ \E c \in Clue : DeleteClue(c) \/ \E d \in Clue : MoveClue(c, d)

MembershipStep(r, s) ==
  \/ \E wanted \in SUBSET Clue : SetClues(r, s, wanted)
  \/ \E c \in Clue : AddClue(r, s, c) \/ RemoveClue(r, s, c)
  \/ \E count \in 1 .. Cardinality(Clue) : AutoAdd(r, s, count)

Next ==
  \/ \E r \in Request : AccessBegins(r) /\ Spend("events", MaxEvents) /\ UNCHANGED <<tableVars, importer>>
  \/ \E r \in Request : (AccessCommits(r) \/ Fail(r)) /\ UNCHANGED <<tableVars, importer, spent>>
  \/ RowStep
  \/ \E r \in Request, s \in DOMAIN sequences : MembershipStep(r, s)
  \/ \E r \in Request : Commit(r)
  \/ ImportReads \/ ImportWipes \/ ImportLinks \/ ImportDies
  \/ Restart

(***************************************************************************)
(* Properties                                                              *)
(***************************************************************************)

(* What an answer to a change of the membership says: a set leaves the     *)
(* clues asked for and no others, an addition or a removal changes its own *)
(* clues only.                                                             *)
Promised(x) == (IF x.op = "set" THEN {} ELSE x.seen \ x.removed) \cup x.added
Concerned(x) == (IF x.op = "set" THEN x.seen ELSE x.removed) \cup x.added

(* whether the sequence is still as the request read it *)
Undisturbed(x) == MembersOf(x.seq) = x.seen /\ (x.op = "set" => x.removed = x.seen)

(* Edits compose: a change that is answered has left the sequence as the   *)
(* answer says, if nobody else changed it meanwhile; and if others did, it *)
(* undoes nothing they did to clues it was not concerned with (a set next  *)
(* to an addition leaves both).                                            *)
EditsCompose ==
  [][\A r \in Request, s \in DOMAIN sequences :
       Commit(r) /\ request[r].seq = s =>
         LET now == {c \in Clue : <<c, s>> \in members'} IN
         /\ Undisturbed(request[r]) => now = Promised(request[r])
         /\ \A c \in Clue \ Concerned(request[r]) : c \in now <=> c \in MembersOf(s)]_vars

(* The import never touches a sequence without a legacy_key: manual work   *)
(* survives it (import_sequences.py:134-136).  One that completes leaves   *)
(* every group of the spreadsheet with exactly its clues, whatever was     *)
(* there before and whatever happened between its two transactions (:16);  *)
(* only a clue renumbered since the script read the clues can be missing   *)
(* or wrong.                                                               *)
ImportIsSpreadsheet ==
  [][/\ importer' # importer => \A s \in DOMAIN sequences \ Legacy :
          /\ s \in DOMAIN sequences' /\ sequences'[s] = sequences[s]
          /\ {c \in Clue : <<c, s>> \in members'} = MembersOf(s)
     /\ ImportLinks => \A i \in DOMAIN Groups :
          \E s \in DOMAIN sequences' :
            /\ sequences'[s] = [type |-> Groups[i].type, key |-> Groups[i].key]
            /\ \A c \in Clues : c \in DOMAIN importer.byNumber /\ importer.byNumber[c] = numbers[c]
                 => (<<c, s>> \in members' <=> numbers[c] \in Groups[i].numbers)]_vars

(* A user who is no editor becomes one by an admin's grant, by being a     *)
(* moderator, or at a start of the app; a login that began before a        *)
(* revocation does not undo it.                                            *)
IsEditor(u) == users[u] # None /\ users[u].editor

RevocationStands ==
  [][\A u \in User : ~IsEditor(u) /\ IsEditor(u)' =>
       \/ u \in Moderator
       \/ \E r \in Request : request[r].op = "manage" /\ request[r].grant /\ SaveEditor(r)
       \/ Restart]_vars

Spec == Init /\ [][Next]_vars
=============================================================================
