----------------------------- MODULE WebProofs -----------------------------
(***************************************************************************)
(* Proofs about the web app beside the archive: Membership, for any        *)
(* users, clues, requests and spreadsheets; Stats, for any numbers, dates  *)
(* and sequences of clues.                                                 *)
(***************************************************************************)
EXTENDS Membership, Stats, NumberingProofs, FiniteSetTheorems

-----------------------------------------------------------------------------
(***************************************************************************)
(* Membership. A request works with what it has read. An account it has    *)
(* found is still there when it commits, for accounts are never deleted;   *)
(* a change has deleted only what it has read; and ids are given once, so  *)
(* that a membership is always of a clue and a sequence there are.         *)
(***************************************************************************)

(* The tables: a membership is of a clue and of a sequence there is, and   *)
(* ids are given once.                                                     *)
Tables ==
  /\ lastId \in Nat /\ DOMAIN sequences \subseteq 1..lastId
  /\ members \subseteq Clue \X DOMAIN sequences
  /\ Clues \subseteq Clue
  /\ DOMAIN importer.byNumber \subseteq Clue

(* A request that has found an account may write it: accounts are never    *)
(* deleted.                                                                *)
AccountsStay ==
  /\ users \in [User -> Account \cup {None}]
  /\ \A r \in Request :
       /\ request[r].op = "login" =>
            /\ request[r].user \in User
            /\ request[r].loaded # None => users[request[r].user] # None
       /\ request[r].op = "manage" =>
            /\ request[r].user \in User /\ request[r].grant \in BOOLEAN
            /\ users[request[r].user] # None

(* What a change has still to delete it has read, and only clues are       *)
(* added.                                                                  *)
Changes == [op : Editing, seq : Nat, seen : SUBSET Clue, removed : SUBSET Clue, added : SUBSET Clue]

ChangesSound ==
  /\ DOMAIN request = Request
  /\ \A r \in Request :
       request[r].op \in Editing => /\ request[r] \in Changes
                                   /\ request[r].removed \subseteq request[r].seen

IInv == Tables /\ AccountsStay /\ ChangesSound

(* The request at the end of a step that ends one.                         *)
LEMMA EndsOne ==
  ASSUME IInv, NEW r \in Request, End(r)
  PROVE  /\ request'[r] = Idle /\ DOMAIN request' = Request
         /\ \A q \in Request \ {r} : request'[q] = request[q]
         /\ ChangesSound'
<1>1. DOMAIN request = Request
  BY DEF IInv, ChangesSound
<1>2. /\ request'[r] = Idle /\ DOMAIN request' = Request
      /\ \A q \in Request \ {r} : request'[q] = request[q]
  BY <1>1 DEF End
<1>3. \A q \in Request : request'[q].op \in Editing => q # r
  BY <1>2 DEF Idle, Editing
<1> QED BY <1>2, <1>3 DEF IInv, ChangesSound

(* Logins and the editors' administration.                                 *)
LEMMA AccountsKeep ==
  ASSUME IInv, NEW r \in Request, AccessBegins(r) \/ AccessCommits(r) \/ Fail(r),
         UNCHANGED <<tableVars, importer>>
  PROVE  IInv'
<1>1. Tables'
  BY DEF IInv, Tables, tableVars, Clues
<1>2. DOMAIN request = Request /\ users \in [User -> Account \cup {None}] /\ None \notin Account
  BY AccessAssumption DEF IInv, ChangesSound, AccountsStay, Account
<1>3. ASSUME NEW rec, Begin(r, rec), UNCHANGED users, rec.op \notin Editing,
             rec.op = "login" =>
               rec.user \in User /\ (rec.loaded # None => users[rec.user] # None),
             rec.op = "manage" =>
               rec.user \in User /\ rec.grant \in BOOLEAN /\ users[rec.user] # None
      PROVE  IInv'
  <2>1. /\ request'[r] = rec /\ DOMAIN request' = Request
        /\ \A q \in Request \ {r} : request'[q] = request[q]
    BY <1>2, <1>3 DEF Begin
  <2>2. AccountsStay'
    BY <1>3, <2>1 DEF IInv, AccountsStay
  <2>3. ChangesSound'
    BY <1>3, <2>1 DEF IInv, ChangesSound
  <2> QED BY <1>1, <2>2, <2>3 DEF IInv
<1>4. ASSUME NEW u \in User, Login(r, u)
      PROVE  IInv'
  BY <1>3, <1>4 DEF Login, Editing
<1>5. ASSUME NEW u \in User, NEW grant \in BOOLEAN, Manage(r, u, grant)
      PROVE  IInv'
  BY <1>3, <1>5 DEF Manage, Editing
<1>6. CASE SaveLogin(r)
  <2> DEFINE u == request[r].user
             new == IF request[r].loaded = None
                    THEN [admin |-> u \in Moderator, editor |-> u \in Moderator]
                    ELSE SignedIn(users[u], request[r].loaded, u \in Moderator)
  <2>1. u \in User /\ (request[r].loaded # None => users[u] \in Account)
    BY <1>2, <1>6 DEF SaveLogin, IInv, AccountsStay
  <2>2. new \in Account
    BY <2>1 DEF SignedIn, Account
  <2>3. users' = [users EXCEPT ![u] = new]
    BY <1>6 DEF SaveLogin
  <2>4. End(r)
    BY <1>6 DEF SaveLogin
  <2> HIDE DEF new
  <2>5. AccountsStay'
    BY <1>2, <2>1, <2>2, <2>3, <2>4, EndsOne DEF IInv, AccountsStay, Idle
  <2> QED BY <1>1, <2>4, <2>5, EndsOne DEF IInv
<1>7. CASE SaveEditor(r)
  <2>1. PICK u \in User : u = request[r].user /\ users[u] \in Account /\ request[r].grant \in BOOLEAN
    BY <1>2, <1>7 DEF SaveEditor, IInv, AccountsStay
  <2>2. [users[u] EXCEPT !.editor = request[r].grant] \in Account
    BY <2>1 DEF Account
  <2>3. users' \in [User -> Account \cup {None}] /\ \A v \in User : users[v] # None => users'[v] # None
    <3>1. CASE users' = users
      BY <1>2, <3>1
    <3>2. CASE users' = [users EXCEPT ![u] = [users[u] EXCEPT !.editor = request[r].grant]]
      BY <1>2, <2>1, <2>2, <3>2
    <3> QED BY <1>7, <2>1, <3>1, <3>2 DEF SaveEditor
  <2>4. End(r)
    BY <1>7 DEF SaveEditor
  <2>5. AccountsStay'
    BY <2>3, <2>4, EndsOne DEF IInv, AccountsStay, Idle
  <2> QED BY <1>1, <2>4, <2>5, EndsOne DEF IInv
<1>8. CASE Fail(r)
  <2>1. End(r) /\ UNCHANGED users
    BY <1>8 DEF Fail
  <2>2. AccountsStay'
    BY <2>1, EndsOne DEF IInv, AccountsStay, Idle
  <2> QED BY <1>1, <2>1, <2>2, EndsOne DEF IInv
<1> QED BY <1>4, <1>5, <1>6, <1>7, <1>8 DEF AccessBegins, AccessCommits

(* Edits of the rows.                                                      *)
LEMMA RowsKeep ==
  ASSUME IInv, RowStep
  PROVE  IInv'
<1>1. UNCHANGED <<users, request, importer>>
  BY DEF RowStep, Create, DeleteSequence, Retype, DeleteClue, MoveClue, accessVars
<1>2. AccountsStay' /\ ChangesSound'
  BY <1>1 DEF IInv, AccountsStay, ChangesSound
<1>3. Tables
  BY DEF IInv
<1>4. ASSUME NEW type, NEW key, Create(type, key)
      PROVE  Tables'
  BY <1>1, <1>3, <1>4 DEF Create, NewSequence, WithSequences, Tables, Clues
<1>5. ASSUME NEW s \in DOMAIN sequences, DeleteSequence(s)
      PROVE  Tables'
  <2>1. /\ DOMAIN sequences' = DOMAIN sequences \ {s} /\ members' = {m \in members : m[2] # s}
        /\ UNCHANGED <<numbers, lastId>>
    BY <1>5 DEF DeleteSequence, WithoutSequences
  <2> QED BY <1>1, <1>3, <2>1 DEF Tables, Clues
<1>6. ASSUME NEW s \in DOMAIN sequences, NEW type, Retype(s, type)
      PROVE  Tables'
  BY <1>1, <1>3, <1>6 DEF Retype, Tables, Clues
<1>7. ASSUME NEW c \in Clue, DeleteClue(c)
      PROVE  Tables'
  BY <1>1, <1>3, <1>7 DEF DeleteClue, Tables, Clues
<1>8. ASSUME NEW c \in Clue, NEW d \in Clue, MoveClue(c, d)
      PROVE  Tables'
  BY <1>1, <1>3, <1>8 DEF MoveClue, Tables, Clues
<1>9. Tables'
  BY <1>4, <1>5, <1>6, <1>7, <1>8 DEF RowStep
<1> QED BY <1>2, <1>9 DEF IInv

(* The first half of a change: nothing is written but the request.         *)
LEMMA BeginKeeps ==
  ASSUME IInv, NEW r \in Request, NEW s \in DOMAIN sequences, MembershipStep(r, s)
  PROVE  IInv'
<1>1. ASSUME NEW op \in Editing, NEW removed \in SUBSET MembersOf(s), NEW added \in SUBSET Clue,
             Begins(r, s, Change(op, s, removed, added))
      PROVE  IInv'
  <2> DEFINE x == Change(op, s, removed, added)
  <2>1. UNCHANGED <<users, tableVars, importer>>
    BY <1>1 DEF Begins
  <2>2. /\ request'[r] = x /\ DOMAIN request' = Request
        /\ \A q \in Request \ {r} : request'[q] = request[q]
    BY <1>1 DEF Begins, Begin, IInv, ChangesSound
  <2>3. x \in Changes /\ x.removed \subseteq x.seen /\ x.op \in Editing
    <3>1. s \in Nat /\ MembersOf(s) \in SUBSET Clue
      BY DEF MembersOf, IInv, Tables
    <3> QED BY <1>1, <3>1 DEF Change, Changes
  <2> HIDE DEF x
  <2>4. Tables'
    BY <2>1 DEF IInv, Tables, tableVars, Clues
  <2>5. AccountsStay'
    BY <2>1, <2>2, <2>3 DEF IInv, AccountsStay, Editing
  <2>6. ChangesSound'
    BY <2>2, <2>3 DEF IInv, ChangesSound
  <2> QED BY <2>4, <2>5, <2>6 DEF IInv
<1>2. Clues \subseteq Clue /\ MembersOf(s) \subseteq Clue
  BY DEF IInv, Tables, MembersOf
<1>3. ASSUME NEW wanted \in SUBSET Clue, SetClues(r, s, wanted)
      PROVE  IInv'
  BY <1>1, <1>2, <1>3 DEF SetClues, Editing
<1>4. ASSUME NEW c \in Clue, AddClue(r, s, c)
      PROVE  IInv'
  BY <1>1, <1>2, <1>4 DEF AddClue, Editing
<1>5. ASSUME NEW c \in Clue, RemoveClue(r, s, c)
      PROVE  IInv'
  BY <1>1, <1>2, <1>5 DEF RemoveClue, Editing
<1>6. ASSUME NEW count, AutoAdd(r, s, count)
      PROVE  IInv'
  <2>1. Recent(count) \ MembersOf(s) \in SUBSET Clue
    BY <1>2 DEF Recent
  <2> QED BY <1>1, <1>6, <2>1 DEF AutoAdd, Editing
<1> QED BY <1>3, <1>4, <1>5, <1>6 DEF MembershipStep

(* The second half of a change.                                            *)
LEMMA CommitKeeps ==
  ASSUME IInv, NEW r \in Request, Commit(r)
  PROVE  IInv'
<1> DEFINE x == request[r]
<1>1. x \in Changes /\ x.removed \subseteq x.seen /\ x.op \in Editing
  BY DEF Commit, IInv, ChangesSound
<1>2. /\ UNCHANGED <<users, numbers, sequences, lastId, importer>>
      /\ members' = Stored(x) /\ (x.added = {} \/ x.seq \in DOMAIN sequences)
      /\ request' = [q \in Request |-> IF q = r THEN Idle ELSE Remaining(request[q], x)]
  BY DEF Commit
<1> HIDE DEF x
<1>3. Tables'
  <2>1. Links(x.added, x.seq) \subseteq Clue \X DOMAIN sequences
    BY <1>1, <1>2 DEF Links, Changes
  <2>2. members' \subseteq members \cup Links(x.added, x.seq)
    BY <1>2 DEF Stored
  <2> QED BY <1>2, <2>1, <2>2 DEF IInv, Tables, Clues
<1>4. ASSUME NEW q \in Request
      PROVE  /\ request'[q] = Idle \/ request'[q] = request[q]
                \/ /\ request[q].op = "set"
                   /\ request'[q] = [request[q] EXCEPT !.removed = @ \ x.removed]
             /\ request'[q].op \in Editing =>
                  request'[q] \in Changes /\ request'[q].removed \subseteq request'[q].seen
  <2>1. /\ request'[q] = Idle \/ request'[q] = request[q]
           \/ /\ request[q].op = "set"
              /\ request'[q] = [request[q] EXCEPT !.removed = @ \ x.removed]
    BY <1>2 DEF Remaining
  <2>2. CASE request'[q] = Idle
    BY <2>1, <2>2 DEF Idle, Editing
  <2>3. CASE request'[q] = request[q]
    BY <2>1, <2>3 DEF IInv, ChangesSound
  <2>4. CASE request[q].op = "set" /\ request'[q] = [request[q] EXCEPT !.removed = @ \ x.removed]
    <3>1. request[q] \in Changes /\ request[q].removed \subseteq request[q].seen
      BY <2>4 DEF IInv, ChangesSound, Editing
    <3> QED BY <2>1, <2>4, <3>1 DEF Changes
  <2> QED BY <2>1, <2>2, <2>3, <2>4
<1>5. ChangesSound'
  BY <1>2, <1>4 DEF ChangesSound
<1>6. AccountsStay'
  <2> SUFFICES ASSUME NEW q \in Request
               PROVE  /\ request'[q].op = "login" =>
                           /\ request'[q].user \in User
                           /\ request'[q].loaded # None => users'[request'[q].user] # None
                      /\ request'[q].op = "manage" =>
                           /\ request'[q].user \in User /\ request'[q].grant \in BOOLEAN
                           /\ users'[request'[q].user] # None
    BY <1>2 DEF IInv, AccountsStay
  <2>1. CASE request'[q] = Idle
    BY <2>1 DEF Idle
  <2>2. CASE request'[q] = request[q]
    BY <1>2, <2>2 DEF IInv, AccountsStay
  <2>3. CASE request[q].op = "set" /\ request'[q] = [request[q] EXCEPT !.removed = @ \ x.removed]
    <3>1. request'[q].op = "set"
      <4>1. request[q] \in Changes
        BY <2>3 DEF IInv, ChangesSound, Editing
      <4> QED BY <2>3, <4>1 DEF Changes
    <3> QED BY <3>1
  <2> QED BY <1>4, <2>1, <2>2, <2>3
<1> QED BY <1>3, <1>5, <1>6 DEF IInv

(* What an import that completes has written: sequences of new ids, whose  *)
(* members are the clues of their groups.                                  *)
LEMMA LinksStored ==
  ASSUME IInv, ImportLinks
  PROVE  /\ lastId' \in Nat /\ lastId <= lastId' /\ numbers' = numbers /\ importer' = Off
         /\ DOMAIN sequences' \subseteq 1..lastId'
         /\ members' \subseteq Clue \X DOMAIN sequences'
         /\ \A s \in DOMAIN sequences : /\ s \in DOMAIN sequences' /\ sequences'[s] = sequences[s]
                                        /\ \A c : <<c, s>> \in members' <=> <<c, s>> \in members
         /\ \A i \in DOMAIN Groups :
              /\ lastId + i \in DOMAIN sequences'
              /\ sequences'[lastId + i] = [type |-> Groups[i].type, key |-> Groups[i].key]
              /\ \A c : <<c, lastId + i>> \in members' <=> c \in Resolve(Groups[i])
<1> DEFINE made     == {lastId + i : i \in DOMAIN Groups}
           group(s) == Groups[s - lastId]
           linked   == UNION {Links(Resolve(group(s)), s) : s \in made}
           new      == [s \in made |-> [type |-> group(s).type, key |-> group(s).key]]
<1>1. /\ lastId \in Nat /\ DOMAIN sequences \subseteq 1..lastId
      /\ members \subseteq Clue \X DOMAIN sequences /\ DOMAIN importer.byNumber \subseteq Clue
  BY DEF IInv, Tables
<1>2. PICK n \in Nat : DOMAIN Groups = 1..n
  BY MembershipAssumption
<1>3. /\ sequences' = WithSequences(new) /\ members' = members \cup linked
      /\ lastId' = lastId + Cardinality(made) /\ numbers' = numbers /\ importer' = Off
  BY DEF ImportLinks
<1>4. made = (lastId + 1)..(lastId + n)
  <2>1. \A s \in (lastId + 1)..(lastId + n) : s - lastId \in 1..n /\ s = lastId + (s - lastId)
    BY <1>1, <1>2
  <2> QED BY <1>1, <1>2, <2>1
<1>5. Cardinality(made) = n
  <2>1. lastId + 1 \in Int /\ lastId + n \in Int
    BY <1>1, <1>2
  <2>2. Cardinality((lastId + 1)..(lastId + n))
          = IF lastId + 1 > lastId + n THEN 0 ELSE (lastId + n) - (lastId + 1) + 1
    BY ONLY <2>1, FS_Interval
  <2>3. (lastId + n) - (lastId + 1) + 1 = n /\ (lastId + 1 > lastId + n => n = 0)
    BY <1>1, <1>2
  <2> HIDE DEF made
  <2> QED BY <1>4, <2>2, <2>3
<1>6. DOMAIN new = made /\ DOMAIN sequences' = DOMAIN sequences \cup made
  BY <1>3 DEF WithSequences
<1>7. \A c, s : <<c, s>> \in linked <=> s \in made /\ c \in Resolve(group(s))
  BY DEF Links
<1>8. \A s : Resolve(group(s)) \subseteq Clue
  BY <1>1 DEF Resolve
<1>9. \A s \in made : s \notin DOMAIN sequences /\ \A c : <<c, s>> \notin members
  BY <1>1, <1>4
<1>10. \A i \in DOMAIN Groups : lastId + i \in made /\ group(lastId + i) = Groups[i]
  BY <1>1, <1>2
<1>11. \A s \in made : sequences'[s] = [type |-> group(s).type, key |-> group(s).key]
  BY <1>3, <1>6, <1>9 DEF WithSequences
<1>12. linked \subseteq Clue \X made
  BY <1>8 DEF Links
<1> HIDE DEF made, group, linked, new
<1>13. /\ lastId' \in Nat /\ lastId <= lastId'
       /\ DOMAIN sequences' \subseteq 1..lastId'
  BY <1>1, <1>2, <1>3, <1>4, <1>5, <1>6
<1>14. members' \subseteq Clue \X DOMAIN sequences'
  BY <1>1, <1>3, <1>6, <1>12
<1>15. \A s \in DOMAIN sequences : /\ s \in DOMAIN sequences' /\ sequences'[s] = sequences[s]
                                   /\ \A c : <<c, s>> \in members' <=> <<c, s>> \in members
  BY <1>3, <1>6, <1>7, <1>9 DEF WithSequences
<1>16. \A i \in DOMAIN Groups :
         /\ lastId + i \in DOMAIN sequences'
         /\ sequences'[lastId + i] = [type |-> Groups[i].type, key |-> Groups[i].key]
         /\ \A c : <<c, lastId + i>> \in members' <=> c \in Resolve(Groups[i])
  BY <1>3, <1>6, <1>7, <1>9, <1>10, <1>11
<1> QED BY <1>3, <1>13, <1>14, <1>15, <1>16

(* The import.                                                             *)
LEMMA ImportKeeps ==
  ASSUME IInv, ImportReads \/ ImportWipes \/ ImportLinks \/ ImportDies
  PROVE  IInv'
<1>1. UNCHANGED <<users, request>>
  BY DEF ImportReads, ImportWipes, ImportLinks, ImportDies, accessVars
<1>2. AccountsStay' /\ ChangesSound'
  BY <1>1 DEF IInv, AccountsStay, ChangesSound
<1>3. Tables
  BY DEF IInv
<1>4. CASE ImportReads
  BY <1>2, <1>3, <1>4 DEF IInv, ImportReads, Tables, tableVars, Clues
<1>5. CASE ImportWipes
  <2>1. /\ DOMAIN sequences' = DOMAIN sequences \ Wiped
        /\ members' = {m \in members : m[2] \notin Wiped}
        /\ UNCHANGED <<numbers, lastId>> /\ importer'.byNumber = importer.byNumber
    BY <1>5 DEF ImportWipes, WithoutSequences
  <2> QED BY <1>2, <1>3, <2>1 DEF IInv, Tables, Clues
<1>6. CASE ImportLinks
  BY <1>2, <1>3, <1>6, LinksStored DEF IInv, Tables, Clues, Off
<1>7. CASE ImportDies
  BY <1>2, <1>3, <1>7 DEF IInv, ImportDies, Tables, tableVars, Clues, Off
<1> QED BY <1>2, <1>4, <1>5, <1>6, <1>7 DEF IInv

(* A start of the web app: the accounts that migration 002 names.          *)
LEMMA RestartKeeps ==
  ASSUME IInv, Restart
  PROVE  IInv'
<1>1. /\ users' = Regranted /\ request' = [r \in Request |-> Idle]
      /\ UNCHANGED <<tableVars, importer>>
  BY DEF Restart, Start
<1>2. users \in [User -> Account \cup {None}] /\ FirstEditor \in User
  BY AccessAssumption DEF IInv, AccountsStay
<1>3. users' \in [User -> Account \cup {None}]
  BY <1>1, <1>2 DEF Regranted, Account
<1>4. Tables'
  BY <1>1 DEF IInv, Tables, tableVars, Clues
<1> QED BY <1>1, <1>3, <1>4 DEF IInv, AccountsStay, ChangesSound, Idle, Editing

(* At the start the editors are the moderators and the first one, and no   *)
(* sequence but the given one exists.                                      *)
LEMMA InitKeeps == Init => IInv
<1> SUFFICES ASSUME Init PROVE IInv
  OBVIOUS
<1>1. Tables
  BY DEF Init, Tables, Off, Clues
<1>2. AccountsStay /\ ChangesSound
  <2>1. [admin |-> FALSE, editor |-> TRUE] \in Account /\ [admin |-> TRUE, editor |-> TRUE] \in Account
    BY DEF Account
  <2>2. users \in [User -> Account \cup {None}]
    BY <2>1 DEF Init, AccessInit
  <2>3. request = [r \in Request |-> Idle] /\ Idle.op = "idle"
    BY DEF Init, AccessInit, Idle
  <2> QED BY <2>2, <2>3 DEF AccountsStay, ChangesSound, Editing
<1> QED BY <1>1, <1>2 DEF IInv

(* Every action keeps the invariant.                                       *)
LEMMA NextKeeps == IInv /\ [Next]_vars => IInv'
<1> SUFFICES ASSUME IInv, [Next]_vars PROVE IInv'
  OBVIOUS
<1>1. CASE UNCHANGED vars
  BY <1>1 DEF IInv, Tables, AccountsStay, ChangesSound, Clues, vars, accessVars, tableVars
<1>2. CASE Next
  BY <1>2, AccountsKeep, RowsKeep, BeginKeeps, CommitKeeps, ImportKeeps, RestartKeeps DEF Next
<1> QED BY <1>1, <1>2

(* The tables, the accounts and the requests at work fit together.         *)
THEOREM MembershipSound == Spec => []IInv
BY InitKeeps, NextKeeps, PTL DEF Spec

(* api/sequences.py: what a change that is answered has left in the        *)
(* sequence, alone or next to other changes.                               *)
THEOREM EditsDoCompose == Spec => EditsCompose
<1>1. ASSUME IInv, NEW r \in Request, NEW s \in DOMAIN sequences, Commit(r), request[r].seq = s
      PROVE  LET now == {c \in Clue : <<c, s>> \in members'} IN
             /\ Undisturbed(request[r]) => now = Promised(request[r])
             /\ \A c \in Clue \ Concerned(request[r]) : c \in now <=> c \in MembersOf(s)
  <2> DEFINE now == {c \in Clue : <<c, s>> \in members'}
             x == request[r]
  <2>1. /\ x.removed \subseteq x.seen /\ x.added \subseteq Clue /\ x.seen \subseteq Clue
        /\ x.op \in Editing
    BY <1>1 DEF Commit, IInv, ChangesSound, Changes
  <2>2. members' = Stored(x) /\ x.seq = s
    BY <1>1 DEF Commit
  <2> HIDE DEF x
  <2>3. now = (MembersOf(s) \ x.removed) \cup x.added
    BY <2>1, <2>2 DEF Stored, Links, MembersOf
  <2>4. Undisturbed(x) => now = Promised(x)
    BY <2>1, <2>2, <2>3 DEF Undisturbed, Promised
  <2>5. \A c \in Clue \ Concerned(x) : c \in now <=> c \in MembersOf(s)
    BY <2>1, <2>3 DEF Concerned
  <2> QED BY <2>4, <2>5 DEF x
<1>2. IInv /\ [Next]_vars =>
        [\A r \in Request, s \in DOMAIN sequences :
           Commit(r) /\ request[r].seq = s =>
             LET now == {c \in Clue : <<c, s>> \in members'} IN
             /\ Undisturbed(request[r]) => now = Promised(request[r])
             /\ \A c \in Clue \ Concerned(request[r]) : c \in now <=> c \in MembersOf(s)]_vars
  BY <1>1
<1> QED BY <1>2, MembershipSound, PTL DEF Spec, EditsCompose

(* scripts/import_sequences.py: an import spares what is not its own, and  *)
(* one that completes leaves the groups of the spreadsheet.                *)
THEOREM ImportsTheSpreadsheet == Spec => ImportIsSpreadsheet
<1> DEFINE Spares ==
             importer' # importer => \A s \in DOMAIN sequences \ Legacy :
               /\ s \in DOMAIN sequences' /\ sequences'[s] = sequences[s]
               /\ {c \in Clue : <<c, s>> \in members'} = MembersOf(s)
           Leaves ==
             ImportLinks => \A i \in DOMAIN Groups :
               \E s \in DOMAIN sequences' :
                 /\ sequences'[s] = [type |-> Groups[i].type, key |-> Groups[i].key]
                 /\ \A c \in Clues : c \in DOMAIN importer.byNumber /\ importer.byNumber[c] = numbers[c]
                      => (<<c, s>> \in members' <=> numbers[c] \in Groups[i].numbers)
<1>1. ASSUME IInv, Next
      PROVE  Spares
  <2> SUFFICES ASSUME importer' # importer, NEW s \in DOMAIN sequences \ Legacy
               PROVE  /\ s \in DOMAIN sequences' /\ sequences'[s] = sequences[s]
                      /\ {c \in Clue : <<c, s>> \in members'} = MembersOf(s)
    OBVIOUS
  <2>1. ImportReads \/ ImportWipes \/ ImportLinks \/ ImportDies
    BY <1>1 DEF Next, RowStep, MembershipStep, SetClues, AddClue, RemoveClue, AutoAdd, Begins, Commit,
         Restart
  <2>2. CASE ImportReads \/ ImportDies
    BY <2>2 DEF ImportReads, ImportDies, tableVars, MembersOf
  <2>3. CASE ImportWipes
    BY <2>3 DEF ImportWipes, Wiped, WithoutSequences, MembersOf
  <2>4. CASE ImportLinks
    BY <1>1, <2>4, LinksStored DEF MembersOf
  <2> QED BY <2>1, <2>2, <2>3, <2>4
<1>2. ASSUME IInv
      PROVE  Leaves
  <2> SUFFICES ASSUME ImportLinks, NEW i \in DOMAIN Groups
               PROVE  \E s \in DOMAIN sequences' :
                 /\ sequences'[s] = [type |-> Groups[i].type, key |-> Groups[i].key]
                 /\ \A c \in Clues : c \in DOMAIN importer.byNumber /\ importer.byNumber[c] = numbers[c]
                      => (<<c, s>> \in members' <=> numbers[c] \in Groups[i].numbers)
    OBVIOUS
  <2>1. /\ lastId + i \in DOMAIN sequences'
        /\ sequences'[lastId + i] = [type |-> Groups[i].type, key |-> Groups[i].key]
        /\ \A c : <<c, lastId + i>> \in members' <=> c \in Resolve(Groups[i])
    BY <1>2, LinksStored
  <2>2. \A c \in Clues : c \in DOMAIN importer.byNumber /\ importer.byNumber[c] = numbers[c]
          => (c \in Resolve(Groups[i]) <=> numbers[c] \in Groups[i].numbers)
    BY DEF Resolve
  <2> QED BY <2>1, <2>2
<1>3. IInv /\ [Next]_vars => [Spares /\ Leaves]_vars
  BY <1>1, <1>2
<1> QED BY <1>3, MembershipSound, PTL DEF Spec, ImportIsSpreadsheet

(* app/main.py, api/auth.py, api/admin.py: nobody becomes an editor but by *)
(* an admin's grant, as a moderator, or at a start.                        *)
THEOREM RevocationsStand == Spec => RevocationStands
<1> DEFINE Granted(u) ==
             \/ u \in Moderator
             \/ \E r \in Request : request[r].op = "manage" /\ request[r].grant /\ SaveEditor(r)
             \/ Restart
<1>1. ASSUME IInv, Next, NEW u \in User, ~IsEditor(u), IsEditor(u)'
      PROVE  Granted(u)
  <2>1. users' # users
    BY <1>1 DEF IsEditor
  <2>2. Restart \/ \E r \in Request : SaveLogin(r) \/ SaveEditor(r)
    BY <1>1, <2>1 DEF Next, AccessBegins, AccessCommits, Login, Manage, Fail, RowStep, Create,
         DeleteSequence, Retype, DeleteClue, MoveClue, accessVars, MembershipStep, SetClues, AddClue,
         RemoveClue, AutoAdd, Begins, Commit, ImportReads, ImportWipes, ImportLinks, ImportDies
  <2>3. ASSUME NEW r \in Request, SaveLogin(r)
        PROVE  u \in Moderator
    <3>1. PICK v \in User : v = request[r].user /\ (request[r].loaded # None => users[v] \in Account)
      BY <1>1, <2>3 DEF SaveLogin, IInv, AccountsStay
    <3>2. users' = [users EXCEPT ![v] =
                      IF request[r].loaded = None
                      THEN [admin |-> v \in Moderator, editor |-> v \in Moderator]
                      ELSE SignedIn(users[v], request[r].loaded, v \in Moderator)]
      BY <2>3, <3>1 DEF SaveLogin
    <3>3. v = u
      BY <1>1, <3>2 DEF IsEditor
    <3>4. users \in [User -> Account \cup {None}] /\ None \notin Account
      BY <1>1, AccessAssumption DEF IInv, AccountsStay, Account
    <3> QED BY <1>1, <3>1, <3>2, <3>3, <3>4 DEF IsEditor, SignedIn, Account
  <2>4. ASSUME NEW r \in Request, SaveEditor(r)
        PROVE  request[r].op = "manage" /\ request[r].grant
    <3>1. PICK v \in User : v = request[r].user /\ users[v] # None /\ request[r].op = "manage"
                            /\ request[r].grant \in BOOLEAN
      BY <1>1, <2>4 DEF SaveEditor, IInv, AccountsStay
    <3>2. users' = [users EXCEPT ![v] = [users[v] EXCEPT !.editor = request[r].grant]]
      BY <2>1, <2>4, <3>1 DEF SaveEditor
    <3>3. users \in [User -> Account \cup {None}]
      BY <1>1 DEF IInv, AccountsStay
    <3>4. v = u
      BY <1>1, <3>2, <3>3 DEF IsEditor
    <3> QED BY <1>1, <3>1, <3>2, <3>3, <3>4 DEF IsEditor, Account
  <2> QED BY <2>2, <2>3, <2>4
<1>2. IInv /\ [Next]_vars => [\A u \in User : ~IsEditor(u) /\ IsEditor(u)' => Granted(u)]_vars
  BY <1>1
<1> QED BY <1>2, MembershipSound, PTL DEF Spec, RevocationStands

-----------------------------------------------------------------------------
(***************************************************************************)
(* Stats. The recursions of the profile page (a streak up to a number,     *)
(* the days up to today) are functions on numbers: the proofs take the     *)
(* least number at which one of them differs from the row it should        *)
(* count.                                                                  *)
(*                                                                         *)
(* The sweep is followed from one event day to the next: the count it      *)
(* carries is the number of sequences that have begun and not closed, and  *)
(* no count of a day exceeds both those that share the day and those that  *)
(* shared an earlier one.                                                  *)
(***************************************************************************)

(* Highest and lowest of the numbers up to a bound.                        *)
LEMMA MaxIs ==
  ASSUME NEW b \in Nat, NEW S \in SUBSET Nat, S # {}, \A x \in S : x <= b
  PROVE  Max(S) \in S /\ Max(S) \in Nat /\ \A y \in S : y <= Max(S)
<1> DEFINE T == {b - x : x \in S}
<1>0. \A x \in S : x \in Nat /\ b - x \in Nat
  OBVIOUS
<1>1. T \in SUBSET Nat /\ T # {}
  BY <1>0
<1>2. PICK t \in T : \A y \in T : t <= y
  BY <1>1, LowestExists
<1>3. PICK x \in S : t = b - x
  BY <1>2
<1>4. \A y \in S : x >= y
  <2> TAKE y \in S
  <2>1. t <= b - y
    BY <1>2
  <2>2. x \in Nat /\ y \in Nat
    BY <1>0
  <2> QED BY <1>3, <2>1, <2>2
<1>5. Max(S) \in S /\ \A y \in S : Max(S) >= y
  BY <1>4 DEF Max
<1>6. Max(S) \in Nat /\ \A y \in S : y \in Nat
  BY <1>0, <1>5
<1> QED BY <1>5, <1>6

(* A set of numbers that is not empty has its minimum.                     *)
LEMMA MinIs ==
  ASSUME NEW S \in SUBSET Nat, S # {}
  PROVE  Min(S) \in S /\ Min(S) \in Nat /\ \A y \in S : Min(S) <= y
<1>1. \E x \in S : \A y \in S : x <= y
  BY LowestExists
<1>2. Min(S) \in S /\ \A y \in S : Min(S) <= y
  BY <1>1 DEF Min
<1> QED BY <1>2

(* The highest is the only member that is as high as any.                  *)
LEMMA MaxOnly ==
  ASSUME NEW S \in SUBSET Int, NEW m \in S, \A y \in S : y <= m
  PROVE  Max(S) = m
<1>1. \A y \in S : y \in Int /\ m >= y
  OBVIOUS
<1>2. Max(S) \in S /\ \A y \in S : Max(S) >= y
  BY <1>1 DEF Max
<1>3. Max(S) \in Int /\ m \in Int /\ Max(S) <= m /\ Max(S) >= m
  BY <1>1, <1>2
<1> QED BY <1>3

(* A member that no other is below is the minimum.                         *)
LEMMA MinOnly ==
  ASSUME NEW S \in SUBSET Int, NEW m \in S, \A y \in S : m <= y
  PROVE  Min(S) = m
<1>1. Min(S) \in S /\ \A y \in S : Min(S) <= y
  BY DEF Min
<1>2. Min(S) \in Int /\ m \in Int /\ Min(S) <= m /\ m <= Min(S)
  BY <1>1
<1> QED BY <1>2

-----------------------------------------------------------------------------
(* Streaks *)

(* The number before x, if there is one.                                   *)
LEMMA PreviousIs ==
  ASSUME NEW S \in SUBSET Nat, NEW x \in S, Before(S, x) # {}
  PROVE  /\ Max(Before(S, x)) \in S /\ Max(Before(S, x)) < x
         /\ \A y \in S : y < x => y <= Max(Before(S, x))
<1>0. x \in Nat /\ \A y \in S : y \in Nat
  OBVIOUS
<1>1. Before(S, x) \in SUBSET Nat /\ x \in Nat /\ \A y \in Before(S, x) : y <= x
  <2>1. \A y \in Before(S, x) : y \in S /\ y < x
    BY DEF Before
  <2>2. \A y \in Before(S, x) : y \in Nat /\ y <= x
    <3> TAKE y \in Before(S, x)
    <3>1. y \in S /\ y < x
      BY <2>1
    <3>2. y \in Nat /\ x \in Nat
      BY <1>0, <3>1
    <3> QED BY <3>1, <3>2
  <2> QED BY <1>0, <2>2
<1>2. Max(Before(S, x)) \in Before(S, x) /\ \A y \in Before(S, x) : y <= Max(Before(S, x))
  BY <1>1, MaxIs
<1> QED BY <1>2 DEF Before

(* The loop over the sorted values does define a count for each of them.   *)
LEMMA RunsDefined ==
  ASSUME NEW b \in Nat, NEW S \in SUBSET Nat, \A x \in S : 1 <= x /\ x <= b, NEW gap \in {1, 2}
  PROVE  \A x \in S : RunsOf(S, gap)[x] =
           IF Before(S, x) # {} /\ x - Max(Before(S, x)) = gap
           THEN RunsOf(S, gap)[x - gap] + 1 ELSE 1
<1> DEFINE Linked(x)  == Before(S, x) # {} /\ x - Max(Before(S, x)) = gap
           Up(n)      == {y \in S : y <= n}
           Good(n)    == \E f : f = [y \in Up(n) |-> IF Linked(y) THEN f[y - gap] + 1 ELSE 1]
           Bad        == {n \in 0..b : ~Good(n)}
<1>0. \A y \in S : y \in Nat /\ 1 <= y /\ y <= b
  OBVIOUS
<1>1. ASSUME NEW y \in S, Linked(y)
      PROVE  y - gap \in S /\ y - gap < y
  <2>1. Max(Before(S, y)) \in S /\ Max(Before(S, y)) < y
    BY <1>1, PreviousIs
  <2>2. Max(Before(S, y)) \in Nat /\ y \in Nat /\ y - Max(Before(S, y)) = gap
    BY <1>0, <1>1, <2>1
  <2>3. Max(Before(S, y)) = y - gap
    BY <2>2
  <2> QED BY <2>1, <2>3
<1> HIDE DEF Linked
<1>2. Good(0)
  <2>0. \A y \in S : ~(y <= 0)
    BY <1>0
  <2>1. Up(0) = {}
    BY <2>0
  <2>2. [y \in Up(0) |-> 0] = [y \in Up(0) |-> IF Linked(y) THEN [z \in Up(0) |-> 0][y - gap] + 1 ELSE 1]
    BY <2>1
  <2> QED BY <2>2
<1>3. ASSUME NEW n \in 1..b, Good(n - 1)
      PROVE  Good(n)
  <2>1. PICK f : f = [y \in Up(n - 1) |-> IF Linked(y) THEN f[y - gap] + 1 ELSE 1]
    BY <1>3
  <2>2. CASE n \notin S
    <3>1. Up(n) = Up(n - 1)
      <4>1. \A y \in S : y <= n <=> y <= n - 1
        BY <1>0, <2>2
      <4> QED BY <4>1
    <3> HIDE DEF Up
    <3> QED BY <2>1, <3>1
  <2>3. CASE n \in S
    <3> DEFINE top == IF Linked(n) THEN f[n - gap] + 1 ELSE 1
               g   == [y \in Up(n) |-> IF y = n THEN top ELSE f[y]]
    <3>1. \A y \in Up(n) : y = n \/ y \in Up(n - 1)
      BY <1>0
    <3>2. \A y \in Up(n) : Linked(y) => y - gap \in Up(n - 1) /\ y - gap \in Up(n) /\ y - gap # n
      BY <1>0, <1>1
    <3> HIDE DEF Up, top
    <3>3. \A y \in Up(n) : g[y] = IF Linked(y) THEN g[y - gap] + 1 ELSE 1
      <4> TAKE y \in Up(n)
      <4>1. Linked(y) => g[y - gap] = f[y - gap]
        BY <3>2
      <4>2. CASE y = n
        BY <4>1, <4>2 DEF top
      <4>3. CASE y # n
        BY <2>1, <3>1, <4>1, <4>3
      <4> QED BY <4>2, <4>3
    <3>4. g = [y \in Up(n) |-> IF Linked(y) THEN g[y - gap] + 1 ELSE 1]
      BY <3>3
    <3> QED BY <3>4
  <2> QED BY <2>2, <2>3
<1>4. Bad = {}
  <2> SUFFICES ASSUME Bad # {} PROVE FALSE
    OBVIOUS
  <2>1. PICK n \in Bad : \A k \in Bad : n <= k
    <3>1. Bad \in SUBSET Nat
      OBVIOUS
    <3> HIDE DEF Bad
    <3> QED BY <3>1, LowestExists
  <2>2. n \in 0..b /\ ~Good(n)
    BY <2>1
  <2> HIDE DEF Good
  <2>3. n # 0 /\ n \in 1..b /\ n - 1 \in 0..b /\ ~(n <= n - 1)
    BY <1>2, <2>2
  <2>4. Good(n - 1)
    BY <2>1, <2>3
  <2> QED BY <1>3, <2>2, <2>3, <2>4
<1>5. Good(b)
  <2>1. b \in 0..b
    OBVIOUS
  <2> QED BY <1>4, <2>1
<1>6. Up(b) = S
  BY <1>0
<1>7. PICK f : f = [y \in S |-> IF Linked(y) THEN f[y - gap] + 1 ELSE 1]
  BY <1>5, <1>6
<1>8. RunsOf(S, gap) = [y \in S |-> IF Linked(y) THEN RunsOf(S, gap)[y - gap] + 1 ELSE 1]
  BY <1>7 DEF RunsOf, Linked
<1> QED BY <1>8 DEF Linked

(* A row of k values ending at x, counted from its end.                    *)
EndsAt(S, x, k, gap) == IsRun(S, x - gap * (k - 1), k, gap)

(* The condition of the loop: the value before x is x - gap.               *)
Continues(S, x, gap) == Before(S, x) # {} /\ x - Max(Before(S, x)) = gap

(* It means that x - gap is a value and nothing lies between the two.      *)
LEMMA ContinuesIs ==
  ASSUME NEW S \in SUBSET Nat, NEW x \in S, NEW gap \in {1, 2}
  PROVE  Continues(S, x, gap) <=> x - gap \in S /\ (gap = 2 => x - 1 \notin S)
<1>0. x \in Nat /\ \A y \in S : y \in Nat
  OBVIOUS
<1>1. ASSUME Continues(S, x, gap)
      PROVE  x - gap \in S /\ (gap = 2 => x - 1 \notin S)
  <2>1. Before(S, x) # {} /\ x - Max(Before(S, x)) = gap
    BY <1>1 DEF Continues
  <2>2. Max(Before(S, x)) \in S /\ \A y \in S : y < x => y <= Max(Before(S, x))
    BY <2>1, PreviousIs
  <2>3. Max(Before(S, x)) = x - gap
    <3>1. Max(Before(S, x)) \in Nat
      BY <1>0, <2>2
    <3> QED BY <1>0, <2>1, <3>1
  <2>4. gap = 2 => ~(x - 1 <= x - gap) /\ x - 1 < x
    BY <1>0
  <2> QED BY <2>2, <2>3, <2>4
<1>2. ASSUME x - gap \in S, gap = 2 => x - 1 \notin S
      PROVE  Continues(S, x, gap)
  <2>1. x - gap \in Before(S, x)
    BY <1>0, <1>2 DEF Before
  <2>2. /\ Max(Before(S, x)) \in S /\ Max(Before(S, x)) < x
        /\ x - gap <= Max(Before(S, x))
    BY <1>0, <1>2, <2>1, PreviousIs DEF Before
  <2>3. Max(Before(S, x)) = x - gap
    <3>1. Max(Before(S, x)) \in Nat
      BY <1>0, <2>2
    <3>2. gap = 2 => Max(Before(S, x)) # x - 1
      BY <1>2, <2>2
    <3> QED BY <1>0, <2>2, <3>1, <3>2
  <2> QED BY <1>0, <2>1, <2>3 DEF Continues
<1> QED BY <1>1, <1>2

(* A row of one is any value; a longer row is a value that continues, on   *)
(* top of a row that ends at the value before.                             *)
LEMMA RowOfOne ==
  ASSUME NEW S \in SUBSET Nat, NEW x \in S, NEW gap \in {1, 2}
  PROVE  EndsAt(S, x, 1, gap)
<1>0. x \in Nat /\ x - gap * (1 - 1) = x /\ x + gap * (1 - 1) = x
  OBVIOUS
<1>1. x .. x = {x} /\ {x + gap * i : i \in 0 .. 1 - 1} = {x}
  <2>1. 0 .. 1 - 1 = {0} /\ x + gap * 0 = x /\ x .. x = {x}
    BY <1>0
  <2> QED BY <2>1
<1>2. S \cap (x .. x) = {x}
  BY <1>1
<1> QED BY <1>0, <1>1, <1>2 DEF EndsAt, IsRun

(* What IsRun says of each value.                                          *)
RowFrom(S, a, k, gap) ==
  /\ \A i \in 0 .. k - 1 : a + gap * i \in S
  /\ gap = 2 => \A i \in 0 .. k - 2 : a + 2 * i + 1 \notin S

(* IsRun says with sets what RowFrom says number by number.                *)
LEMMA RunIs ==
  ASSUME NEW S, NEW a \in Int, NEW k \in Nat \ {0}, NEW gap \in {1, 2}
  PROVE  IsRun(S, a, k, gap) <=> RowFrom(S, a, k, gap)
<1> DEFINE last == a + gap * (k - 1)
           Row  == {a + gap * i : i \in 0 .. k - 1}
<1>1. \A i \in 0 .. k - 1 : a + gap * i \in a .. last
  <2>1. CASE gap = 1
    BY <2>1
  <2>2. CASE gap = 2
    BY <2>2
  <2> QED BY <2>1, <2>2
<1>2. ASSUME IsRun(S, a, k, gap)
      PROVE  /\ \A i \in 0 .. k - 1 : a + gap * i \in S
             /\ gap = 2 => \A i \in 0 .. k - 2 : a + 2 * i + 1 \notin S
  <2>1. S \cap (a .. last) = Row
    BY <1>2 DEF IsRun
  <2>2. \A i \in 0 .. k - 1 : a + gap * i \in S
    <3> TAKE i \in 0 .. k - 1
    <3>1. a + gap * i \in Row
      OBVIOUS
    <3> QED BY <2>1, <3>1
  <2>3. ASSUME gap = 2, NEW i \in 0 .. k - 2, a + 2 * i + 1 \in S
        PROVE  FALSE
    <3>1. a + 2 * i + 1 \in a .. last
      BY <2>3
    <3>2. a + 2 * i + 1 \in Row
      BY <2>1, <2>3, <3>1
    <3>3. PICK j \in 0 .. k - 1 : a + 2 * i + 1 = a + 2 * j
      BY <2>3, <3>2
    <3> QED BY <3>3
  <2> QED BY <2>2, <2>3
<1>3. ASSUME \A i \in 0 .. k - 1 : a + gap * i \in S,
             gap = 2 => \A i \in 0 .. k - 2 : a + 2 * i + 1 \notin S
      PROVE  IsRun(S, a, k, gap)
  <2>1. ASSUME NEW y \in S, y \in a .. last
        PROVE  y \in Row
    <3>1. CASE gap = 1
      <4>1. y - a \in 0 .. k - 1 /\ y = a + gap * (y - a)
        BY <2>1, <3>1
      <4> QED BY <4>1
    <3>2. CASE gap = 2
      <4>1. PICK i \in Int : y - a = 2 * i \/ y - a = 2 * i + 1
        <5>1. y - a \in Nat
          BY <2>1
        <5>2. y - a = 2 * ((y - a) \div 2) \/ y - a = 2 * ((y - a) \div 2) + 1
          BY <5>1
        <5> QED BY <5>1, <5>2
      <4>2. CASE y - a = 2 * i
        <5>1. i \in 0 .. k - 1 /\ y = a + gap * i
          BY <2>1, <3>2, <4>2
        <5> QED BY <5>1
      <4>3. CASE y - a = 2 * i + 1
        <5>1. i \in 0 .. k - 2 /\ y = a + 2 * i + 1
          BY <2>1, <3>2, <4>3
        <5> QED BY <1>3, <2>1, <3>2, <5>1
      <4> QED BY <4>1, <4>2, <4>3
    <3> QED BY <3>1, <3>2
  <2>2. Row \subseteq S \cap (a .. last)
    BY <1>1, <1>3
  <2>3. S \cap (a .. last) = Row
    BY <2>1, <2>2
  <2> QED BY <2>3 DEF IsRun
<1> QED BY <1>2, <1>3 DEF RowFrom

(* A row of k + 1 that ends at x is one of k before it, and a              *)
(* continuation. The recursion of _streak_from_numbers is this step.       *)
LEMMA RowGrows ==
  ASSUME NEW S \in SUBSET Nat, NEW x \in S, NEW gap \in {1, 2}, NEW k \in Nat \ {0}
  PROVE  EndsAt(S, x, k + 1, gap) <=> Continues(S, x, gap) /\ EndsAt(S, x - gap, k, gap)
<1> DEFINE a == x - gap * k
<1>0. /\ x \in Nat /\ a \in Int /\ k + 1 \in Nat \ {0} /\ (k + 1) - 1 = k /\ (k + 1) - 2 = k - 1
      /\ x - gap * ((k + 1) - 1) = a /\ (x - gap) - gap * (k - 1) = a
  BY DEF a
<1>1. EndsAt(S, x, k + 1, gap) <=>
        /\ \A i \in 0 .. k : a + gap * i \in S
        /\ gap = 2 => \A i \in 0 .. k - 1 : a + 2 * i + 1 \notin S
  <2>1. IsRun(S, a, k + 1, gap) <=>
          /\ \A i \in 0 .. (k + 1) - 1 : a + gap * i \in S
          /\ gap = 2 => \A i \in 0 .. (k + 1) - 2 : a + 2 * i + 1 \notin S
    <3> HIDE DEF a
    <3>1. IsRun(S, a, k + 1, gap) <=> RowFrom(S, a, k + 1, gap)
      BY <1>0, RunIs
    <3> QED BY <3>1 DEF RowFrom
  <2> QED BY <1>0, <2>1 DEF EndsAt
<1>2. EndsAt(S, x - gap, k, gap) <=>
        /\ \A i \in 0 .. k - 1 : a + gap * i \in S
        /\ gap = 2 => \A i \in 0 .. k - 2 : a + 2 * i + 1 \notin S
  <2>1. IsRun(S, a, k, gap) <=>
          /\ \A i \in 0 .. k - 1 : a + gap * i \in S
          /\ gap = 2 => \A i \in 0 .. k - 2 : a + 2 * i + 1 \notin S
    <3> HIDE DEF a
    <3>1. IsRun(S, a, k, gap) <=> RowFrom(S, a, k, gap)
      BY <1>0, RunIs
    <3> QED BY <3>1 DEF RowFrom
  <2> QED BY <1>0, <2>1 DEF EndsAt
<1>3. Continues(S, x, gap) <=> x - gap \in S /\ (gap = 2 => x - 1 \notin S)
  BY ContinuesIs
<1>4. \A i \in 0 .. k : i \in 0 .. k - 1 \/ i = k
  OBVIOUS
<1>5. a + gap * k = x /\ a + gap * (k - 1) = x - gap /\ k - 1 \in 0 .. k - 1
  BY <1>0 DEF a
<1>6. \A i \in 0 .. k - 1 : i \in 0 .. k - 2 \/ i = k - 1
  OBVIOUS
<1>7. gap = 2 => a + 2 * (k - 1) + 1 = x - 1
  BY <1>0 DEF a
<1> HIDE DEF a
<1>8. ASSUME EndsAt(S, x, k + 1, gap)
      PROVE  Continues(S, x, gap) /\ EndsAt(S, x - gap, k, gap)
  <2>1. /\ \A i \in 0 .. k : a + gap * i \in S
        /\ gap = 2 => \A i \in 0 .. k - 1 : a + 2 * i + 1 \notin S
    BY <1>1, <1>8
  <2>2. /\ \A i \in 0 .. k - 1 : i \in 0 .. k
        /\ \A i \in 0 .. k - 2 : i \in 0 .. k - 1
    OBVIOUS
  <2>3. x - gap \in S /\ (gap = 2 => x - 1 \notin S)
    <3>1. a + gap * (k - 1) \in S /\ (gap = 2 => a + 2 * (k - 1) + 1 \notin S)
      BY <1>5, <2>1, <2>2
    <3> QED BY <1>5, <1>7, <3>1
  <2>4. EndsAt(S, x - gap, k, gap)
    BY <1>2, <2>1, <2>2
  <2> QED BY <1>3, <2>3, <2>4
<1>9. ASSUME Continues(S, x, gap), EndsAt(S, x - gap, k, gap)
      PROVE  EndsAt(S, x, k + 1, gap)
  <2>1. /\ \A i \in 0 .. k - 1 : a + gap * i \in S
        /\ gap = 2 => \A i \in 0 .. k - 2 : a + 2 * i + 1 \notin S
    BY <1>2, <1>9
  <2>2. x - gap \in S /\ (gap = 2 => x - 1 \notin S)
    BY <1>3, <1>9
  <2>3. \A i \in 0 .. k : a + gap * i \in S
    BY <1>4, <1>5, <2>1
  <2>4. gap = 2 => \A i \in 0 .. k - 1 : a + 2 * i + 1 \notin S
    BY <1>6, <1>7, <2>1, <2>2
  <2> QED BY <1>1, <2>3, <2>4
<1> QED BY <1>8, <1>9

(* A row lies among the values, and has no more than there are.            *)
LEMMA RowFits ==
  ASSUME NEW b \in Nat, NEW S \in SUBSET (1 .. b), NEW gap \in {1, 2},
         NEW x \in Int, NEW k \in Nat \ {0}, EndsAt(S, x, k, gap)
  PROVE  x \in S /\ x - gap * (k - 1) \in S /\ k <= Cardinality(S) /\ Cardinality(S) \in Nat
<1> DEFINE a == x - gap * (k - 1)
           f == [i \in 0 .. k - 1 |-> a + gap * i]
<1>0. a \in Int /\ a + gap * 0 = a /\ a + gap * (k - 1) = x /\ 0 \in 0 .. k - 1 /\ k - 1 \in 0 .. k - 1
  BY DEF a
<1>1. \A i \in 0 .. k - 1 : a + gap * i \in S
  <2>1. IsRun(S, a, k, gap)
    BY DEF EndsAt
  <2> HIDE DEF a
  <2>2. RowFrom(S, a, k, gap)
    BY <1>0, <2>1, RunIs
  <2> QED BY <2>2 DEF RowFrom
<1>2. x \in S /\ a \in S
  BY <1>0, <1>1
<1>3. IsFiniteSet(S) /\ Cardinality(S) \in Nat
  <2>1. IsFiniteSet(1 .. b)
    BY FS_Interval
  <2>2. IsFiniteSet(S)
    BY <2>1, FS_Subset
  <2> QED BY <2>2, FS_CardinalityType
<1>4. f \in Injection(0 .. k - 1, S)
  <2>1. f \in [0 .. k - 1 -> S]
    BY <1>1
  <2>2. \A i, j \in 0 .. k - 1 : a + gap * i = a + gap * j => i = j
    BY <1>0
  <2> HIDE DEF a
  <2> QED BY <2>1, <2>2 DEF Injection, IsInjective
<1>5. Cardinality(0 .. k - 1) = k
  BY FS_Interval
<1>6. Cardinality(0 .. k - 1) <= Cardinality(S)
  BY <1>3, <1>4, FS_Injection
<1> QED BY <1>2, <1>3, <1>5, <1>6

(* The count of the loop is the length of the longest row ending there.    *)
LEMMA RunsAreRows ==
  ASSUME NEW b \in Nat, NEW S \in SUBSET (1 .. b), NEW gap \in {1, 2}, NEW x \in S
  PROVE  /\ RunsOf(S, gap)[x] \in Nat \ {0}
         /\ \A k \in Nat \ {0} : EndsAt(S, x, k, gap) => k <= RunsOf(S, gap)[x]
         /\ EndsAt(S, x, RunsOf(S, gap)[x], gap)
<1> DEFINE R(y)    == RunsOf(S, gap)[y]
           Good(y) == /\ R(y) \in Nat \ {0}
                      /\ \A k \in Nat \ {0} : EndsAt(S, y, k, gap) => k <= R(y)
                      /\ EndsAt(S, y, R(y), gap)
           Bad     == {y \in S : ~Good(y)}
<1>0. S \in SUBSET Nat /\ \A y \in S : y \in Nat /\ 1 <= y /\ y <= b
  OBVIOUS
<1>1. \A y \in S : R(y) = IF Continues(S, y, gap) THEN R(y - gap) + 1 ELSE 1
  BY <1>0, RunsDefined DEF Continues
<1> HIDE DEF R
<1>2. ASSUME NEW y \in S, \A z \in S : z < y => Good(z)
      PROVE  Good(y)
  <2>1. \A k \in Nat \ {0} : k = 1 \/ (k - 1 \in Nat \ {0} /\ (k - 1) + 1 = k)
    OBVIOUS
  <2>2. CASE ~Continues(S, y, gap)
    <3>1. R(y) = 1
      BY <1>1, <2>2
    <3>2. EndsAt(S, y, 1, gap)
      BY <1>0, RowOfOne
    <3>3. \A k \in Nat \ {0} : EndsAt(S, y, k, gap) => k <= 1
      <4> TAKE k \in Nat \ {0}
      <4>1. k # 1 => ~EndsAt(S, y, (k - 1) + 1, gap)
        BY <1>0, <2>1, <2>2, RowGrows
      <4> QED BY <2>1, <4>1
    <3> QED BY <3>1, <3>2, <3>3
  <2>3. CASE Continues(S, y, gap)
    <3>1. y - gap \in S /\ y - gap < y
      BY <1>0, <2>3, ContinuesIs
    <3>2. Good(y - gap) /\ R(y) = R(y - gap) + 1
      BY <1>1, <1>2, <2>3, <3>1
    <3>3. R(y - gap) \in Nat \ {0} /\ R(y) \in Nat \ {0}
      BY <3>2
    <3>4. EndsAt(S, y, R(y - gap) + 1, gap)
      BY <1>0, <2>3, <3>2, <3>3, RowGrows
    <3>5. \A k \in Nat \ {0} : EndsAt(S, y, k, gap) => k <= R(y)
      <4> TAKE k \in Nat \ {0}
      <4>1. k # 1 /\ EndsAt(S, y, (k - 1) + 1, gap) => EndsAt(S, y - gap, k - 1, gap)
        BY <1>0, <2>1, <2>3, RowGrows
      <4>2. k # 1 /\ EndsAt(S, y, k, gap) => k - 1 <= R(y - gap)
        BY <2>1, <3>2, <4>1
      <4> QED BY <2>1, <3>2, <3>3, <4>2
    <3> QED BY <3>2, <3>3, <3>4, <3>5
  <2> QED BY <2>2, <2>3
<1> HIDE DEF Good
<1>3. Bad = {}
  <2> SUFFICES ASSUME Bad # {} PROVE FALSE
    OBVIOUS
  <2>1. PICK y \in Bad : \A z \in Bad : y <= z
    <3>1. Bad \in SUBSET Nat
      BY <1>0
    <3> HIDE DEF Bad
    <3> QED BY <3>1, LowestExists
  <2>2. y \in S /\ ~Good(y)
    BY <2>1
  <2>3. \A z \in S : z < y => Good(z)
    BY <1>0, <2>1, <2>2
  <2> QED BY <1>2, <2>2, <2>3
<1>4. Good(x)
  BY <1>3
<1> QED BY <1>4 DEF Good, R

(* The longest of the counts is the longest row.                           *)
LEMMA LongestIs ==
  ASSUME NEW b \in Nat, NEW S \in SUBSET (1 .. b), NEW gap \in {1, 2}
  PROVE  Longest(S, gap) = LongestRun(S, gap)
<1> DEFINE R(y)   == RunsOf(S, gap)[y]
           Counts == {R(x) : x \in S}
           Rows   == {k \in 1 .. Cardinality(S) : \E x \in S : IsRun(S, x, k, gap)}
<1>0. S \in SUBSET Nat /\ \A y \in S : y \in Nat /\ 1 <= y /\ y <= b
  OBVIOUS
<1>1. \A y \in S : /\ R(y) \in Nat \ {0}
                   /\ \A k \in Nat \ {0} : EndsAt(S, y, k, gap) => k <= R(y)
                   /\ EndsAt(S, y, R(y), gap)
  BY RunsAreRows
<1> HIDE DEF R
<1>2. \A y \in S, k \in Nat \ {0} : EndsAt(S, y, k, gap) =>
        y - gap * (k - 1) \in S /\ k <= Cardinality(S) /\ Cardinality(S) \in Nat
  <2> TAKE y \in S, k \in Nat \ {0}
  <2>1. y \in Int
    BY <1>0
  <2> QED BY <2>1, RowFits
<1>3. \A y \in S : R(y) \in Rows
  <2> TAKE y \in S
  <2> DEFINE k == R(y)
  <2>1. k \in Nat \ {0} /\ EndsAt(S, y, k, gap)
    BY <1>1
  <2> HIDE DEF k
  <2>2. y - gap * (k - 1) \in S /\ k <= Cardinality(S) /\ Cardinality(S) \in Nat
    BY <1>2, <2>1
  <2>3. IsRun(S, y - gap * (k - 1), k, gap) /\ k \in 1 .. Cardinality(S)
    BY <2>1, <2>2 DEF EndsAt
  <2> QED BY <2>2, <2>3 DEF k
<1>4. \A k \in Rows : k \in Nat \ {0} /\ \E y \in S : k <= R(y)
  <2> TAKE k \in Rows
  <2>1. PICK x \in S : IsRun(S, x, k, gap)
    OBVIOUS
  <2>2. k \in Nat \ {0}
    OBVIOUS
  <2> DEFINE y == x + gap * (k - 1)
  <2>3. y \in Int /\ y - gap * (k - 1) = x
    BY <1>0, <2>2
  <2> HIDE DEF y
  <2>4. EndsAt(S, y, k, gap)
    BY <2>1, <2>3 DEF EndsAt
  <2>5. y \in S
    BY <2>2, <2>3, <2>4, RowFits
  <2> QED BY <1>1, <2>2, <2>4, <2>5
<1>5. CASE S = {}
  <2>1. Longest(S, gap) = 0
    BY <1>5 DEF Longest
  <2>2. {0} \cup Rows = {0}
    BY <1>5
  <2>3. Max({0}) = 0
    BY MaxOnly
  <2> QED BY <2>1, <2>2, <2>3 DEF LongestRun
<1>6. CASE S # {}
  <2>0. Rows \in SUBSET Nat /\ Counts \in SUBSET Nat /\ Counts # {}
    BY <1>1, <1>4, <1>6
  <2>1. Counts \subseteq Rows
    BY <1>3
  <2>2. \A k \in Rows : \E m \in Counts : k <= m
    BY <1>4
  <2>3. Cardinality(S) \in Nat /\ \A k \in Counts : k <= Cardinality(S)
    BY <1>1, <1>2, <1>6
  <2>4. Longest(S, gap) = Max(Counts) /\ LongestRun(S, gap) = Max({0} \cup Rows)
    BY <1>6 DEF Longest, LongestRun, R
  <2> HIDE DEF Rows, Counts
  <2>5. Max(Counts) \in Counts /\ Max(Counts) \in Nat /\ \A k \in Counts : k <= Max(Counts)
    BY <2>0, <2>3, MaxIs
  <2> DEFINE m == Max(Counts)
  <2>6. \A k \in Rows : k <= m
    BY <2>0, <2>2, <2>5
  <2>7. m \in {0} \cup Rows /\ {0} \cup Rows \in SUBSET Int /\ \A k \in {0} \cup Rows : k <= m
    BY <2>0, <2>1, <2>5, <2>6
  <2> HIDE DEF m
  <2>8. Max({0} \cup Rows) = m
    BY <2>7, MaxOnly
  <2> QED BY <2>4, <2>8 DEF m
<1> QED BY <1>5, <1>6

(* The current streak is the longest row that ends at the highest value.   *)
LEMMA CurrentIs ==
  ASSUME NEW b \in Nat, NEW S \in SUBSET (1 .. b)
  PROVE  CurrentStreak(S) =
           Max({0} \cup {k \in 1 .. Cardinality(S) : IsRun(S, Max(S) - 2 * (k - 1), k, 2)})
<1> DEFINE x    == Max(S)
           Rows == {k \in 1 .. Cardinality(S) : EndsAt(S, x, k, 2)}
<1>0. S \in SUBSET Nat /\ (\A y \in S : y \in Nat /\ y <= b) /\ 2 \in {1, 2}
  OBVIOUS
<1>1. Rows = {k \in 1 .. Cardinality(S) : IsRun(S, Max(S) - 2 * (k - 1), k, 2)}
  BY DEF EndsAt
<1>2. CASE S = {}
  <2>1. IsFiniteSet({}) /\ Cardinality({}) = 0
    BY FS_EmptySet
  <2>2. {0} \cup Rows = {0}
    BY <1>2, <2>1
  <2>3. Max({0}) = 0
    BY MaxOnly
  <2> QED BY <1>1, <1>2, <2>2, <2>3 DEF CurrentStreak
<1>3. CASE S # {}
  <2>1. x \in S /\ x \in Int
    BY <1>0, <1>3, MaxIs
  <2> HIDE DEF x
  <2> DEFINE R == RunsOf(S, 2)[x]
  <2>2. /\ R \in Nat \ {0}
        /\ \A k \in Nat \ {0} : EndsAt(S, x, k, 2) => k <= R
        /\ EndsAt(S, x, R, 2)
    BY <1>0, <2>1, RunsAreRows
  <2>3. CurrentStreak(S) = R
    BY <1>3 DEF CurrentStreak, x
  <2> HIDE DEF R
  <2>4. R <= Cardinality(S) /\ Cardinality(S) \in Nat
    BY <1>0, <2>1, <2>2, RowFits
  <2>5. R \in Rows /\ \A k \in Rows : k \in Nat /\ k <= R
    BY <2>2, <2>4
  <2> HIDE DEF Rows
  <2>6. R \in {0} \cup Rows /\ {0} \cup Rows \in SUBSET Int /\ \A k \in {0} \cup Rows : k <= R
    BY <2>2, <2>5
  <2>7. Max({0} \cup Rows) = R
    BY <2>6, MaxOnly
  <2> QED BY <1>1, <2>3, <2>7
<1> QED BY <1>2, <1>3

(* Counting back from a day stops at the first day that is not a date: the *)
(* loop ends because no date is below 1.                                   *)
LEMMA CountsBack ==
  ASSUME NEW b \in Nat, NEW dates \in SUBSET (1 .. b), NEW now \in Nat
  PROVE  \E j \in Nat : /\ CurrentDays(dates, now) = j
                        /\ now - j \notin dates
                        /\ \A i \in 0 .. j - 1 : now - i \in dates
<1> DEFINE Stops(k) == {m \in Nat : k <= m /\ now - m \notin dates}
           Stop(k)  == CHOOSE m \in Stops(k) : \A n \in Stops(k) : m <= n
           f        == [k \in Nat |-> Stop(k)]
<1>0. \A k \in Nat : now - (now + k) \notin dates
  OBVIOUS
<1>1. ASSUME NEW k \in Nat
      PROVE  Stop(k) \in Stops(k) /\ \A n \in Stops(k) : Stop(k) <= n
  <2>1. Stops(k) \in SUBSET Nat /\ now + k \in Stops(k)
    BY <1>0
  <2> HIDE DEF Stops
  <2>2. \E m \in Stops(k) : \A n \in Stops(k) : m <= n
    BY <2>1, LowestExists
  <2> QED BY <2>2
<1> HIDE DEF Stop
<1>2. ASSUME NEW k \in Nat
      PROVE  Stop(k) = IF now - k \in dates THEN Stop(k + 1) ELSE k
  <2>1. Stop(k) \in Nat /\ k <= Stop(k) /\ now - Stop(k) \notin dates
    BY <1>1
  <2>2. k + 1 \in Nat /\ Stop(k + 1) \in Nat /\ k + 1 <= Stop(k + 1) /\ now - Stop(k + 1) \notin dates
    BY <1>1
  <2>3. CASE now - k \in dates
    <3>1. Stop(k) # k /\ k + 1 <= Stop(k)
      BY <2>1, <2>3
    <3>2. Stop(k) \in Stops(k + 1) /\ Stop(k + 1) \in Stops(k)
      BY <2>1, <2>2, <3>1
    <3>3. Stop(k) <= Stop(k + 1) /\ Stop(k + 1) <= Stop(k)
      BY <1>1, <2>2, <3>2
    <3> QED BY <2>1, <2>2, <2>3, <3>3
  <2>4. CASE now - k \notin dates
    <3>1. k \in Stops(k)
      BY <2>4
    <3>2. Stop(k) <= k
      BY <1>1, <3>1
    <3> QED BY <2>1, <2>4, <3>2
  <2> QED BY <2>3, <2>4
<1>3. f = [k \in Nat |-> IF now - k \in dates THEN f[k + 1] ELSE k]
  <2>1. \A k \in Nat : k + 1 \in Nat
    OBVIOUS
  <2> QED BY <1>2, <2>1
<1>4. \E g : /\ g = [k \in Nat |-> IF now - k \in dates THEN g[k + 1] ELSE k]
             /\ CurrentDays(dates, now) = g[0]
  <2> HIDE DEF f
  <2> QED BY <1>3 DEF CurrentDays
<1>5. PICK g : /\ g = [k \in Nat |-> IF now - k \in dates THEN g[k + 1] ELSE k]
               /\ CurrentDays(dates, now) = g[0]
  BY <1>4
<1> DEFINE j == Stop(0)
<1>6. j \in Nat /\ now - j \notin dates /\ \A i \in 0 .. j - 1 : now - i \in dates
  <2>1. j \in Stops(0) /\ \A n \in Stops(0) : j <= n
    BY <1>1
  <2>2. \A i \in 0 .. j - 1 : i \in Nat /\ ~(j <= i)
    BY <2>1
  <2> QED BY <2>1, <2>2
<1> HIDE DEF j
<1>7. \A k \in Nat : g[k] = IF now - k \in dates THEN g[k + 1] ELSE k
  BY <1>5
<1>8. \A k \in 0 .. j : g[0] = g[k]
  <2> DEFINE Bad == {k \in 0 .. j : g[0] # g[k]}
  <2> SUFFICES ASSUME Bad # {} PROVE FALSE
    OBVIOUS
  <2>1. PICK k \in Bad : \A n \in Bad : k <= n
    <3>1. Bad \in SUBSET Nat
      OBVIOUS
    <3> HIDE DEF Bad
    <3> QED BY <3>1, LowestExists
  <2>2. k \in Nat /\ k <= j /\ g[0] # g[k] /\ k # 0
    BY <1>6, <2>1
  <2>3. k - 1 \in 0 .. j - 1 /\ k - 1 \in Nat /\ k - 1 \in 0 .. j /\ (k - 1) + 1 = k /\ ~(k <= k - 1)
    BY <1>6, <2>2
  <2>4. g[k - 1] = g[k]
    BY <1>6, <1>7, <2>3
  <2>5. g[0] = g[k - 1]
    BY <2>1, <2>3
  <2> QED BY <2>2, <2>4, <2>5
<1>9. g[0] = j
  <2>1. j \in 0 .. j
    BY <1>6
  <2>2. g[j] = j
    BY <1>6, <1>7
  <2> QED BY <1>8, <2>1, <2>2
<1> QED BY <1>5, <1>6, <1>9

(* So it counts the row of dates that ends on that day.                    *)
LEMMA CurrentDaysIs ==
  ASSUME NEW b \in Nat, NEW dates \in SUBSET (1 .. b), NEW now \in Nat
  PROVE  CurrentDays(dates, now) =
           Max({0} \cup {k \in 1 .. Cardinality(dates) : (now - k + 1) .. now \subseteq dates})
<1> DEFINE Rows == {k \in 1 .. Cardinality(dates) : (now - k + 1) .. now \subseteq dates}
<1>1. PICK j \in Nat : /\ CurrentDays(dates, now) = j
                       /\ now - j \notin dates
                       /\ \A i \in 0 .. j - 1 : now - i \in dates
  BY CountsBack
<1>2. IsFiniteSet(dates) /\ Cardinality(dates) \in Nat
  <2>1. IsFiniteSet(1 .. b)
    BY FS_Interval
  <2>2. IsFiniteSet(dates)
    BY <2>1, FS_Subset
  <2> QED BY <2>2, FS_CardinalityType
<1>3. \A y \in (now - j + 1) .. now : y \in dates
  <2> TAKE y \in (now - j + 1) .. now
  <2>1. now - y \in 0 .. j - 1 /\ now - (now - y) = y
    OBVIOUS
  <2> QED BY <1>1, <2>1
<1>4. j <= Cardinality(dates)
  <2> DEFINE row == (now - j + 1) .. now
  <2>1. Cardinality(row) = j
    <3>1. now - j + 1 \in Int /\ now \in Int
      OBVIOUS
    <3>2. Cardinality(row) = IF now - j + 1 > now THEN 0 ELSE now - (now - j + 1) + 1
      BY <3>1, FS_Interval
    <3> QED BY <3>2
  <2>2. row \in SUBSET dates
    BY <1>3
  <2> HIDE DEF row
  <2>3. Cardinality(row) <= Cardinality(dates)
    BY <1>2, <2>2, FS_Subset
  <2> QED BY <2>1, <2>3
<1>5. \A k \in Rows : k \in Nat /\ k <= j
  <2> TAKE k \in Rows
  <2>1. k \in Nat /\ (now - k + 1) .. now \subseteq dates
    BY <1>2
  <2>2. ~(j + 1 <= k)
    <3> SUFFICES ASSUME j + 1 <= k PROVE FALSE
      OBVIOUS
    <3>1. now - j \in (now - k + 1) .. now
      BY <2>1
    <3> QED BY <1>1, <2>1, <3>1
  <2> QED BY <2>1, <2>2
<1>6. j \in {0} \cup Rows
  <2>1. j # 0 => j \in 1 .. Cardinality(dates)
    BY <1>2, <1>4
  <2> QED BY <1>3, <2>1
<1> HIDE DEF Rows
<1>7. {0} \cup Rows \in SUBSET Int /\ \A k \in {0} \cup Rows : k <= j
  BY <1>5
<1>8. Max({0} \cup Rows) = j
  BY <1>6, <1>7, MaxOnly
<1> QED BY <1>1, <1>8 DEF Rows

-----------------------------------------------------------------------------
(* Concurrent sequences *)

(* What the sweep may be given: finitely many rows, each dated row with a  *)
(* first day, a last day and neither after the other, up to day L.         *)
Sweepable(rows, L) ==
  /\ IsFiniteSet(rows)
  /\ \A i \in Intervals(rows) :
       i.start \in 1 .. L /\ i.end \in 1 .. L /\ i.start <= i.end

(* A part of a finite set and what is left of it.                          *)
LEMMA ParthoodCounts ==
  ASSUME NEW S, IsFiniteSet(S), NEW T \in SUBSET S
  PROVE  /\ IsFiniteSet(T) /\ Cardinality(T) \in Nat /\ Cardinality(S) \in Nat
         /\ Cardinality(T) <= Cardinality(S)
         /\ Cardinality(S \ T) = Cardinality(S) - Cardinality(T)
<1>1. IsFiniteSet(T) /\ Cardinality(T) <= Cardinality(S)
  BY FS_Subset
<1>2. Cardinality(T) \in Nat /\ Cardinality(S) \in Nat
  BY <1>1, FS_CardinalityType
<1>3. Cardinality(S \ T) = Cardinality(S) - Cardinality(S \cap T)
  BY <1>1, FS_Difference
<1>4. S \cap T = T
  OBVIOUS
<1> QED BY <1>1, <1>2, <1>3, <1>4

(* Two parts without a common member count as one.                         *)
LEMMA ApartCounts ==
  ASSUME NEW S, IsFiniteSet(S), NEW T \in SUBSET S, NEW U \in SUBSET S, T \cap U = {}
  PROVE  Cardinality(T \cup U) = Cardinality(T) + Cardinality(U)
<1>1. IsFiniteSet(T) /\ IsFiniteSet(U) /\ Cardinality(T) \in Nat /\ Cardinality(U) \in Nat
  BY ParthoodCounts
<1>2. Cardinality(T \cup U) = Cardinality(T) + Cardinality(U) - Cardinality(T \cap U)
  BY <1>1, FS_Union
<1>3. Cardinality(T \cap U) = 0
  BY FS_EmptySet
<1> QED BY <1>1, <1>2, <1>3

(* The counts of the sweep are the numbers of sequences that share a day:  *)
(* before the events of a day that of the day before, after them its own.  *)
LEMMA SweepCounts ==
  ASSUME NEW L \in Nat, NEW rows, Sweepable(rows, L), NEW d \in Int
  PROVE  /\ Opens(rows, d) \in Nat /\ Closes(rows, d) \in Nat
         /\ RunningBefore(rows, d) = Overlap(rows, d - 1)
         /\ Overlap(rows, d) \in Nat /\ Overlap(rows, d - 1) \in Nat
         /\ Closes(rows, d) <= Overlap(rows, d - 1)
         /\ Overlap(rows, d) = Overlap(rows, d - 1) + Opens(rows, d) - Closes(rows, d)
<1> DEFINE I == Intervals(rows)
           A == {i \in I : i.start < d}
           B == {i \in I : CloseDay(i) < d}
           O == {i \in I : i.start = d}
           C == {i \in I : CloseDay(i) = d}
           N == {i \in I : i.start <= d /\ d <= i.end}
           P == {i \in I : i.start <= d - 1 /\ d - 1 <= i.end}
<1>1. IsFiniteSet(I)
  <2>1. I \in SUBSET rows
    BY DEF Intervals
  <2> QED BY <2>1, ParthoodCounts DEF Sweepable
<1>2. \A i \in I : i.start \in Int /\ i.end \in Int /\ CloseDay(i) = i.end + 1 /\ i.start <= i.end
  BY DEF Sweepable, CloseDay
<1> HIDE DEF I
<1>3. /\ A \in SUBSET I /\ O \in SUBSET I /\ A \cap O = {}
      /\ B \in SUBSET I /\ C \in SUBSET I /\ B \cap C = {}
  BY <1>2
<1>4. B \in SUBSET A /\ P = A \ B /\ C \in SUBSET (A \ B)
  BY <1>2
<1>5. B \cup C \in SUBSET (A \cup O) /\ N = (A \cup O) \ (B \cup C)
  BY <1>2
<1> HIDE DEF A, B, O, C, N, P
<1>6. /\ Cardinality(A \cup O) = Cardinality(A) + Cardinality(O)
      /\ Cardinality(B \cup C) = Cardinality(B) + Cardinality(C)
  BY <1>1, <1>3, ApartCounts
<1>7. /\ Cardinality(A) \in Nat /\ Cardinality(B) \in Nat
      /\ Cardinality(O) \in Nat /\ Cardinality(C) \in Nat
      /\ IsFiniteSet(A)
  BY <1>1, <1>3, ParthoodCounts
<1>8. IsFiniteSet(A \cup O) /\ IsFiniteSet(A \ B)
  <2>1. A \cup O \in SUBSET I /\ A \ B \in SUBSET I
    BY <1>3
  <2> QED BY <1>1, <2>1, ParthoodCounts
<1>9. Cardinality(P) = Cardinality(A) - Cardinality(B) /\ Cardinality(P) \in Nat
  <2>1. Cardinality(A \ B) = Cardinality(A) - Cardinality(B)
    BY <1>4, <1>7, ParthoodCounts
  <2>2. Cardinality(A \ B) \in Nat
    BY <1>8, FS_CardinalityType
  <2> QED BY <1>4, <2>1, <2>2
<1>10. Cardinality(C) <= Cardinality(P)
  BY <1>4, <1>8, ParthoodCounts
<1>11. Cardinality(N) = Cardinality(A \cup O) - Cardinality(B \cup C)
  BY <1>5, <1>8, ParthoodCounts
<1>12. /\ RunningBefore(rows, d) = Cardinality(A) - Cardinality(B)
       /\ Opens(rows, d) = Cardinality(O) /\ Closes(rows, d) = Cardinality(C)
       /\ Overlap(rows, d) = Cardinality(N) /\ Overlap(rows, d - 1) = Cardinality(P)
  BY DEF RunningBefore, Opens, Closes, Overlap, A, B, O, C, N, P, I
<1> QED BY <1>6, <1>7, <1>9, <1>10, <1>11, <1>12

(* No day outside 1 .. L is shared, no day by more rows than there are, an *)
(* event day has an event and a day with one is an event day.              *)
LEMMA SharedBounds ==
  ASSUME NEW L \in Nat, NEW rows, Sweepable(rows, L), NEW d \in Int
  PROVE  /\ Cardinality(rows) \in Nat /\ Overlap(rows, d) <= Cardinality(rows)
         /\ d \notin 1 .. L => Overlap(rows, d) = 0
         /\ d \in EventDays(rows) <=> Opens(rows, d) # 0 \/ Closes(rows, d) # 0
<1> DEFINE I == Intervals(rows)
           N == {i \in I : i.start <= d /\ d <= i.end}
           O == {i \in I : i.start = d}
           C == {i \in I : CloseDay(i) = d}
<1>1. IsFiniteSet(rows) /\ I \in SUBSET rows
  BY DEF Sweepable, Intervals
<1>2. \A i \in I : i.start \in 1 .. L /\ i.end \in 1 .. L
  BY DEF Sweepable
<1> HIDE DEF I
<1>3. N \in SUBSET rows /\ O \in SUBSET rows /\ C \in SUBSET rows
  BY <1>1
<1>4. d \notin 1 .. L => N = {}
  BY <1>2
<1>5. d \in EventDays(rows) <=> O # {} \/ C # {}
  BY DEF EventDays, I
<1> HIDE DEF N, O, C
<1>6. IsFiniteSet(O) /\ IsFiniteSet(C) /\ Cardinality(N) <= Cardinality(rows) /\ Cardinality(rows) \in Nat
  BY <1>1, <1>3, ParthoodCounts
<1>7. (Cardinality(O) = 0 <=> O = {}) /\ (Cardinality(C) = 0 <=> C = {}) /\ (N = {} => Cardinality(N) = 0)
  BY <1>6, FS_EmptySet
<1>8. /\ Overlap(rows, d) = Cardinality(N)
      /\ Opens(rows, d) = Cardinality(O) /\ Closes(rows, d) = Cardinality(C)
  BY DEF Overlap, Opens, Closes, N, O, C, I
<1> QED BY <1>4, <1>5, <1>6, <1>7, <1>8

(* The counts shown for a day: none exceeds both the day's own number and  *)
(* the day's before less one, and the day's own number is among them.      *)
LEMMA MomentsAre ==
  ASSUME NEW L \in Nat, NEW rows, Sweepable(rows, L), NEW d \in EventDays(rows)
  PROVE  /\ d \in Int
         /\ Overlap(rows, d) \in Moments(rows, d)
         /\ \A m \in Moments(rows, d) :
              /\ m \in Nat
              /\ m <= Overlap(rows, d) \/ m < Overlap(rows, d - 1)
              /\ Closes(rows, d) <= 1 => m <= Overlap(rows, d)
<1> DEFINE o == Opens(rows, d)
           c == Closes(rows, d)
           n == Overlap(rows, d)
           p == Overlap(rows, d - 1)
<1>1. d \in Int
  BY DEF EventDays, Sweepable, CloseDay
<1>2. /\ o \in Nat /\ c \in Nat /\ n \in Nat /\ p \in Nat
      /\ c <= p /\ n = p + o - c /\ RunningBefore(rows, d) = p
  BY <1>1, SweepCounts
<1>3. o # 0 \/ c # 0
  BY <1>1, SharedBounds
<1>4. Moments(rows, d) = {p - k : k \in 1 .. c} \cup {(p - c) + k : k \in 1 .. o}
  BY <1>2 DEF Moments
<1> HIDE DEF o, c, n, p
<1>5. n \in {p - k : k \in 1 .. c} \cup {(p - c) + k : k \in 1 .. o}
  <2>1. CASE o # 0
    <3>1. o \in 1 .. o /\ n = (p - c) + o
      BY <1>2, <2>1
    <3> QED BY <3>1
  <2>2. CASE o = 0
    <3>1. c \in 1 .. c /\ n = p - c
      BY <1>2, <1>3, <2>2
    <3> QED BY <3>1
  <2> QED BY <2>1, <2>2
<1>6. \A k \in 1 .. c : p - k \in Nat /\ p - k < p /\ (c <= 1 => p - k <= n)
  BY <1>2
<1>7. \A k \in 1 .. o : (p - c) + k \in Nat /\ (p - c) + k <= n
  BY <1>2
<1>8. \A m \in Moments(rows, d) : m \in Nat /\ (m <= n \/ m < p) /\ (c <= 1 => m <= n)
  BY <1>4, <1>6, <1>7
<1> QED BY <1>1, <1>4, <1>5, <1>8 DEF o, c, n, p

(* The series shows at least the day's own number, and no other while at   *)
(* most one sequence closed.                                               *)
LEMMA SeriesIs ==
  ASSUME NEW L \in Nat, NEW rows, Sweepable(rows, L), NEW d \in EventDays(rows)
  PROVE  /\ Series(rows)[d] \in Moments(rows, d)
         /\ Overlap(rows, d) <= Series(rows)[d]
         /\ Closes(rows, d) <= 1 => Overlap(rows, d) = Series(rows)[d]
<1> DEFINE M == Moments(rows, d)
           n == Overlap(rows, d)
           p == Overlap(rows, d - 1)
<1>1. /\ n \in M
      /\ \A m \in M : m \in Nat /\ (m <= n \/ m < p) /\ (Closes(rows, d) <= 1 => m <= n)
  BY MomentsAre
<1>2. d \in Int /\ n \in Nat /\ p \in Nat
  BY MomentsAre, SweepCounts
<1>3. Series(rows)[d] = Max(M)
  BY DEF Series
<1> HIDE DEF M, n, p
<1>4. M \in SUBSET Nat /\ M # {} /\ n + p \in Nat /\ \A m \in M : m <= n + p
  BY <1>1, <1>2
<1>5. Max(M) \in M /\ Max(M) \in Nat /\ \A m \in M : m <= Max(M)
  BY <1>4, MaxIs
<1>6. n <= Max(M) /\ (Closes(rows, d) <= 1 => Max(M) <= n)
  BY <1>1, <1>5
<1> QED BY <1>2, <1>3, <1>5, <1>6 DEF M, n

(* The greatest count of the sweep is the greatest number of sequences     *)
(* that share a day.  The earliest such day has more than the day before,  *)
(* so a sequence opens on it, and the sweep records its number; any day on *)
(* which the sweep records that number has it, since the one recorded      *)
(* before the day's last event is lower than the day's own or the day's    *)
(* before.                                                                 *)
LEMMA SweepFindsTheMost ==
  ASSUME NEW L \in Nat, NEW rows, Sweepable(rows, L), NEW most,
         most = Max({0} \cup {Overlap(rows, d) : d \in 1 .. L})
  PROVE  /\ MaxConcurrent(rows) = most
         /\ Intervals(rows) # {} =>
              TopDate(rows) = Min({d \in 1 .. L : Overlap(rows, d) = most})
<1> DEFINE n(d)   == Overlap(rows, d)
           Shared == {0} \cup {n(d) : d \in 1 .. L}
           Seen   == {0} \cup UNION {Moments(rows, d) : d \in EventDays(rows)}
           Tops   == {d \in 1 .. L : n(d) = most}
<1>1. \A d \in Int : /\ n(d) \in Nat /\ n(d) <= Cardinality(rows)
                     /\ d \notin 1 .. L => n(d) = 0
                     /\ n(d - 1) \in Nat /\ Opens(rows, d) \in Nat /\ Closes(rows, d) \in Nat
                     /\ n(d) = n(d - 1) + Opens(rows, d) - Closes(rows, d)
                     /\ d \in EventDays(rows) <=> Opens(rows, d) # 0 \/ Closes(rows, d) # 0
  <2> SUFFICES ASSUME NEW d \in Int
               PROVE  /\ n(d) \in Nat /\ n(d) <= Cardinality(rows)
                      /\ d \notin 1 .. L => n(d) = 0
                      /\ n(d - 1) \in Nat /\ Opens(rows, d) \in Nat /\ Closes(rows, d) \in Nat
                      /\ n(d) = n(d - 1) + Opens(rows, d) - Closes(rows, d)
                      /\ d \in EventDays(rows) <=> Opens(rows, d) # 0 \/ Closes(rows, d) # 0
    OBVIOUS
  <2>1. /\ n(d) \in Nat /\ n(d - 1) \in Nat /\ Opens(rows, d) \in Nat /\ Closes(rows, d) \in Nat
        /\ n(d) = n(d - 1) + Opens(rows, d) - Closes(rows, d)
    BY SweepCounts
  <2>2. /\ n(d) <= Cardinality(rows)
        /\ d \notin 1 .. L => n(d) = 0
        /\ d \in EventDays(rows) <=> Opens(rows, d) # 0 \/ Closes(rows, d) # 0
    BY SharedBounds
  <2> QED BY <2>1, <2>2
<1>2. Cardinality(rows) \in Nat
  BY FS_CardinalityType DEF Sweepable
<1>3. \A d \in EventDays(rows) : d \in Int /\ n(d) \in Moments(rows, d)
  BY MomentsAre
<1>4. \A d \in EventDays(rows) : \A m \in Moments(rows, d) :
        m \in Nat /\ (m <= n(d) \/ m < n(d - 1))
  BY MomentsAre
<1>5. Intervals(rows) # {} => \E d \in 1 .. L : n(d) # 0
  <2> SUFFICES ASSUME NEW i \in Intervals(rows) PROVE n(i.start) # 0 /\ i.start \in 1 .. L
    OBVIOUS
  <2>1. i.start \in 1 .. L /\ i.start <= i.end /\ i.start <= i.start
    BY DEF Sweepable
  <2> DEFINE N == {j \in Intervals(rows) : j.start <= i.start /\ i.start <= j.end}
  <2>2. i \in N
    BY <2>1
  <2>3. N \in SUBSET rows
    BY DEF Intervals
  <2>4. n(i.start) = Cardinality(N)
    BY DEF Overlap
  <2> HIDE DEF N, n
  <2>5. IsFiniteSet(N)
    BY <2>3, ParthoodCounts DEF Sweepable
  <2>6. Cardinality(N) # 0
    BY <2>2, <2>5, FS_EmptySet
  <2> QED BY <2>1, <2>4, <2>6
<1>6. most = Max(Shared)
  OBVIOUS
<1> HIDE DEF n
<1>7. most \in Shared /\ most \in Nat /\ \A m \in Shared : m <= most
  <2>1. \A m \in Shared : m \in Nat /\ m <= Cardinality(rows)
    <3>1. \A d \in 1 .. L : n(d) \in Nat /\ n(d) <= Cardinality(rows)
      <4> TAKE d \in 1 .. L
      <4>1. d \in Int
        OBVIOUS
      <4> QED BY <1>1, <4>1
    <3> QED BY <1>2, <3>1
  <2>2. 0 \in Shared
    OBVIOUS
  <2> HIDE DEF Shared
  <2>3. Shared \in SUBSET Nat /\ Shared # {}
    BY <2>1, <2>2
  <2> QED BY <1>2, <1>6, <2>1, <2>3, MaxIs
<1>8. \A d \in Int : n(d) <= most /\ n(d - 1) <= most
  <2>1. \A d \in Int : n(d) <= most
    BY <1>1, <1>7
  <2> QED BY <2>1
<1>9. \A d \in EventDays(rows) : \A m \in Moments(rows, d) : m <= most
  <2> TAKE d \in EventDays(rows)
  <2> TAKE m \in Moments(rows, d)
  <2>1. d \in Int /\ m \in Nat /\ (m <= n(d) \/ m < n(d - 1))
    BY <1>3, <1>4
  <2>2. n(d) <= most /\ n(d - 1) <= most /\ n(d) \in Nat /\ n(d - 1) \in Nat
    BY <1>1, <1>8, <2>1
  <2> QED BY <1>7, <2>1, <2>2
<1>10. most # 0 => Tops # {}
  BY <1>7
<1>11. ASSUME Tops # {}
       PROVE  Min(Tops) \in Tops /\ Min(Tops) \in Nat /\ \A d \in Tops : Min(Tops) <= d
  <2>1. Tops \in SUBSET Nat
    OBVIOUS
  <2> HIDE DEF Tops
  <2> QED BY <1>11, <2>1, MinIs
<1>12. ASSUME most # 0
       PROVE  Min(Tops) \in EventDays(rows) /\ most \in Moments(rows, Min(Tops))
  <2> DEFINE d == Min(Tops)
  <2>1. d \in 1 .. L /\ n(d) = most /\ \A e \in Tops : d <= e
    BY <1>10, <1>11, <1>12
  <2> HIDE DEF d
  <2>2. d - 1 \notin Tops /\ d - 1 \in Int /\ d \in Int
    BY <2>1
  <2>3. n(d - 1) # most
    BY <1>1, <1>12, <2>2
  <2>4. Opens(rows, d) # 0 \/ Closes(rows, d) # 0
    BY <1>1, <2>1, <2>2, <2>3
  <2>5. d \in EventDays(rows)
    BY <1>1, <2>2, <2>4
  <2> QED BY <1>3, <2>1, <2>5 DEF d
<1>13. MaxConcurrent(rows) = most
  <2>1. most \in Seen
    BY <1>12
  <2>2. \A m \in Seen : m \in Nat /\ m <= most
    BY <1>4, <1>7, <1>9
  <2> HIDE DEF Seen
  <2>3. Seen \in SUBSET Int
    BY <2>2
  <2>4. Max(Seen) = most
    BY <2>1, <2>2, <2>3, MaxOnly
  <2> QED BY <2>4 DEF MaxConcurrent, Seen
<1>14. ASSUME Intervals(rows) # {}
       PROVE  TopDate(rows) = Min(Tops)
  <2> DEFINE E    == EventDays(rows)
             S(d) == Series(rows)[d]
             Busy == {d \in E : \A e \in E : S(e) <= S(d)}
             top  == Min(Tops)
  <2>1. most # 0
    <3>1. PICK d \in 1 .. L : n(d) # 0
      BY <1>5, <1>14
    <3>2. d \in Int
      OBVIOUS
    <3>3. n(d) \in Nat /\ n(d) <= most
      BY <1>1, <1>8, <3>2
    <3> QED BY <3>1, <3>3
  <2>2. top \in E /\ top \in Tops /\ top \in Nat /\ \A d \in Tops : top <= d
    BY <1>10, <1>11, <1>12, <2>1
  <2>3. \A d \in E : S(d) \in Moments(rows, d) /\ n(d) <= S(d)
    BY SeriesIs DEF n
  <2>4. TopDate(rows) = Min(Busy)
    BY DEF TopDate
  <2> HIDE DEF S, top, E, Tops
  <2>5. \A d \in E : S(d) \in Nat /\ S(d) <= most
    BY <1>4, <1>9, <2>3 DEF E
  <2>6. S(top) = most
    <3>1. n(top) = most
      BY <2>2 DEF Tops
    <3> QED BY <1>7, <2>2, <2>3, <2>5, <3>1
  <2>7. top \in Busy
    BY <2>2, <2>5, <2>6
  <2>8. \A d \in Busy : d \in Int /\ top <= d
    <3> TAKE d \in Busy
    <3>1. d \in E /\ d \in Int /\ S(top) <= S(d)
      BY <1>3, <2>2 DEF E
    <3>2. S(d) = most
      BY <1>7, <2>5, <2>6, <3>1
    <3>3. most <= n(d) \/ most < n(d - 1)
      BY <1>4, <2>3, <3>1, <3>2 DEF E
    <3>4. n(d) = most
      <4>1. n(d) <= most /\ n(d - 1) <= most /\ n(d) \in Nat /\ n(d - 1) \in Nat
        BY <1>1, <1>8, <3>1
      <4> QED BY <1>7, <3>3, <4>1
    <3>5. d \in Tops
      BY <1>1, <2>1, <3>1, <3>4 DEF Tops
    <3> QED BY <2>2, <3>1, <3>5
  <2>9. Busy \in SUBSET Int
    BY <2>8
  <2> HIDE DEF Busy
  <2>10. Min(Busy) = top
    BY <2>7, <2>8, <2>9, MinOnly
  <2> QED BY <2>4, <2>10 DEF top
<1> QED BY <1>13, <1>14 DEF n, Tops

-----------------------------------------------------------------------------
(* What the requests keep *)

(* A row of clues, as the requests may write it.                           *)
ClueRow == [part : Part, date : Day \cup {Null}, sequence : AuthorSequence \cup {Null}]

(* Numbers stay between 1 and the bound, dates among the days.             *)
StatsTyped == /\ clues \in [Numbers -> ClueRow]
              /\ Numbers \subseteq 1 .. Highest
              /\ today \in Day
              /\ singleDay \in BOOLEAN

(* A clue that is placed gets its number and moves those from there on up. *)
LEMMA PlaceKeeps ==
  ASSUME clues \in [Numbers -> ClueRow], Numbers \subseteq 1 .. Highest, today \in Day,
         Highest \in Nat, NEW n \in 1 .. Highest, NEW part \in Part, Place(n, part),
         \A m \in Numbers : n <= m => m + 1 <= Highest
  PROVE  clues' \in [Numbers' -> ClueRow] /\ Numbers' \subseteq 1 .. Highest
<1> DEFINE new  == [part |-> part, date |-> today, sequence |-> Null]
           Keys == {m \in Numbers : m < n} \cup {n} \cup {m + 1 : m \in {j \in Numbers : n <= j}}
           Row(k) == CASE k < n -> clues[k] [] k = n -> new [] OTHER -> clues[k - 1]
<1>1. clues' = [k \in Keys |-> Row(k)]
  BY DEF Place
<1>2. new \in ClueRow
  BY DEF ClueRow
<1>3. \A m \in Numbers : m \in Nat /\ 1 <= m /\ m <= Highest /\ clues[m] \in ClueRow
  OBVIOUS
<1> HIDE DEF new
<1>4. ASSUME NEW k \in Keys
      PROVE  k \in 1 .. Highest /\ Row(k) \in ClueRow
  <2>1. CASE k \in Numbers /\ k < n
    BY <1>3, <2>1
  <2>2. CASE k = n
    BY <1>2, <2>2
  <2>3. ASSUME NEW m \in Numbers, n <= m, k = m + 1
        PROVE  k \in 1 .. Highest /\ Row(k) \in ClueRow
    <3>1. m \in Nat /\ 1 <= m /\ clues[m] \in ClueRow /\ m + 1 <= Highest
      BY <1>3, <2>3
    <3>2. k - 1 = m /\ ~(k < n) /\ k # n
      BY <2>3, <3>1
    <3> QED BY <2>3, <3>1, <3>2
  <2> QED BY <2>1, <2>2, <2>3
<1> HIDE DEF Keys, Row
<1>5. Numbers' = Keys
  BY <1>1 DEF Numbers
<1> QED BY <1>1, <1>4, <1>5

(* The greatest number there is room for.                                  *)
LEMMA HighestIs == Highest \in Nat
BY StatsAssumption DEF Highest

(* Requests keep numbers between 1 and the bound, and date clues within    *)
(* the calendar.                                                           *)
LEMMA StatsNextKeeps ==
  ASSUME StatsTyped, StatsNext
  PROVE  StatsTyped'
<1> USE DEF StatsTyped
<1>1. /\ clues \in [Numbers -> ClueRow] /\ Numbers \subseteq 1 .. Highest
      /\ today \in Day /\ singleDay \in BOOLEAN /\ Highest \in Nat
  BY HighestIs
<1>2. singleDay' = singleDay /\ Highest' = Highest
  <2>1. singleDay' = singleDay
    BY DEF StatsNext, Post, Insert, Redate, Group, Remove, Midnight
  <2> QED BY <2>1 DEF Highest
<1>3. ASSUME NEW part \in Part, Post(part)
      PROVE  StatsTyped'
  <2> DEFINE n == Max({0} \cup Numbers) + 1
  <2>1. {0} \cup Numbers \in SUBSET Nat /\ \A m \in {0} \cup Numbers : m <= Highest
    BY <1>1
  <2>2. n \in Nat /\ 1 <= n /\ \A m \in Numbers : m < n
    <3>1. /\ Max({0} \cup Numbers) \in Nat
          /\ \A m \in {0} \cup Numbers : m <= Max({0} \cup Numbers)
      BY <1>1, <2>1, MaxIs
    <3>2. \A m \in Numbers : m \in Nat /\ m <= Max({0} \cup Numbers)
      BY <2>1, <3>1
    <3> QED BY <3>1, <3>2
  <2>3. n <= Highest /\ Place(n, part) /\ today' = today
    BY <1>3 DEF Post
  <2> HIDE DEF n
  <2>4. n \in 1 .. Highest /\ \A m \in Numbers : n <= m => m + 1 <= Highest
    <3>1. \A m \in Numbers : m \in Nat /\ ~(n <= m)
      BY <1>1, <2>2
    <3> QED BY <1>1, <2>2, <2>3, <3>1
  <2>5. clues' \in [Numbers' -> ClueRow] /\ Numbers' \subseteq 1 .. Highest
    BY <1>1, <2>3, <2>4, PlaceKeeps
  <2> QED BY <1>1, <1>2, <2>3, <2>5 DEF Numbers
<1>4. ASSUME NEW n \in Numbers, NEW part \in Part, Insert(n, part)
      PROVE  StatsTyped'
  <2>1. Highest \notin Numbers /\ Place(n, part) /\ today' = today
    BY <1>4 DEF Insert
  <2>2. n \in 1 .. Highest /\ \A m \in Numbers : n <= m => m + 1 <= Highest
    <3>1. \A m \in Numbers : m \in Nat /\ m <= Highest /\ m # Highest
      BY <1>1, <2>1
    <3> QED BY <1>1, <3>1
  <2>3. clues' \in [Numbers' -> ClueRow] /\ Numbers' \subseteq 1 .. Highest
    BY <1>1, <2>1, <2>2, PlaceKeeps
  <2> QED BY <1>1, <1>2, <2>1, <2>3 DEF Numbers
<1>5. ASSUME NEW n \in Numbers, NEW d \in Day \cup {Null}, Redate(n, d)
      PROVE  StatsTyped'
  BY <1>1, <1>2, <1>5 DEF Redate, Numbers, ClueRow
<1>6. ASSUME NEW n \in Numbers, NEW s \in AuthorSequence \cup {Null}, Group(n, s)
      PROVE  StatsTyped'
  BY <1>1, <1>2, <1>6 DEF Group, Numbers, ClueRow
<1>7. ASSUME NEW n \in Numbers, Remove(n)
      PROVE  StatsTyped'
  BY <1>1, <1>2, <1>7 DEF Remove, Numbers
<1>8. CASE Midnight
  BY <1>1, <1>2, <1>8, StatsAssumption DEF Midnight, Numbers, Day
<1> QED BY <1>3, <1>4, <1>5, <1>6, <1>7, <1>8 DEF StatsNext

(* The statistics are computed from numbers, dates and rows of that kind.  *)
LEMMA StatsGiven ==
  ASSUME StatsTyped
  PROVE  /\ Highest \in Nat /\ LastDay \in Nat /\ today \in Nat
         /\ AuthoredNumbers \in SUBSET (1 .. Highest)
         /\ ActiveDates \in SUBSET (1 .. LastDay)
         /\ Sweepable(SequenceRows, LastDay)
<1>1. /\ clues \in [Numbers -> ClueRow] /\ Numbers \subseteq 1 .. Highest
      /\ today \in 1 .. LastDay /\ Highest \in Nat /\ LastDay \in Nat /\ today \in Nat
  BY StatsAssumption, HighestIs DEF StatsTyped, Day
<1>2. \A n \in Numbers : clues[n].date \in (1 .. LastDay) \cup {Null}
  BY <1>1 DEF ClueRow, Day
<1>3. AuthoredNumbers \in SUBSET (1 .. Highest)
  BY <1>1 DEF AuthoredNumbers, Numbers
<1>4. ActiveDates \in SUBSET (1 .. LastDay)
  BY <1>2 DEF ActiveDates, Numbers
<1>5. ASSUME NEW s
      PROVE  Dated(s) \in SUBSET (1 .. LastDay)
  BY <1>2 DEF Dated, Members, Numbers
<1>6. IsFiniteSet(SequenceRows)
  <2> DEFINE f == [r \in SequenceRows |-> CHOOSE n \in Numbers : clues[n].sequence = r.id]
  <2>1. \A r \in SequenceRows : \E n \in Numbers : clues[n].sequence = r.id
    BY DEF SequenceRows, Members, Numbers
  <2>2. \A r \in SequenceRows : f[r] \in Numbers /\ clues[f[r]].sequence = r.id
    BY <2>1
  <2>3. \A q, r \in SequenceRows : q.id = r.id => q = r
    BY DEF SequenceRows
  <2>4. f \in Injection(SequenceRows, Numbers)
    <3>1. f \in [SequenceRows -> Numbers]
      BY <2>2
    <3> HIDE DEF f
    <3>2. \A q, r \in SequenceRows : f[q] = f[r] => q = r
      BY <2>2, <2>3
    <3> QED BY <3>1, <3>2 DEF Injection, IsInjective
  <2>5. IsFiniteSet(Numbers)
    <3>1. IsFiniteSet(1 .. Highest)
      BY <1>1, FS_Interval
    <3> QED BY <1>1, <3>1, FS_Subset
  <2> HIDE DEF f
  <2> QED BY <2>4, <2>5, FS_Injection
<1>7. ASSUME NEW i \in Intervals(SequenceRows)
      PROVE  i.start \in 1 .. LastDay /\ i.end \in 1 .. LastDay /\ i.start <= i.end
  <2>1. PICK s : i = [id |-> s, start |-> IF Dated(s) = {} THEN Null ELSE Min(Dated(s)),
                      end   |-> IF Dated(s) = {} THEN Null ELSE Max(Dated(s))]
    BY DEF Intervals, SequenceRows
  <2>2. i.start # Null
    BY DEF Intervals
  <2>3. Dated(s) # {} /\ i.start = Min(Dated(s)) /\ i.end = Max(Dated(s))
    BY <2>1, <2>2
  <2> DEFINE D == Dated(s)
  <2>4. D \in SUBSET (1 .. LastDay)
    BY <1>5
  <2> HIDE DEF D
  <2>5. D \in SUBSET Nat /\ \A d \in D : d \in 1 .. LastDay /\ d <= LastDay
    BY <1>1, <2>4
  <2>6. D # {} => Min(D) \in D /\ \A d \in D : Min(D) <= d
    BY <2>5, MinIs
  <2>7. D # {} => Max(D) \in D
    BY <1>1, <2>5, MaxIs
  <2> QED BY <2>3, <2>5, <2>6, <2>7 DEF D
<1>8. Sweepable(SequenceRows, LastDay)
  BY <1>6, <1>7 DEF Sweepable
<1> QED BY <1>1, <1>3, <1>4, <1>8

(* Numbers and dates are what the statistics expect, after any requests.   *)
THEOREM StatsTypeCorrect == StatsSpec => []StatsTyped
<1>1. StatsInit => StatsTyped
  BY StatsAssumption DEF StatsInit, StatsTyped, Numbers, Day
<1>2. StatsTyped /\ [StatsNext]_statsVars => StatsTyped'
  <2>1. StatsTyped /\ UNCHANGED statsVars => StatsTyped'
    BY DEF StatsTyped, statsVars, Numbers, Highest
  <2> QED BY <2>1, StatsNextKeeps
<1> QED BY <1>1, <1>2, PTL DEF StatsSpec

(* For any bounds and any numbers, dates and sequences: the streaks of a   *)
(* profile are the rows main.py:1001-1003 defines (_streak_from_numbers),  *)
(* and its day streaks the rows of active days (_day_streak).              *)
THEOREM StreaksCountRuns == StatsSpec => []StreaksAreRuns
<1>1. StatsTyped => StreaksAreRuns
  <2> SUFFICES ASSUME StatsTyped PROVE StreaksAreRuns
    OBVIOUS
  <2> DEFINE N == AuthoredNumbers
             D == ActiveDates
  <2>1. /\ Highest \in Nat /\ LastDay \in Nat /\ today \in Nat
        /\ N \in SUBSET (1 .. Highest) /\ D \in SUBSET (1 .. LastDay)
    BY StatsGiven
  <2> HIDE DEF N, D
  <2>2. MaxStreak(N) = LongestRun(N, 2)
    BY <2>1, LongestIs DEF MaxStreak
  <2>3. CurrentStreak(N) =
          Max({0} \cup {k \in 1 .. Cardinality(N) : IsRun(N, Max(N) - 2 * (k - 1), k, 2)})
    BY <2>1, CurrentIs
  <2>4. MaxDays(D) = LongestRun(D, 1)
    BY <2>1, LongestIs DEF MaxDays
  <2>5. CurrentDays(D, today) =
          Max({0} \cup {k \in 1 .. Cardinality(D) : (today - k + 1) .. today \subseteq D})
    BY <2>1, CurrentDaysIs
  <2> QED BY <2>2, <2>3, <2>4, <2>5 DEF StreaksAreRuns, N, D
<1> QED BY <1>1, StatsTypeCorrect, PTL

(* The sweep of _author_sequence_stats finds the greatest number of        *)
(* sequences that share a day, and the first day on which so many ran.     *)
THEOREM SweepIsRight == StatsSpec => []MostConcurrent
<1>1. StatsTyped => MostConcurrent
  <2> SUFFICES ASSUME StatsTyped PROVE MostConcurrent
    OBVIOUS
  <2> DEFINE rows == SequenceRows
             most == Max({0} \cup {Overlap(rows, d) : d \in 1 .. LastDay})
  <2>1. LastDay \in Nat /\ Sweepable(rows, LastDay)
    BY StatsGiven
  <2>2. most = Max({0} \cup {Overlap(rows, d) : d \in Day}) /\ Day = 1 .. LastDay
    BY DEF Day
  <2> HIDE DEF rows
  <2>3. /\ MaxConcurrent(rows) = most
        /\ Intervals(rows) # {} =>
             TopDate(rows) = Min({d \in 1 .. LastDay : Overlap(rows, d) = most})
    BY <2>1, SweepFindsTheMost
  <2> HIDE DEF most
  <2> QED BY <2>2, <2>3 DEF MostConcurrent, rows
<1> QED BY <1>1, StatsTypeCorrect, PTL

(* Its series shows at least the sequences of each day, and no other       *)
(* number on a day before which at most one sequence ended.                *)
THEOREM SeriesShowsEnough == StatsSpec => []SeriesCoversOverlap
<1>1. StatsTyped => SeriesCoversOverlap
  <2> SUFFICES ASSUME StatsTyped PROVE SeriesCoversOverlap
    OBVIOUS
  <2> DEFINE rows == SequenceRows
  <2>1. LastDay \in Nat /\ Sweepable(rows, LastDay)
    BY StatsGiven
  <2> HIDE DEF rows
  <2>2. \A d \in EventDays(rows) :
          /\ Overlap(rows, d) <= Series(rows)[d]
          /\ Closes(rows, d) <= 1 => Overlap(rows, d) = Series(rows)[d]
    BY <2>1, SeriesIs
  <2> QED BY <2>2 DEF SeriesCoversOverlap, rows
<1> QED BY <1>1, StatsTypeCorrect, PTL

=============================================================================
