---------------------------- MODULE IngestProofs ----------------------------
(***************************************************************************)
(* Proofs about Ingest, for every length of the log and every bound.       *)
(*                                                                         *)
(* Sound holds in any chat.  It carries, for each coroutine, what it knows *)
(* between its awaits: the number it read is at most one past the archive, *)
(* and a pill of 1 was counted over all the clues below that number.       *)
(*                                                                         *)
(* Quiet holds while nobody posts until the daemon and the backfill are    *)
(* done: one coroutine at a time, which what it looked up stays true for   *)
(* (NotYet, NumberFree), no clue lost on the way (NothingLost), and an     *)
(* open window that holds all that came since its clue (OpenWindow).  The  *)
(* lemmas ...Quiet show it kept by each step; IInv is the whole invariant. *)
(***************************************************************************)
EXTENDS Ingest, NumberingProofs, FiniteSetTheorems, SequenceTheorems

-----------------------------------------------------------------------------
(* Well-formed states *)

Pc     == {"queued", "checked", "opened", "numbered", "committed", "marked"}
Fate   == {"open", "closed", "stored", "skipped"}
Entry  == [text : Text, user : User]
Live   == [msg : Nat, pc : Pc, number : Nat, pill : Nat]
Task   == Live \cup {Ended}
Window == [clue : Nat, msgs : SUBSET Nat, solver : SUBSET User, fate : Fate]
Row    == [msg : Nat, author : User \cup {Unknown}]

TypeOK ==
  /\ quiet \in BOOLEAN /\ up \in BOOLEAN
  /\ log \in Seq(Entry)
  /\ room \in [msg : Nat, target : Nat]
  /\ tasks \in Seq(Task)
  /\ windows \in Seq(Window)
  /\ archive \in Seq(Row)
  /\ watermark \in Nat
  /\ announced \subseteq [msg : Nat, author : User]
  /\ backfill \in [pc : {"off", "next", "checked", "numbered"}, todo : SUBSET Nat, number : Nat]
  /\ {redelivered, crashes, webClues, backfills} \subseteq Nat

(* Every message the daemon and the backfill hold was posted. *)
Posted ==
  /\ room.msg <= Len(log) /\ room.target <= Len(windows)
  /\ room # Idle => room.msg \in Message
  /\ backfill.todo \subseteq Message
  /\ backfill.pc # "off" => backfill.todo # {}

(* A numbering or the like goes on from s to t: nothing in s is lost. *)
Prefix(s, t) == Len(s) <= Len(t) /\ \A i \in 1..Len(s) : t[i] = s[i]

InArchive(a, m) == \E n \in DOMAIN a : a[n].msg = m

(* The author of t's clue has none in a below t's number. *)
FirstBelow(t, l, a) == \A i \in 1..(t.number - 1) : a[i].author # l[t.msg].user

(* What a coroutine knows when it is about to write or has written its     *)
(* clue: its number is past what it saw of the archive, or it is where its *)
(* clue is; and a pill of 1 means what it says.                            *)
SoundTask(t, l, a) ==
  t # Ended =>
    /\ t.msg \in 1..Len(l) /\ Decide(l[t.msg].text)
    /\ t.pc = "numbered" => t.number \in 1..(Len(a) + 1)
    /\ t.pc \in {"committed", "marked"} => t.number \in DOMAIN a /\ a[t.number].msg = t.msg
    /\ t.pc \in {"numbered", "committed", "marked"} /\ t.pill = 1 => FirstBelow(t, l, a)

TasksSound == \A k \in DOMAIN tasks : SoundTask(tasks[k], log, archive)

-----------------------------------------------------------------------------
(* Sequences that grow *)

(* What Append does to a sequence.                                         *)
LEMMA GrownSequence ==
  ASSUME NEW S, NEW s \in Seq(S), NEW e \in S
  PROVE  /\ Append(s, e) \in Seq(S)
         /\ Len(s) \in Nat /\ DOMAIN s = 1..Len(s)
         /\ Len(Append(s, e)) = Len(s) + 1
         /\ DOMAIN Append(s, e) = 1..(Len(s) + 1)
         /\ Append(s, e)[Len(s) + 1] = e
         /\ Prefix(s, Append(s, e))
BY AppendProperties, LenProperties DEF Prefix

(* Two sequences over the same indices are equally long.                   *)
LEMMA SameLength ==
  ASSUME NEW n \in Nat, NEW m \in Nat, 1..n = 1..m
  PROVE  n = m
<1>1. m > 0 => m \in 1..n
  OBVIOUS
<1>2. n > 0 => n \in 1..m
  OBVIOUS
<1> QED BY <1>1, <1>2

(* What a coroutine knows stays true while the log and the archive grow.   *)
LEMMA PrefixKeeps ==
  ASSUME NEW l \in Seq(Entry), NEW l2 \in Seq(Entry), Prefix(l, l2),
         NEW a \in Seq(Row), NEW a2 \in Seq(Row), Prefix(a, a2), 
         NEW t \in Task, SoundTask(t, l, a)
  PROVE  SoundTask(t, l2, a2)
<1> SUFFICES ASSUME t # Ended PROVE SoundTask(t, l2, a2)
  BY DEF SoundTask
<1>1. /\ Len(l) \in Nat /\ Len(l2) \in Nat /\ Len(a) \in Nat /\ Len(a2) \in Nat
      /\ DOMAIN a = 1..Len(a) /\ DOMAIN a2 = 1..Len(a2)
  BY LenProperties
<1>2. t \in Live
  BY DEF Task
<1>3. /\ t.msg \in 1..Len(l) /\ l2[t.msg] = l[t.msg] /\ t.msg \in 1..Len(l2)
      /\ Decide(l2[t.msg].text)
  BY <1>1 DEF SoundTask, Prefix
<1>4. t.pc = "numbered" => t.number \in 1..(Len(a2) + 1)
  BY <1>1 DEF SoundTask, Prefix
<1>5. t.pc \in {"committed", "marked"} => t.number \in DOMAIN a2 /\ a2[t.number].msg = t.msg
  BY <1>1 DEF SoundTask, Prefix
<1>6. ASSUME t.pc \in {"numbered", "committed", "marked"}, t.pill = 1
      PROVE  FirstBelow(t, l2, a2)
  <2>1. t.number \in Nat /\ t.number - 1 <= Len(a)
    BY <1>1, <1>2, <1>6 DEF SoundTask, Live
  <2>2. FirstBelow(t, l, a)
    BY <1>6 DEF SoundTask
  <2> QED BY <1>1, <1>3, <2>1, <2>2 DEF FirstBelow, Prefix
<1> QED BY <1>3, <1>4, <1>5, <1>6 DEF SoundTask

-----------------------------------------------------------------------------
(* What a step can do *)

LogStep == log' = log \/ \E e \in Entry : log' = Append(log, e)

(* The archive only ever grows by one clue, of no message or of one that   *)
(* is not archived yet.                                                    *)
ArchiveStep ==
  \/ archive' = archive
  \/ \E r \in Row : /\ archive' = Append(archive, r)
                    /\ r.msg <= Len(log)
                    /\ r.msg # NoMessage => ~InArchive(archive, r.msg)

(* The sequences of a well-formed state are indexed from 1.                *)
LEMMA Lengths ==
  ASSUME TypeOK
  PROVE  /\ Len(log) \in Nat /\ DOMAIN log = 1..Len(log)
         /\ Len(tasks) \in Nat /\ DOMAIN tasks = 1..Len(tasks)
         /\ Len(windows) \in Nat /\ DOMAIN windows = 1..Len(windows)
         /\ Len(archive) \in Nat /\ DOMAIN archive = 1..Len(archive)
BY LenProperties DEF TypeOK

(* A message that is posted goes to the end of the log.                    *)
LEMMA PostStep ==
  ASSUME TypeOK, Post
  PROVE  /\ log' \in Seq(Entry) /\ Len(log') = Len(log) + 1 /\ Prefix(log, log')
         /\ \E e \in Entry : log' = Append(log, e)
<1>1. PICK t \in Text, u \in User : log' = Append(log, [text |-> t, user |-> u])
  BY DEF Post
<1>2. log \in Seq(Entry) /\ [text |-> t, user |-> u] \in Entry
  BY DEF TypeOK, Entry
<1> QED BY <1>1, <1>2, GrownSequence

(* Only the coroutine k does something: it becomes t. *)
Becomes(k, t) ==
  /\ tasks' \in Seq(Task) /\ DOMAIN tasks' = DOMAIN tasks /\ Len(tasks') = Len(tasks)
  /\ tasks'[k] = t /\ \A j \in DOMAIN tasks \ {k} : tasks'[j] = tasks[j]

(* A coroutine that is rewritten leaves the others alone.                  *)
LEMMA WriteTask ==
  ASSUME TypeOK, NEW k \in DOMAIN tasks, NEW t \in Task, 
         tasks' = [tasks EXCEPT ![k] = t]
  PROVE  Becomes(k, t)
BY ExceptSeq DEF TypeOK, Becomes

(* A coroutine has ended, or it is live and at one of its awaits.          *)
LEMMA LiveTask ==
  ASSUME TypeOK, NEW k \in DOMAIN tasks
  PROVE  /\ tasks[k] \in Task
         /\ tasks[k].pc \in Pc => tasks[k] \in Live /\ tasks[k] # Ended
         /\ ~Settled(k) => tasks[k] \in Live /\ tasks[k].pc \in Pc
<1>1. tasks[k] \in Task
  BY ElementOfSeq, LenProperties DEF TypeOK
<1>2. Ended.pc = "ended" /\ "ended" \notin Pc
  BY DEF Ended, Pc
<1>3. \A t \in Live : t.pc \in Pc
  BY DEF Live
<1> QED BY <1>1, <1>2, <1>3 DEF Task, Settled

(* Goto moves one coroutine on.                                            *)
LEMMA GotoTask ==
  ASSUME TypeOK, NEW k \in DOMAIN tasks, NEW l \in Pc, tasks[k].pc \in Pc, Goto(k, l)
  PROVE  /\ [tasks[k] EXCEPT !.pc = l] \in Live
         /\ Becomes(k, [tasks[k] EXCEPT !.pc = l])
<1> DEFINE t == [tasks[k] EXCEPT !.pc = l]
<1>1. t \in Live /\ t \in Task
  BY LiveTask DEF Live, Task
<1>2. tasks' = [tasks EXCEPT ![k] = t]
  BY DEF Goto
<1> HIDE DEF t
<1>3. Becomes(k, t)
  BY <1>1, <1>2, WriteTask
<1> QED BY <1>1, <1>3 DEF t

(* End ends one coroutine.                                                 *)
LEMMA EndTask ==
  ASSUME TypeOK, NEW k \in DOMAIN tasks, End(k)
  PROVE  Becomes(k, Ended)
BY WriteTask DEF End, Task

(* A step of the archive keeps it well formed and loses no clue.           *)
LEMMA ArchiveGrows ==
  ASSUME TypeOK, ArchiveStep
  PROVE  archive' \in Seq(Row) /\ Prefix(archive, archive')
<1>1. archive \in Seq(Row) /\ Len(archive) \in Nat
  BY Lengths DEF TypeOK
<1>2. CASE archive' = archive
  BY <1>1, <1>2 DEF Prefix
<1>3. CASE archive' # archive
  <2>1. PICK r \in Row : archive' = Append(archive, r)
    BY <1>3 DEF ArchiveStep
  <2> QED BY <1>1, <2>1, GrownSequence
<1> QED BY <1>2, <1>3

(* A count of zero says that the author has no clue in the archive yet.    *)
LEMMA CountTyped ==
  ASSUME TypeOK, NEW u
  PROVE  /\ AuthorCount(u, Len(archive)) \in Nat
         /\ AuthorCount(u, Len(archive)) = 0 =>
              \A i \in 1..Len(archive) : archive[i].author # u
<1> DEFINE S == {i \in 1..Len(archive) : archive[i].author = u}
<1>1. IsFiniteSet(1..Len(archive))
  BY Lengths, FS_Interval
<1>2. IsFiniteSet(S)
  BY <1>1, FS_Subset
<1>3. Cardinality(S) \in Nat /\ (Cardinality(S) = 0 <=> S = {})
  BY <1>2, FS_CardinalityType, FS_EmptySet
<1> QED BY <1>3 DEF AuthorCount

(* The room thread leaves a well-formed state.                             *)
LEMMA RoomThreadTyped ==
  ASSUME TypeOK, Posted, RoomThread
  PROVE  TypeOK' /\ Posted' /\ LogStep /\ ArchiveStep
<1> USE Lengths
<1>1. ASSUME NEW m \in Nat, m # 0, m <= Len(log'), Receive(m), log' \in Seq(Entry), Prefix(log, log'), redelivered' \in Nat
      PROVE  TypeOK' /\ Posted' /\ ArchiveStep
  <2>1. TypeOK'
    BY <1>1 DEF TypeOK, Receive
  <2>2. Posted'
    BY <1>1, Lengths, LenProperties DEF TypeOK, Posted, Receive, Prefix, Message, Idle, NoMessage
  <2> QED BY <1>1, <2>1, <2>2 DEF Receive, ArchiveStep
<1>2. CASE Deliver
  <2>1. /\ log' \in Seq(Entry) /\ Len(log') = Len(log) + 1 /\ Prefix(log, log')
        /\ \E e \in Entry : log' = Append(log, e)
    BY <1>2, PostStep DEF Deliver
  <2>2. Receive(Len(log) + 1) /\ redelivered' = redelivered
    BY <1>2 DEF Deliver
  <2>3. redelivered' \in Nat
    BY <2>2 DEF TypeOK
  <2>4. Len(log) + 1 \in Nat /\ Len(log) + 1 # 0 /\ Len(log) + 1 <= Len(log')
    BY <2>1
  <2>5. TypeOK' /\ Posted' /\ ArchiveStep
    BY <1>1, <2>1, <2>2, <2>3, <2>4
  <2> QED BY <2>1, <2>5 DEF LogStep
<1>3. CASE Redeliver
  <2>1. PICK m \in Message : Receive(m)
    BY <1>3 DEF Redeliver
  <2>2. log' = log /\ redelivered' \in Nat
    BY <1>3 DEF Redeliver, TypeOK
  <2>3. m \in Nat /\ m # 0 /\ m <= Len(log') /\ log' \in Seq(Entry) /\ Prefix(log, log')
    BY <2>2 DEF Message, Prefix, TypeOK
  <2>4. TypeOK' /\ Posted' /\ ArchiveStep
    BY <1>1, <2>1, <2>2, <2>3
  <2> QED BY <2>2, <2>4 DEF LogStep
<1>4. CASE HandOver
  <2>1. UNCHANGED <<quiet, log, archive, watermark, announced, backfill, up, redelivered, crashes, webClues, backfills>> /\ room' = Idle
    BY <1>4 DEF HandOver, counts
  <2>2. windows' \in Seq(Window) /\ Len(windows') = Len(windows)
    <3>1. CASE UNCHANGED windows
      BY <3>1 DEF TypeOK
    <3>2. CASE /\ room.target # 0
               /\ windows' = [windows EXCEPT ![room.target].msgs = @ \cup {room.msg}]
      <4> DEFINE w == [windows[room.target] EXCEPT !.msgs = @ \cup {room.msg}]
      <4>1. room.target \in DOMAIN windows
        BY <3>2 DEF Posted, TypeOK
      <4>2. w \in Window
        <5>1. windows[room.target] \in Window /\ room.msg \in Nat
          BY <4>1, ElementOfSeq DEF TypeOK
        <5>2. windows[room.target].msgs \cup {room.msg} \in SUBSET Nat
          BY <5>1 DEF Window
        <5> QED BY <5>1, <5>2 DEF Window
      <4>3. windows' = [windows EXCEPT ![room.target] = w]
        BY <3>2
      <4> QED BY <4>1, <4>2, <4>3, ExceptSeq DEF TypeOK
    <3> QED BY <1>4, <3>1, <3>2 DEF HandOver
  <2>3. tasks' \in Seq(Task)
    <3>1. [msg |-> room.msg, pc |-> "queued", number |-> 0, pill |-> 0] \in Task
      BY DEF TypeOK, Task, Live, Pc
    <3> QED BY <1>4, <3>1, GrownSequence DEF HandOver, TypeOK
  <2> QED BY <2>1, <2>2, <2>3 DEF TypeOK, Posted, LogStep, ArchiveStep, Idle, NoMessage, Message
<1> QED BY <1>2, <1>3, <1>4 DEF RoomThread

(* The coroutines leave the log, the room thread and the backfill alone. *)
LEMMA CoroutineTyped ==
  ASSUME TypeOK, Posted, NEW k \in DOMAIN tasks, SoundTask(tasks[k], log, archive), Coroutine(k)
  PROVE  TypeOK' /\ Posted' /\ LogStep /\ ArchiveStep
<1>1. UNCHANGED <<quiet, log, room, backfill, up, counts>>
  BY DEF Coroutine, CheckDuplicate, OnClue, ReadNumber, Commit, SetWatermark, Announce
<1>2. /\ ~Settled(k) => tasks[k].msg \in 1..Len(log) /\ log[tasks[k].msg].user \in User
      /\ tasks[k].pc \in Pc => ~Settled(k) /\ tasks[k] \in Live
  <2>1. ~Settled(k) => tasks[k].msg \in 1..Len(log)
    BY DEF SoundTask, Settled
  <2>2. \A m \in 1..Len(log) : log[m].user \in User
    <3> TAKE m \in 1..Len(log)
    <3>1. log[m] \in Entry
      BY ElementOfSeq DEF TypeOK
    <3> QED BY <3>1 DEF Entry
  <2> QED BY <2>1, <2>2, LiveTask DEF Settled
<1>3. \A l \in Pc : tasks[k].pc \in Pc /\ Goto(k, l) => tasks' \in Seq(Task)
  BY GotoTask DEF Becomes
<1>4. End(k) => tasks' \in Seq(Task)
  BY EndTask DEF Becomes
<1>5. CASE CheckDuplicate(k)
  <2>1. UNCHANGED <<windows, archive, watermark, announced>>
    BY <1>5 DEF CheckDuplicate
  <2>2. tasks' \in Seq(Task)
    BY <1>3, <1>4, <1>5 DEF CheckDuplicate, Pc
  <2> QED BY <1>1, <2>1, <2>2 DEF TypeOK, Posted, LogStep, ArchiveStep, counts, Message
<1>6. CASE OnClue(k)
  <2>1. UNCHANGED <<archive, watermark, announced>>
    BY <1>6 DEF OnClue
  <2>2. tasks' \in Seq(Task)
    BY <1>3, <1>6 DEF OnClue, Pc
  <2>3. windows' \in Seq(Window) /\ Len(windows') = Len(windows) + 1
    <3> DEFINE m   == tasks[k].msg
               old == [w \in DOMAIN windows |->
                         IF w = Len(windows) THEN Closed(windows[w], m) ELSE windows[w]]
    <3>1. windows' = Append(old, NewWindow(m)) /\ m \in Nat /\ log[m].user \in User
      BY <1>2, <1>6 DEF OnClue, Pc
    <3>2. NewWindow(m) \in Window
      BY <3>1 DEF NewWindow, Window, Fate
    <3>3. \A w \in DOMAIN windows : windows[w] \in Window /\ Closed(windows[w], m) \in Window
      <4> TAKE w \in DOMAIN windows
      <4>1. windows[w] \in Window
        BY ElementOfSeq, Lengths DEF TypeOK
      <4>2. windows[w].msgs \ {m} \in SUBSET Nat /\ {log[m].user} \in SUBSET User
        BY <3>1, <4>1 DEF Window
      <4> QED BY <4>1, <4>2 DEF Closed, Window, Fate
    <3>4. old \in Seq(Window) /\ Len(old) = Len(windows)
      BY <3>3, Lengths
    <3> HIDE DEF old
    <3> QED BY <3>1, <3>2, <3>4, GrownSequence
  <2>4. DOMAIN windows \subseteq DOMAIN windows' /\ Len(windows) \in Nat /\ Message' = Message
    BY <1>1, <2>3, Lengths DEF Message, counts
  <2>5. TypeOK'
    BY <1>1, <2>1, <2>2, <2>3, <2>4 DEF TypeOK, counts
  <2>6. Posted' /\ LogStep /\ ArchiveStep
    <3>1. room.target \in Nat /\ Len(windows) <= Len(windows')
      BY <2>3, <2>4 DEF TypeOK
    <3>2. Posted'
      BY <1>1, <2>3, <2>4, <3>1 DEF Posted, TypeOK
    <3> QED BY <1>1, <2>1, <3>2 DEF LogStep, ArchiveStep
  <2> QED BY <2>5, <2>6
<1>7. CASE ReadNumber(k)
  <2>1. UNCHANGED <<windows, archive, watermark, announced>>
    BY <1>7 DEF ReadNumber
  <2>2. tasks' \in Seq(Task)
    <3> DEFINE u == log[tasks[k].msg].user
               t == [tasks[k] EXCEPT !.pc = "numbered", !.number = Len(archive) + 1,
                                     !.pill = AuthorCount(u, Len(archive)) + 1]
    <3>1. AuthorCount(u, Len(archive)) \in Nat
      BY CountTyped
    <3>2. tasks[k] \in Live
      BY <1>2, <1>7 DEF ReadNumber, Pc
    <3>3. t \in Task
      <4> HIDE DEF u
      <4>1. Len(archive) + 1 \in Nat /\ AuthorCount(u, Len(archive)) + 1 \in Nat
        BY <3>1, Lengths
      <4> QED BY <3>2, <4>1 DEF Task, Live, Pc
    <3>4. tasks' = [tasks EXCEPT ![k] = t]
      BY <1>7 DEF ReadNumber
    <3> QED BY <3>3, <3>4, WriteTask DEF Becomes
  <2> QED BY <1>1, <2>1, <2>2 DEF TypeOK, Posted, LogStep, ArchiveStep, counts, Message
<1>8. CASE Commit(k)
  <2>1. UNCHANGED <<windows, watermark, announced>>
    BY <1>8 DEF Commit
  <2>2. tasks' \in Seq(Task)
    BY <1>3, <1>4, <1>8 DEF Commit, Pc
  <2>3. ArchiveStep
    <3> DEFINE r == [msg |-> tasks[k].msg, author |-> log[tasks[k].msg].user]
    <3>1. r \in Row /\ r.msg <= Len(log)
      BY <1>2, <1>8 DEF Commit, Pc, Row
    <3>2. archive' = archive \/ (archive' = Append(archive, r) /\ ~InArchive(archive, r.msg))
      BY <1>8 DEF Commit, Collides, Archived, InArchive
    <3> QED BY <3>1, <3>2 DEF ArchiveStep
  <2>4. archive' \in Seq(Row)
    BY <2>3, ArchiveGrows
  <2> QED BY <1>1, <2>1, <2>2, <2>3, <2>4 DEF TypeOK, Posted, LogStep, counts, Message
<1>9. CASE SetWatermark(k)
  <2>1. UNCHANGED <<windows, archive, announced>>
    BY <1>9 DEF SetWatermark
  <2>2. tasks' \in Seq(Task)
    BY <1>3, <1>9 DEF SetWatermark, Pc
  <2>3. watermark' \in Nat
    BY <1>2, <1>9 DEF SetWatermark, Pc
  <2> QED BY <1>1, <2>1, <2>2, <2>3 DEF TypeOK, Posted, LogStep, ArchiveStep, counts, Message
<1>10. CASE Announce(k)
  <2>1. UNCHANGED <<windows, archive, watermark>>
    BY <1>10 DEF Announce
  <2>2. tasks' \in Seq(Task)
    BY <1>4, <1>10 DEF Announce
  <2>3. announced' \subseteq [msg : Nat, author : User]
    BY <1>2, <1>10 DEF Announce, Pc, TypeOK
  <2> QED BY <1>1, <2>1, <2>2, <2>3 DEF TypeOK, Posted, LogStep, ArchiveStep, counts, Message
<1> QED BY <1>5, <1>6, <1>7, <1>8, <1>9, <1>10 DEF Coroutine

(* process_window leaves a well-formed state.                              *)
LEMMA ProcessTyped ==
  ASSUME TypeOK, Posted, NEW w \in DOMAIN windows, ProcessWindow(w)
  PROVE  TypeOK' /\ Posted' /\ LogStep /\ ArchiveStep
<1> DEFINE x == [windows[w] EXCEPT
                   !.fate = IF Archived(windows[w].clue) THEN "stored" ELSE "skipped"]
<1>1. x \in Window
  <2>1. windows[w] \in Window
    BY ElementOfSeq, Lengths DEF TypeOK
  <2> QED BY <2>1 DEF Window, Fate
<1>2. windows' = [windows EXCEPT ![w] = x]
  BY DEF ProcessWindow
<1>3. windows' \in Seq(Window) /\ Len(windows') = Len(windows)
  BY <1>1, <1>2, ExceptSeq DEF TypeOK
<1>4. UNCHANGED <<quiet, log, room, tasks, archive, watermark, announced, backfill, up, counts>>
  BY DEF ProcessWindow
<1> QED BY <1>3, <1>4 DEF TypeOK, Posted, LogStep, ArchiveStep, counts, Message

(* The web app, a crash, and what happens until the restart leave a well-  *)
(* formed state.                                                           *)
LEMMA AroundTyped ==
  ASSUME TypeOK, Posted, WebAppend \/ Crash \/ PostUnseen \/ Restart
  PROVE  TypeOK' /\ Posted' /\ LogStep /\ ArchiveStep
<1>1. CASE WebAppend
  <2>1. PICK u \in User : archive' = Append(archive, [msg |-> NoMessage, author |-> u])
    BY <1>1 DEF WebAppend
  <2>2. [msg |-> NoMessage, author |-> u] \in Row
    BY DEF Row, NoMessage
  <2>3. ArchiveStep
    <3> DEFINE r == [msg |-> NoMessage, author |-> u]
    <3>1. r \in Row /\ r.msg = NoMessage /\ archive' = Append(archive, r)
      BY <2>1, <2>2
    <3>2. NoMessage <= Len(log)
      BY Lengths DEF NoMessage
    <3> HIDE DEF r
    <3> QED BY <3>1, <3>2 DEF ArchiveStep
  <2>4. archive' \in Seq(Row)
    BY <2>3, ArchiveGrows
  <2> QED BY <1>1, <2>3, <2>4 DEF WebAppend, TypeOK, Posted, LogStep, memory, Message
<1>2. CASE Crash
  <2>1. UNCHANGED <<quiet, log, archive, watermark, announced, backfill, redelivered, webClues, backfills>>
    BY <1>2 DEF Crash
  <2>2. /\ room' \in [msg : Nat, target : Nat] /\ room' = Idle /\ room'.msg = 0 /\ room'.target = 0
        /\ tasks' \in Seq(Task) /\ windows' \in Seq(Window) /\ Len(windows') = 0
        /\ up' \in BOOLEAN /\ crashes' \in Nat
    <3>1. room' = Idle /\ tasks' = <<>> /\ windows' = <<>> /\ up' = FALSE /\ crashes' = crashes + 1
      BY <1>2 DEF Crash
    <3>2. <<>> \in Seq(Task) /\ <<>> \in Seq(Window) /\ Len(<<>>) = 0
      BY EmptySeq
    <3>3. crashes' \in Nat
      BY <3>1 DEF TypeOK
    <3> QED BY <3>1, <3>2, <3>3 DEF Idle, NoMessage
  <2>3. TypeOK'
    BY <2>1, <2>2 DEF TypeOK
  <2>4. Posted'
    BY <2>1, <2>2, Lengths DEF Posted, Message
  <2> QED BY <2>1, <2>3, <2>4 DEF LogStep, ArchiveStep
<1>3. CASE PostUnseen
  <2>1. /\ log' \in Seq(Entry) /\ Len(log') = Len(log) + 1 
        /\ \E e \in Entry : log' = Append(log, e)
    BY <1>3, PostStep DEF PostUnseen
  <2>2. UNCHANGED <<quiet, room, tasks, windows, archive, watermark, announced, backfill, up, counts>>
    BY <1>3 DEF PostUnseen, memory
  <2>3. TypeOK'
    BY <2>1, <2>2 DEF TypeOK, counts
  <2>4. Posted'
    BY <2>1, <2>2, Lengths DEF Posted, TypeOK, Message
  <2> QED BY <2>1, <2>2, <2>3, <2>4 DEF LogStep, ArchiveStep
<1>4. CASE Restart
  BY <1>4 DEF Restart, TypeOK, Posted, LogStep, ArchiveStep, memory, counts, Message
<1> QED BY <1>1, <1>2, <1>3, <1>4

(* The message the backfill is at was posted and is one of those it has to *)
(* do.                                                                     *)
LEMMA CurrentIsLowest ==
  ASSUME TypeOK, Posted, backfill.pc # "off"
  PROVE  /\ Current \in backfill.todo /\ Current \in Message /\ Current \in Nat \ {0}
         /\ log[Current].user \in User
<1>1. backfill.todo \in SUBSET Nat /\ backfill.todo # {} /\ backfill.todo \subseteq Message
  BY DEF TypeOK, Posted
<1>2. Current \in backfill.todo
  BY <1>1, LowestExists DEF Current
<1>3. Current \in Message /\ Current \in Nat \ {0}
  BY <1>1, <1>2, Lengths DEF Message
<1>4. log[Current] \in Entry
  BY <1>3, ElementOfSeq DEF TypeOK, Message
<1> QED BY <1>2, <1>3, <1>4 DEF Entry

(* Done takes away the message the backfill is at.                         *)
LEMMA DoneTyped ==
  ASSUME TypeOK, Posted
  PROVE  /\ Done(backfill) \in [pc : {"off", "next", "checked", "numbered"}, todo : SUBSET Nat, number : Nat]
         /\ Done(backfill).todo = backfill.todo \ {Current}
         /\ Done(backfill).pc # "off" => Done(backfill).todo # {}
         /\ Done(backfill).pc \in {"off", "next"}
BY DEF TypeOK, Done, AtRest

(* The backfill leaves a well-formed state.                                *)
LEMMA BackfillTyped ==
  ASSUME TypeOK, Posted, Backfill
  PROVE  TypeOK' /\ Posted' /\ LogStep /\ ArchiveStep
<1>1. /\ UNCHANGED <<quiet, log, room, tasks, windows, watermark, announced, up, redelivered, crashes, webClues>>
      /\ backfills' \in Nat
  <2>1. BackfillRests /\ (backfills' = backfills \/ backfills' = backfills + 1)
    BY DEF Backfill, StartBackfill, BackfillChecks, BackfillReads, BackfillWrites
  <2>2. backfills \in Nat
    BY DEF TypeOK
  <2> QED BY <2>1, <2>2 DEF BackfillRests, memory
<1>2. ASSUME archive' \in Seq(Row), 
             backfill' \in [pc : {"off", "next", "checked", "numbered"}, todo : SUBSET Nat, number : Nat],
             backfill'.todo \subseteq Message, backfill'.pc # "off" => backfill'.todo # {}
      PROVE TypeOK' /\ Posted' /\ LogStep
  BY <1>1, <1>2 DEF TypeOK, Posted, LogStep, Message
<1>3. CASE StartBackfill
  <2>1. PICK found \in (SUBSET {m \in Message : IsClue(m)}) \ {{}} :
          backfill' = [AtRest EXCEPT !.pc = "next", !.todo = found]
    BY <1>3 DEF StartBackfill
  <2>2. found \subseteq Message /\ found \in SUBSET Nat /\ found # {}
    <3>1. Message \subseteq Nat
      BY Lengths DEF Message
    <3>2. found \subseteq Message /\ found # {}
      BY <2>1
    <3> QED BY <3>1, <3>2
  <2>3. UNCHANGED archive
    BY <1>3 DEF StartBackfill
  <2> QED BY <1>2, <2>1, <2>2, <2>3 DEF AtRest, TypeOK, ArchiveStep
<1>4. CASE BackfillChecks
  <2>1. UNCHANGED archive
    BY <1>4 DEF BackfillChecks
  <2> QED BY <1>2, <1>4, <2>1, DoneTyped DEF BackfillChecks, TypeOK, Posted, ArchiveStep
<1>5. CASE BackfillReads
  <2>1. UNCHANGED archive /\ backfill' = [backfill EXCEPT !.pc = "numbered", !.number = Len(archive) + 1]
    BY <1>5 DEF BackfillReads
  <2>2. /\ backfill' \in [pc : {"off", "next", "checked", "numbered"}, todo : SUBSET Nat, number : Nat]
        /\ backfill'.todo = backfill.todo
    <3>1. Len(archive) + 1 \in Nat
      BY Lengths
    <3>2. backfill \in [pc : {"off", "next", "checked", "numbered"}, todo : SUBSET Nat, number : Nat]
      BY DEF TypeOK
    <3> QED BY <2>1, <3>1, <3>2
  <2>3. backfill.pc # "off"
    BY <1>5 DEF BackfillReads
  <2> QED BY <1>2, <2>1, <2>2, <2>3 DEF TypeOK, Posted, ArchiveStep
<1>6. CASE BackfillWrites
  <2>1. ArchiveStep
    <3>1. SUFFICES ASSUME archive' # archive
                   PROVE  ArchiveStep
      BY DEF ArchiveStep
    <3>2. PICK u \in {log[Current].user, Unknown} :
            archive' = Append(archive, [msg |-> Current, author |-> u])
      BY <1>6, <3>1 DEF BackfillWrites
    <3>3. Current \in Message /\ Current \in Nat /\ u \in User \cup {Unknown}
      BY <1>6, CurrentIsLowest DEF BackfillWrites
    <3>4. ~InArchive(archive, Current)
      BY <1>6, <3>1 DEF BackfillWrites, Archived, InArchive
    <3>5. [msg |-> Current, author |-> u] \in Row
      BY <3>3 DEF Row
    <3> QED BY <3>2, <3>3, <3>4, <3>5 DEF ArchiveStep, Message
  <2>2. archive' \in Seq(Row)
    BY <2>1, ArchiveGrows
  <2> QED BY <1>2, <1>6, <2>1, <2>2, DoneTyped DEF BackfillWrites, TypeOK, Posted
<1> QED BY <1>3, <1>4, <1>5, <1>6 DEF Backfill

-----------------------------------------------------------------------------
(* What holds in any chat *)

(* Every archived message was posted. *)
ArchivePosted == \A n \in DOMAIN archive : archive[n].msg <= Len(log)

Sound ==
  /\ TypeOK /\ Posted
  /\ TasksSound
  /\ IngestedOnce /\ ArchivePosted
  /\ WatermarkArchived
  /\ FirstClueIsFirst

(* Every step leaves a well-formed state, and log and archive only grow.   *)
LEMMA NextTyped ==
  ASSUME Sound, Next
  PROVE  TypeOK' /\ Posted' /\ LogStep /\ ArchiveStep
<1>1. TypeOK /\ Posted /\ TasksSound
  BY DEF Sound
<1>2. ASSUME NEW k \in DOMAIN tasks, Coroutine(k)
      PROVE  TypeOK' /\ Posted' /\ LogStep /\ ArchiveStep
  BY <1>1, <1>2, CoroutineTyped DEF TasksSound
<1>3. ASSUME NEW w \in DOMAIN windows, ProcessWindow(w)
      PROVE  TypeOK' /\ Posted' /\ LogStep /\ ArchiveStep
  BY <1>1, <1>3, ProcessTyped
<1> QED BY <1>1, <1>2, <1>3, RoomThreadTyped, AroundTyped, BackfillTyped DEF Next, Loop

(* No step loses a message of the log or a clue of the archive.            *)
LEMMA StepGrows ==
  ASSUME Sound, Next
  PROVE  /\ Prefix(log, log') /\ Prefix(archive, archive')
         /\ \A m : Archived(m) => Archived(m)'
<1>1. TypeOK /\ TypeOK' /\ LogStep /\ ArchiveStep
  BY NextTyped DEF Sound
<1>2. Prefix(archive, archive')
  BY <1>1, ArchiveGrows
<1>3. Prefix(log, log')
  <2>1. CASE log' = log
    BY <1>1, <2>1, Lengths DEF Prefix
  <2>2. CASE \E e \in Entry : log' = Append(log, e)
    BY <1>1, <2>2, GrownSequence DEF TypeOK
  <2> QED BY <1>1, <2>1, <2>2 DEF LogStep
<1>4. Len(archive') \in Nat /\ DOMAIN archive' = 1..Len(archive')
  BY <1>1, LenProperties DEF TypeOK
<1>5. ASSUME NEW m, Archived(m)
      PROVE  Archived(m)'
  <2>1. PICK n \in DOMAIN archive : archive[n].msg = m
    BY <1>5 DEF Archived
  <2>2. n \in DOMAIN archive' /\ archive'[n] = archive[n]
    BY <1>1, <1>2, <1>4, Lengths DEF Prefix
  <2> QED BY <2>1, <2>2 DEF Archived
<1> QED BY <1>2, <1>3, <1>5

(* The archive of the next state, clue by clue. *)
LEMMA ArchiveSame ==
  ASSUME Sound, Next
  PROVE  \A n \in DOMAIN archive : n \in DOMAIN archive' /\ archive'[n] = archive[n]
<1>1. TypeOK /\ TypeOK' /\ Prefix(archive, archive')
  BY NextTyped, StepGrows DEF Sound
<1>2. Len(archive') \in Nat /\ DOMAIN archive' = 1..Len(archive')
  BY <1>1, LenProperties DEF TypeOK
<1> QED BY <1>1, <1>2, Lengths DEF Prefix

(* What is left to show of a step: the coroutines it changes know the      *)
(* truth, the watermark it sets is archived, and the milestone it          *)
(* announces is a first clue.                                              *)
LEMMA SoundStep ==
  ASSUME Sound, Next,
         \A k \in DOMAIN tasks' : \/ k \in DOMAIN tasks /\ tasks'[k] = tasks[k]
                                 \/ SoundTask(tasks'[k], log', archive'),
         watermark' = watermark \/ Archived(watermark)',
         \A a \in announced' : \/ a \in announced
                               \/ \E n \in DOMAIN archive' :
                                    /\ archive'[n].msg = a.msg
                                    /\ \A i \in 1..(n - 1) : archive'[i].author # a.author
  PROVE  Sound'
<1>1. /\ TypeOK /\ TypeOK' /\ Posted' /\ LogStep /\ ArchiveStep
      /\ Prefix(log, log') /\ Prefix(archive, archive')
      /\ \A m : Archived(m) => Archived(m)'
  BY NextTyped, StepGrows DEF Sound
<1>2. /\ Len(archive') \in Nat /\ DOMAIN archive' = 1..Len(archive')
      /\ Len(log') \in Nat /\ Len(log) \in Nat /\ Len(log) <= Len(log')
      /\ archive' \in Seq(Row) /\ log' \in Seq(Entry)
      /\ archive \in Seq(Row) /\ log \in Seq(Entry)
  BY <1>1, LenProperties DEF TypeOK, Prefix
<1>3. \A n \in DOMAIN archive : n \in DOMAIN archive' /\ archive'[n] = archive[n]
  BY ArchiveSame
<1>4. TasksSound'
  <2> SUFFICES ASSUME NEW k \in DOMAIN tasks'
               PROVE  SoundTask(tasks'[k], log', archive')
    BY DEF TasksSound
  <2>1. CASE k \in DOMAIN tasks /\ tasks'[k] = tasks[k]
    <3>1. tasks[k] \in Task /\ SoundTask(tasks[k], log, archive)
      BY <1>1, <2>1, LiveTask DEF Sound, TasksSound
    <3> QED BY <1>1, <1>2, <2>1, <3>1, PrefixKeeps
  <2>2. CASE SoundTask(tasks'[k], log', archive')
    BY <2>2
  <2> QED BY <2>1, <2>2
<1>5. IngestedOnce' /\ ArchivePosted'
  <2>1. CASE archive' = archive
    <3>1. IngestedOnce'
      BY <2>1 DEF Sound, IngestedOnce
    <3> SUFFICES ASSUME NEW n \in DOMAIN archive
                 PROVE  archive[n].msg <= Len(log')
      BY <2>1, <3>1 DEF ArchivePosted
    <3>2. archive[n] \in Row /\ archive[n].msg <= Len(log)
      BY <1>1, <1>2, Lengths, ElementOfSeq DEF Sound, ArchivePosted
    <3> QED BY <1>2, <3>2 DEF Row
  <2>2. CASE archive' # archive
    <3>1. PICK r \in Row : /\ archive' = Append(archive, r)
                           /\ r.msg <= Len(log)
                           /\ r.msg # NoMessage => ~InArchive(archive, r.msg)
      BY <1>1, <2>2 DEF ArchiveStep
    <3>2. /\ DOMAIN archive' = 1..(Len(archive) + 1) /\ archive'[Len(archive) + 1] = r
          /\ Len(archive) \in Nat /\ DOMAIN archive = 1..Len(archive)
      BY <1>2, <3>1, GrownSequence
    <3>3. IngestedOnce'
      BY <1>3, <3>1, <3>2 DEF Sound, IngestedOnce, InArchive
    <3>4. ArchivePosted'
      <4> SUFFICES ASSUME NEW n \in DOMAIN archive'
                   PROVE  archive'[n].msg <= Len(log')
        BY DEF ArchivePosted
      <4>1. archive'[n].msg \in Nat
        <5>1. archive'[n] \in Row
          BY <1>2, ElementOfSeq
        <5> QED BY <5>1 DEF Row
      <4>2. archive'[n].msg <= Len(log)
        BY <1>3, <3>1, <3>2 DEF Sound, ArchivePosted
      <4> QED BY <1>2, <4>1, <4>2
    <3> QED BY <3>3, <3>4
  <2> QED BY <2>1, <2>2
<1>6. WatermarkArchived'
  BY <1>1 DEF Sound, WatermarkArchived
<1>7. FirstClueIsFirst'
  <2> SUFFICES ASSUME NEW a \in announced, a \in announced'
               PROVE  \E n \in DOMAIN archive' :
                        /\ archive'[n].msg = a.msg
                        /\ \A i \in 1..(n - 1) : archive'[i].author # a.author
    BY DEF FirstClueIsFirst
  <2>1. PICK n \in DOMAIN archive :
          /\ archive[n].msg = a.msg
          /\ \A i \in 1..(n - 1) : archive[i].author # a.author
    BY DEF Sound, FirstClueIsFirst
  <2>2. \A i \in 1..(n - 1) : i \in DOMAIN archive
    BY <1>1, Lengths
  <2> QED BY <1>3, <2>1, <2>2
<1> QED BY <1>1, <1>4, <1>5, <1>6, <1>7 DEF Sound

(* A step of a coroutine keeps what is known of it: the number read is one *)
(* past the archive, and a commit that does not collide finds it so still. *)
LEMMA CoroutineSound ==
  ASSUME Sound, NEW k \in DOMAIN tasks, Coroutine(k)
  PROVE  Sound'
<1>1. Next
  BY DEF Next, Loop
<1>2. /\ TypeOK /\ TypeOK' /\ SoundTask(tasks[k], log, archive) /\ tasks[k] \in Task
      /\ Len(archive) \in Nat /\ DOMAIN archive = 1..Len(archive) /\ log' = log
  <2>1. log' = log
    BY DEF Coroutine, CheckDuplicate, OnClue, ReadNumber, Commit, SetWatermark, Announce
  <2> QED BY <1>1, <2>1, NextTyped, LiveTask, Lengths DEF Sound, TasksSound
<1>3. tasks[k].pc \in Pc => tasks[k] \in Live /\ tasks[k] # Ended
  BY <1>2, LiveTask
<1>4. ASSUME NEW t, Becomes(k, t), SoundTask(t, log', archive'),
             watermark' = watermark \/ Archived(watermark)', announced' = announced
      PROVE  Sound'
  <2>1. \A j \in DOMAIN tasks' : \/ j \in DOMAIN tasks /\ tasks'[j] = tasks[j]
                                \/ SoundTask(tasks'[j], log', archive')
    BY <1>4 DEF Becomes
  <2> QED BY <1>1, <1>4, <2>1, SoundStep
<1>5. SoundTask(Ended, log', archive')
  BY DEF SoundTask
<1>6. ASSUME End(k), watermark' = watermark, announced' = announced
      PROVE  Sound'
  BY <1>2, <1>4, <1>5, <1>6, EndTask
<1>7. CASE CheckDuplicate(k)
  <2>1. UNCHANGED <<archive, watermark, announced>> /\ tasks[k].pc = "queued"
    BY <1>7 DEF CheckDuplicate
  <2>2. CASE Archived(tasks[k].msg)
    BY <1>6, <1>7, <2>1, <2>2 DEF CheckDuplicate
  <2>3. CASE ~Archived(tasks[k].msg)
    <3> DEFINE t == [tasks[k] EXCEPT !.pc = "checked"]
    <3>1. Becomes(k, t)
      BY <1>2, <1>7, <2>1, <2>3, GotoTask DEF CheckDuplicate, Pc
    <3>2. t.pc = "checked" /\ t.msg = tasks[k].msg /\ tasks[k] # Ended
      BY <1>3, <2>1 DEF Live, Pc
    <3>3. SoundTask(t, log', archive')
      BY <1>2, <3>2 DEF SoundTask
    <3> QED BY <1>4, <2>1, <3>1, <3>3
  <2> QED BY <2>2, <2>3
<1>8. CASE OnClue(k)
  <2> DEFINE t == [tasks[k] EXCEPT !.pc = "opened"]
  <2>1. UNCHANGED <<archive, watermark, announced>> /\ tasks[k].pc = "checked"
    BY <1>8 DEF OnClue
  <2>2. Becomes(k, t)
    BY <1>2, <1>8, <2>1, GotoTask DEF OnClue, Pc
  <2>3. t.pc = "opened" /\ t.msg = tasks[k].msg /\ tasks[k] # Ended
    BY <1>3, <2>1 DEF Live, Pc
  <2>4. SoundTask(t, log', archive')
    BY <1>2, <2>3 DEF SoundTask
  <2> QED BY <1>4, <2>1, <2>2, <2>4
<1>9. CASE ReadNumber(k)
  <2> DEFINE u == log[tasks[k].msg].user
             c == AuthorCount(u, Len(archive))
             t == [tasks[k] EXCEPT !.pc = "numbered", !.number = Len(archive) + 1, !.pill = c + 1]
  <2>1. UNCHANGED <<archive, watermark, announced>> /\ tasks[k].pc = "opened"
    BY <1>9 DEF ReadNumber
  <2>2. c \in Nat /\ (c = 0 => \A i \in 1..Len(archive) : archive[i].author # u)
    BY <1>2, CountTyped
  <2>3. tasks[k] \in Live /\ tasks[k] # Ended
    BY <1>3, <2>1 DEF Pc
  <2>4. tasks' = [tasks EXCEPT ![k] = t]
    BY <1>9 DEF ReadNumber
  <2> HIDE DEF c, u
  <2>5. /\ t.pc = "numbered" /\ t.msg = tasks[k].msg /\ t.number = Len(archive) + 1
        /\ t.pill = c + 1 /\ t \in Live /\ t \in Task
    <3>1. Len(archive) + 1 \in Nat /\ c + 1 \in Nat
      BY <1>2, <2>2
    <3> QED BY <2>3, <3>1 DEF Live, Pc, Task
  <2>6. Becomes(k, t)
    BY <1>2, <2>4, <2>5, WriteTask
  <2> HIDE DEF t
  <2>7. t.pill = 1 => FirstBelow(t, log, archive)
    BY <1>2, <2>2, <2>5 DEF FirstBelow, u
  <2>8. SoundTask(t, log', archive')
    BY <1>2, <2>1, <2>3, <2>5, <2>7 DEF SoundTask
  <2> QED BY <1>4, <2>1, <2>6, <2>8
<1>10. CASE Commit(k)
  <2>1. UNCHANGED <<watermark, announced>> /\ tasks[k].pc = "numbered"
    BY <1>10 DEF Commit
  <2>2. CASE Collides(k)
    BY <1>6, <1>10, <2>1, <2>2 DEF Commit
  <2>3. CASE ~Collides(k)
    <3> DEFINE t == [tasks[k] EXCEPT !.pc = "committed"]
               r == [msg |-> tasks[k].msg, author |-> log[tasks[k].msg].user]
    <3>1. Becomes(k, t)
      BY <1>2, <1>10, <2>1, <2>3, GotoTask DEF Commit, Pc
    <3>2. tasks[k] \in Live /\ tasks[k] # Ended
      BY <1>3, <2>1 DEF Pc
    <3>3. t.pc = "committed" /\ t.msg = tasks[k].msg /\ t.number = tasks[k].number /\ t.pill = tasks[k].pill
      BY <3>2 DEF Live
    <3>4. archive' = Append(archive, r)
      BY <1>10, <2>3 DEF Commit
    <3>5. /\ tasks[k].number = Len(archive) + 1
          /\ tasks[k].pill = 1 => FirstBelow(tasks[k], log, archive)
          /\ tasks[k].msg \in 1..Len(log) /\ Decide(log[tasks[k].msg].text)
      BY <1>2, <2>1, <2>3, <3>2 DEF SoundTask, Collides
    <3>6. DOMAIN archive' = 1..(Len(archive) + 1) /\ archive'[Len(archive) + 1] = r
      <4>1. r \in Row
        <5>1. log[tasks[k].msg] \in Entry
          BY <1>2, <3>5, ElementOfSeq DEF TypeOK
        <5> QED BY <3>2, <5>1 DEF Live, Entry, Row
      <4>2. archive \in Seq(Row)
        BY <1>2 DEF TypeOK
      <4> HIDE DEF r
      <4> QED BY <3>4, <4>1, <4>2, GrownSequence
    <3>7. \A n \in DOMAIN archive : archive'[n] = archive[n]
      BY <1>1, ArchiveSame
    <3>8. t.pill = 1 => FirstBelow(t, log', archive')
      <4> HIDE DEF t
      <4> QED BY <1>2, <3>3, <3>5, <3>7 DEF FirstBelow
    <3>9. SoundTask(t, log', archive')
      <4> HIDE DEF t
      <4> QED BY <1>2, <3>3, <3>5, <3>6, <3>8 DEF SoundTask
    <3> QED BY <1>4, <2>1, <3>1, <3>9
  <2> QED BY <2>2, <2>3
<1>11. CASE SetWatermark(k)
  <2> DEFINE t == [tasks[k] EXCEPT !.pc = "marked"]
  <2>1. UNCHANGED <<archive, announced>> /\ tasks[k].pc = "committed" /\ watermark' = tasks[k].msg
    BY <1>11 DEF SetWatermark
  <2>2. Becomes(k, t)
    BY <1>2, <1>11, <2>1, GotoTask DEF SetWatermark, Pc
  <2>3. tasks[k] \in Live /\ tasks[k] # Ended
    BY <1>3, <2>1 DEF Pc
  <2>4. t.pc = "marked" /\ t.msg = tasks[k].msg /\ t.number = tasks[k].number /\ t.pill = tasks[k].pill
    BY <2>3 DEF Live
  <2> HIDE DEF t
  <2>5. SoundTask(t, log', archive')
    BY <1>2, <2>1, <2>3, <2>4 DEF SoundTask, FirstBelow
  <2>6. Archived(watermark)'
    BY <1>2, <2>1, <2>3 DEF SoundTask, Archived
  <2> QED BY <1>4, <2>1, <2>2, <2>5, <2>6
<1>12. CASE Announce(k)
  <2>1. UNCHANGED <<archive, watermark>> /\ tasks[k].pc = "marked" /\ End(k)
    BY <1>12 DEF Announce
  <2>2. \A j \in DOMAIN tasks' : \/ j \in DOMAIN tasks /\ tasks'[j] = tasks[j]
                                \/ SoundTask(tasks'[j], log', archive')
    BY <1>2, <1>5, <2>1, EndTask DEF Becomes
  <2>3. tasks[k] # Ended
    BY <1>3, <2>1 DEF Pc
  <2>4. ASSUME NEW a \in announced', a \notin announced
        PROVE  \E n \in DOMAIN archive' : /\ archive'[n].msg = a.msg
                                         /\ \A i \in 1..(n - 1) : archive'[i].author # a.author
    <3>1. tasks[k].pill = 1 /\ a.msg = tasks[k].msg /\ a.author = log[tasks[k].msg].user
      BY <1>12, <2>4 DEF Announce, Milestone
    <3>2. /\ tasks[k].number \in DOMAIN archive /\ archive[tasks[k].number].msg = a.msg
          /\ FirstBelow(tasks[k], log, archive)
      BY <1>2, <2>1, <2>3, <3>1 DEF SoundTask
    <3> QED BY <2>1, <3>1, <3>2 DEF FirstBelow
  <2> QED BY <1>1, <2>1, <2>2, <2>4, SoundStep
<1> QED BY <1>7, <1>8, <1>9, <1>10, <1>11, <1>12 DEF Coroutine

(* Every step keeps what holds in any chat: the unique index is what keeps *)
(* IngestedOnce, and what the coroutines know keeps the rest.              *)
LEMMA NextSound == Sound /\ [Next]_vars => Sound'
<1> SUFFICES ASSUME Sound, [Next]_vars
             PROVE  Sound'
  OBVIOUS
<1>1. CASE UNCHANGED vars
  BY <1>1 DEF Sound, TypeOK, Posted, TasksSound, IngestedOnce, ArchivePosted, WatermarkArchived,
              Archived, FirstClueIsFirst, Message, vars, memory, counts
<1>2. CASE Next
  <2>1. ASSUME NEW k \in DOMAIN tasks, Coroutine(k)
        PROVE  Sound'
    BY <2>1, CoroutineSound
  <2>2. CASE ~\E k \in DOMAIN tasks : Coroutine(k)
    <3>1. /\ watermark' = watermark /\ announced' = announced
      BY <1>2, <2>2 DEF Next, RoomThread, Deliver, Redeliver, HandOver, Receive, Loop, ProcessWindow,
           WebAppend, Crash, PostUnseen, Restart, Backfill, StartBackfill, BackfillChecks,
           BackfillReads, BackfillWrites, BackfillRests
    <3>2. ASSUME NEW k \in DOMAIN tasks'
          PROVE  \/ k \in DOMAIN tasks /\ tasks'[k] = tasks[k]
                 \/ SoundTask(tasks'[k], log', archive')
      <4>1. CASE tasks' = tasks
        BY <4>1, <3>2
      <4>2. CASE Crash
        BY <4>2, <3>2, EmptySeq DEF Crash
      <4>3. CASE HandOver
        <5> DEFINE t == [msg |-> room.msg, pc |-> "queued", number |-> 0, pill |-> 0]
        <5>1. room.msg \in 1..Len(log') /\ t \in Task /\ tasks \in Seq(Task)
          BY <4>3 DEF HandOver, Sound, Posted, TypeOK, Message, Task, Live, Pc
        <5>2. IsClue(room.msg) => SoundTask(t, log', archive')
          BY <4>3, <5>1 DEF HandOver, SoundTask, IsClue
        <5> HIDE DEF t
        <5>3. /\ DOMAIN Append(tasks, t) = 1..(Len(tasks) + 1) /\ Append(tasks, t)[Len(tasks) + 1] = t
              /\ \A i \in 1..Len(tasks) : Append(tasks, t)[i] = tasks[i]
              /\ Len(tasks) \in Nat /\ DOMAIN tasks = 1..Len(tasks)
          BY <5>1, GrownSequence DEF Prefix
        <5>4. tasks' = tasks \/ (IsClue(room.msg) /\ tasks' = Append(tasks, t))
          BY <4>3 DEF HandOver, t
        <5> QED BY <3>2, <4>1, <5>2, <5>3, <5>4
      <4> QED BY <1>2, <2>2, <4>1, <4>2, <4>3 DEF Next, RoomThread, Deliver, Redeliver, Receive,
           Loop, ProcessWindow, WebAppend, PostUnseen, Restart, memory, Backfill, StartBackfill,
           BackfillChecks, BackfillReads, BackfillWrites, BackfillRests
    <3> QED BY <1>2, <3>1, <3>2, SoundStep DEF FirstClueIsFirst
  <2> QED BY <2>1, <2>2
<1> QED BY <1>1, <1>2

(* Nothing has happened yet.                                               *)
LEMMA InitSound == Init => Sound
<1> SUFFICES ASSUME Init PROVE Sound
  OBVIOUS
<1>1. /\ log \in Seq(Entry) /\ tasks \in Seq(Task) /\ windows \in Seq(Window) /\ archive \in Seq(Row)
      /\ Len(log) = 0 /\ Len(windows) = 0
      /\ DOMAIN tasks = {} /\ DOMAIN archive = {}
  BY EmptySeq DEF Init
<1>2. TypeOK
  BY <1>1 DEF Init, TypeOK, Idle, NoMessage, AtRest
<1>3. Posted
  BY <1>1 DEF Init, Posted, Idle, NoMessage, AtRest
<1> QED BY <1>1, <1>2, <1>3 DEF Init, Sound, TasksSound, IngestedOnce, ArchivePosted,
           WatermarkArchived, NoMessage, FirstClueIsFirst

(* What holds in any chat, however deliveries, coroutines, crashes, the    *)
(* web app and the backfill interleave.                                    *)
THEOREM IngestSound == Spec => []Sound
BY InitSound, NextSound, PTL DEF Spec

(* A chat message becomes at most one clue.                                *)
THEOREM IngestedAtMostOnce == Spec => []IngestedOnce
<1>1. Sound => IngestedOnce
  BY DEF Sound
<1> QED BY <1>1, IngestSound, PTL

(* The watermark names a clue that is in the archive.                      *)
THEOREM WatermarkIsArchived == Spec => []WatermarkArchived
<1>1. Sound => WatermarkArchived
  BY DEF Sound
<1> QED BY <1>1, IngestSound, PTL

(* A milestone for a first clue is announced only of the author's lowest   *)
(* clue.                                                                   *)
THEOREM MilestoneIsFirst == Spec => []FirstClueIsFirst
<1>1. Sound => FirstClueIsFirst
  BY DEF Sound
<1> QED BY <1>1, IngestSound, PTL

-----------------------------------------------------------------------------
(* The quiet chat *)

(* The last window is the open one, and a daemon that is down has nothing. *)
Daemon ==
  /\ ~up => room = Idle /\ tasks = <<>> /\ windows = <<>>
  /\ crashes = 0 => up
  /\ \A w \in DOMAIN windows : windows[w].clue \in Message
  /\ \A w \in DOMAIN windows : (windows[w].fate = "open" <=> w = Len(windows))

(* One thing at a time: a message in the room thread, one coroutine, or    *)
(* the backfill.                                                           *)
Alone ==
  /\ \A j, k \in DOMAIN tasks : ~Settled(j) /\ ~Settled(k) => j = k
  /\ room # Idle => (\A k \in DOMAIN tasks : Settled(k)) /\ backfill.pc = "off"
  /\ backfill.pc # "off" => \A k \in DOMAIN tasks : Settled(k)

(* What a coroutine found missing from the archive still is, and nothing   *)
(* that comes for the first time is there.                                 *)
NotYet ==
  /\ \A k \in DOMAIN tasks :
       tasks[k].pc \in {"checked", "opened", "numbered"} => ~InArchive(archive, tasks[k].msg)
  /\ redelivered = 0 =>
       /\ room # Idle => ~InArchive(archive, room.msg)
       /\ \A k \in DOMAIN tasks : tasks[k].pc = "queued" => ~InArchive(archive, tasks[k].msg)

(* Without the web app the number that was read stays the next one. *)
NumberFree ==
  webClues = 0 =>
    /\ \A k \in DOMAIN tasks : tasks[k].pc = "numbered" => tasks[k].number = Len(archive) + 1
    /\ backfill.pc = "numbered" => backfill.number = Len(archive) + 1

(* The clue of every window is archived, or it is about to be. *)
WindowClues ==
  /\ webClues = 0 =>
       \A w \in DOMAIN windows :
         \/ InArchive(archive, windows[w].clue)
         \/ /\ w = Len(windows)
            /\ \E k \in DOMAIN tasks : /\ tasks[k].pc \in {"opened", "numbered"}
                                       /\ tasks[k].msg = windows[w].clue
  /\ \A w \in DOMAIN windows : windows[w].fate = "skipped" => webClues > 0

NothingLost ==
  crashes = 0 /\ webClues = 0 =>
    \A m \in Clues : \/ InArchive(archive, m)
                     \/ room # Idle /\ room.msg = m
                     \/ \E k \in DOMAIN tasks : ~Settled(k) /\ tasks[k].msg = m

(* The clue at work is the newest message; a repeated one is archived.     *)
Newest ==
  redelivered = 0 \/ (crashes = 0 /\ webClues = 0) =>
    /\ room # Idle /\ IsClue(room.msg) => room.msg = Len(log) \/ InArchive(archive, room.msg)
    /\ \A k \in DOMAIN tasks : ~Settled(k) =>
         \/ tasks[k].msg = Len(log)
         \/ tasks[k].pc = "queued" /\ InArchive(archive, tasks[k].msg)

(* the clue d, in the room thread r or one of the coroutines ts, has not   *)
(* closed the open window yet                                              *)
Pending(d, r, ts) ==
  \/ r # Idle /\ r.msg = d
  \/ \E k \in DOMAIN ts : ts[k].pc \in {"queued", "checked"} /\ ts[k].msg = d

Last == windows[Len(windows)]

(* The open window holds all that was handed over since its clue, which    *)
(* was the last that is not pending.                                       *)
OpenWindow ==
  redelivered = 0 /\ crashes = 0 =>
    /\ room # Idle => room.msg = Len(log) /\ room.target = Len(windows)
    /\ windows = <<>> => \A d \in Clues : Pending(d, room, tasks)
    /\ windows # <<>> =>
         /\ Last.msgs = (Last.clue + 1)..(IF room = Idle THEN Len(log) ELSE Len(log) - 1)
         /\ \A d \in Clues : d > Last.clue => Pending(d, room, tasks)
         /\ \A d \in Message : Pending(d, room, tasks) => d > Last.clue

Quiet ==
  quiet => /\ Alone /\ NotYet /\ NumberFree /\ WindowClues
           /\ NothingLost /\ Newest /\ OpenWindow

(* The backfill has something to do exactly while it runs. *)
AtWork == /\ backfill.pc = "off" => backfill.todo = {}
          /\ backfill.pc = "numbered" => backfill.number >= 1

IInv == Sound /\ Daemon /\ AtWork /\ Quiet /\ WindowIsSpan

(* A coroutine has ended exactly when it is at none of its awaits.         *)
LEMMA SettledPc ==
  ASSUME TypeOK
  PROVE  \A k \in DOMAIN tasks : Settled(k) <=> tasks[k].pc \notin Pc
<1> TAKE k \in DOMAIN tasks
<1>1. Ended.pc \notin Pc
  BY DEF Ended, Pc
<1> QED BY <1>1, LiveTask DEF Settled

(* A clue stays a clue as the log grows, and only new messages add to them. *)
LEMMA CluesGrow ==
  ASSUME Sound, Next
  PROVE  /\ Message \subseteq Message' /\ Clues \subseteq Clues'
         /\ \A m \in Message : log'[m] = log[m] /\ (IsClue(m)' <=> IsClue(m))
         /\ \A m \in Clues' : m \in Message => m \in Clues
<1>1. TypeOK /\ TypeOK' /\ Prefix(log, log')
  BY NextTyped, StepGrows DEF Sound
<1>2. Len(log) \in Nat /\ Len(log') \in Nat /\ Len(log) <= Len(log')
  BY <1>1, LenProperties DEF TypeOK, Prefix
<1>3. \A m \in Message : m \in Message' /\ log'[m] = log[m]
  BY <1>1, <1>2 DEF Message, Prefix
<1>4. \A m \in Message : IsClue(m)' <=> IsClue(m)
  BY <1>3 DEF IsClue
<1> QED BY <1>3, <1>4 DEF Clues

(* A closed window's span is settled: what is posted later does not change it. *)
LEMMA SpanStays ==
  ASSUME Sound, Next, NEW w \in Window, w.clue \in Message,
         NEW c \in Clues, Follows(c, w.clue), w.msgs = (w.clue + 1)..(c - 1),
         w.solver = {log[c].user}
  PROVE  \E d \in Clues' : /\ d > w.clue /\ \A e \in Clues' : e > w.clue => d <= e
                          /\ w.msgs = (w.clue + 1)..(d - 1)
                          /\ w.solver = {log'[d].user}
<1>1. /\ TypeOK /\ TypeOK' /\ Message \subseteq Message' /\ Clues \subseteq Clues'
      /\ \A m \in Message : log'[m] = log[m]
      /\ \A m \in Clues' : m \in Message => m \in Clues
  BY NextTyped, CluesGrow DEF Sound
<1>2. Len(log) \in Nat /\ Len(log') \in Nat /\ c \in 1..Len(log) /\ c \in Message
  BY <1>1, LenProperties DEF TypeOK, Clues, Message
<1>3. ASSUME NEW d \in Clues', d > w.clue
      PROVE  c <= d
  <2>1. CASE d \in Message
    BY <1>1, <1>3, <2>1 DEF Follows
  <2>2. CASE d \notin Message
    <3>1. d \in 1..Len(log')
      BY <1>3 DEF Clues, Message
    <3> QED BY <1>2, <2>2, <3>1 DEF Message
  <2> QED BY <2>1, <2>2
<1>4. c > w.clue
  BY DEF Follows
<1> QED BY <1>1, <1>2, <1>3, <1>4

(* What is archived after a step was so before, or it is what the step     *)
(* added.                                                                  *)
LEMMA ArchivedBefore ==
  ASSUME Sound, Next, NEW m, InArchive(archive', m)
  PROVE  \/ InArchive(archive, m)
         \/ archive' # archive /\ \E r \in Row : archive' = Append(archive, r) /\ r.msg = m
<1>1. TypeOK /\ ArchiveStep
  BY NextTyped DEF Sound
<1>2. CASE archive' = archive
  BY <1>2 DEF InArchive
<1>3. CASE archive' # archive
  <2>1. PICK r \in Row : archive' = Append(archive, r)
    BY <1>1, <1>3 DEF ArchiveStep
  <2>2. archive \in Seq(Row) 
    BY <1>1 DEF TypeOK
  <2>3. /\ DOMAIN archive' = 1..(Len(archive) + 1) /\ archive'[Len(archive) + 1] = r
        /\ \A i \in 1..Len(archive) : archive'[i] = archive[i]
        /\ Len(archive) \in Nat /\ DOMAIN archive = 1..Len(archive)
    BY <2>1, <2>2, GrownSequence DEF Prefix
  <2>4. PICK n \in DOMAIN archive' : archive'[n].msg = m
    BY DEF InArchive
  <2>5. CASE n = Len(archive) + 1
    BY <1>3, <2>1, <2>3, <2>4, <2>5
  <2>6. CASE n # Len(archive) + 1
    BY <2>3, <2>4, <2>6 DEF InArchive
  <2> QED BY <2>5, <2>6
<1> QED BY <1>2, <1>3

(* What every step can use. *)
LEMMA StepFacts ==
  ASSUME IInv, Next
  PROVE  /\ TypeOK /\ Posted /\ TypeOK' /\ Posted' /\ Sound' /\ quiet' = quiet
         /\ Len(log) \in Nat /\ Len(log') \in Nat /\ Len(log) <= Len(log')
         /\ Message = 1..Len(log) /\ Message' = 1..Len(log')
         /\ DOMAIN tasks = 1..Len(tasks) /\ Len(tasks) \in Nat
         /\ DOMAIN windows = 1..Len(windows) /\ Len(windows) \in Nat
         /\ DOMAIN windows' = 1..Len(windows') /\ Len(windows') \in Nat
         /\ Clues \subseteq Message /\ Clues \subseteq Clues' /\ Clues' \subseteq Message'
         /\ \A m \in Message : log'[m] = log[m]
         /\ \A m \in Clues' : m \in Message => m \in Clues
         /\ \A m : InArchive(archive, m) => InArchive(archive', m)
         /\ ~InArchive(archive, Len(log) + 1)
         /\ \A k \in DOMAIN tasks : Settled(k) <=> tasks[k].pc \notin Pc
<1>1. Sound /\ TypeOK /\ Posted /\ TypeOK' /\ Posted' /\ Sound' /\ Prefix(log, log')
  BY NextTyped, NextSound, StepGrows DEF IInv, Sound
<1>2. quiet' = quiet
  BY DEF Next, RoomThread, Deliver, Redeliver, HandOver, Receive, Loop, Coroutine, CheckDuplicate,
     OnClue, ReadNumber, Commit, SetWatermark, Announce, ProcessWindow, WebAppend, Crash, PostUnseen,
     Restart, Backfill, StartBackfill, BackfillChecks, BackfillReads, BackfillWrites, BackfillRests
<1>3. \A m : InArchive(archive, m) => InArchive(archive', m)
  BY <1>1, StepGrows DEF Archived, InArchive
<1>4. /\ Len(log) \in Nat /\ Len(log') \in Nat /\ Len(log) <= Len(log')
      /\ DOMAIN windows' = 1..Len(windows') /\ Len(windows') \in Nat
  BY <1>1, LenProperties DEF TypeOK, Prefix
<1>5. ~InArchive(archive, Len(log) + 1)
  BY <1>1, <1>4 DEF Sound, ArchivePosted, InArchive
<1> QED BY <1>1, <1>2, <1>3, <1>4, <1>5, Lengths, CluesGrow, SettledPc DEF Message, Clues

(* A window that no step touches keeps its span. *)
LEMMA WindowSpanStays ==
  ASSUME IInv, Next, NEW w \in Window,
         \E v \in DOMAIN windows : /\ w.clue = windows[v].clue /\ w.msgs = windows[v].msgs
                                  /\ w.solver = windows[v].solver /\ windows[v].fate # "open",
         quiet, redelivered = 0, crashes = 0
  PROVE  \E d \in Clues' : /\ d > w.clue /\ \A e \in Clues' : e > w.clue => d <= e
                          /\ w.msgs = (w.clue + 1)..(d - 1)
                          /\ w.solver = {log'[d].user}
<1>1. PICK v \in DOMAIN windows : /\ w.clue = windows[v].clue /\ w.msgs = windows[v].msgs
                                  /\ w.solver = windows[v].solver /\ windows[v].fate # "open"
  OBVIOUS
<1>2. w.clue \in Message
  BY <1>1 DEF IInv, Daemon
<1>3. PICK c \in Clues : /\ Follows(c, windows[v].clue)
                         /\ windows[v].msgs = (windows[v].clue + 1)..(c - 1)
                         /\ windows[v].solver = {log[c].user}
  BY <1>1 DEF IInv, WindowIsSpan
<1>4. Follows(c, w.clue)
  BY <1>1, <1>3 DEF Follows
<1> QED BY <1>1, <1>2, <1>3, <1>4, SpanStays DEF IInv

(* Where a step leaves the windows alone, those that are closed keep their spans. *)
LEMMA SpansStay ==
  ASSUME IInv, Next, quiet,
         redelivered' = 0 /\ crashes' = 0 => redelivered = 0 /\ crashes = 0,
         webClues' \in Nat, webClues' >= webClues,
         \A w \in DOMAIN windows' : windows'[w].fate # "open" =>
           \E v \in DOMAIN windows : /\ windows'[w].clue = windows[v].clue
                                    /\ windows'[w].solver = windows[v].solver
                                    /\ windows[v].fate # "open"
                                    /\ windows'[w].fate = windows[v].fate
                                    /\ (redelivered' = 0 /\ crashes' = 0 =>
                                          windows'[w].msgs = windows[v].msgs)
  PROVE  WindowIsSpan'
<1>1. TypeOK' /\ TypeOK /\ DOMAIN windows' = 1..Len(windows') /\ quiet' = quiet
  BY StepFacts
<1>2. ASSUME redelivered' = 0, crashes' = 0, NEW w \in DOMAIN windows', windows'[w].fate # "open"
      PROVE  \E c \in Clues' : /\ Follows(c, windows[w].clue)'
                              /\ windows'[w].msgs = (windows'[w].clue + 1)..(c - 1)
                              /\ windows'[w].solver = {log'[c].user}
  <2>1. windows'[w] \in Window
    BY <1>1, <1>2, ElementOfSeq DEF TypeOK
  <2>2. PICK x \in Window : x = windows'[w]
    BY <2>1
  <2>3. \E d \in Clues' : /\ d > x.clue /\ \A e \in Clues' : e > x.clue => d <= e
                         /\ x.msgs = (x.clue + 1)..(d - 1)
                         /\ x.solver = {log'[d].user}
    <3>1. redelivered = 0 /\ crashes = 0
      BY <1>2
    <3>2. PICK v \in DOMAIN windows : /\ x.clue = windows[v].clue /\ x.msgs = windows[v].msgs
                                      /\ x.solver = windows[v].solver
                                      /\ windows[v].fate # "open"
      BY <1>2, <2>2
    <3> QED BY <3>1, <3>2, WindowSpanStays
  <2> QED BY <2>2, <2>3 DEF Follows
<1>3. ASSUME NEW w \in DOMAIN windows', windows'[w].fate = "skipped"
      PROVE  webClues' > 0
  <2>1. webClues > 0
    <3>1. PICK v \in DOMAIN windows : windows[v].fate = "skipped"
      BY <1>3
    <3> QED BY <3>1 DEF IInv, WindowIsSpan
  <2>2. webClues \in Nat
    BY <1>1 DEF TypeOK
  <2> QED BY <2>1, <2>2
<1> QED BY <1>1, <1>2, <1>3 DEF WindowIsSpan

(* A message reaches the room thread of a quiet chat only when everything  *)
(* before it is done.                                                      *)
LEMMA ReceiveQuiet ==
  ASSUME IInv, quiet, Deliver \/ Redeliver
  PROVE  Daemon' /\ Quiet' /\ WindowIsSpan'
<1>1. Next
  BY DEF Next, RoomThread
<1> USE StepFacts
<1>2. ~Busy /\ up /\ room = Idle
  BY DEF Deliver, Redeliver, Receive
<1>3. backfill.pc = "off" /\ \A k \in DOMAIN tasks : Settled(k) /\ tasks[k].pc \notin Pc
  BY <1>1, <1>2 DEF Busy
<1>4. UNCHANGED <<quiet, tasks, windows, archive, watermark, announced, backfill, up,
                  crashes, webClues, backfills>>
  BY DEF Deliver, Redeliver, Receive
<1>5. /\ redelivered' = 0 => redelivered = 0 /\ Deliver
      /\ redelivered \in Nat /\ webClues \in Nat
  <2>1. redelivered \in Nat /\ webClues \in Nat
    BY <1>1 DEF TypeOK
  <2> QED BY <2>1 DEF Deliver, Redeliver
<1>6. Deliver => room'.msg = Len(log) + 1 /\ room'.target = Len(windows) /\ Len(log') = Len(log) + 1
  BY <1>1, PostStep DEF Deliver, Receive
<1>7. Redeliver => log' = log /\ room'.msg \in Message
  BY DEF Redeliver, Receive
<1>8. room' # Idle /\ room'.msg \in Message'
  BY <1>1, <1>6, <1>7 DEF Idle, NoMessage
<1>9. Daemon'
  BY <1>1, <1>2, <1>4 DEF IInv, Daemon
<1>10. Alone'
  BY <1>3, <1>4 DEF Alone, Settled
<1>11. NotYet'
  BY <1>1, <1>3, <1>4, <1>5, <1>6 DEF NotYet, Pc
<1>12. NumberFree' /\ WindowClues'
  BY <1>4 DEF IInv, Quiet, NumberFree, WindowClues
<1>13. NothingLost'
  <2> SUFFICES ASSUME crashes = 0, webClues = 0, NEW m \in Clues', room'.msg # m
               PROVE  InArchive(archive, m)
    BY <1>4, <1>8 DEF NothingLost
  <2>1. m \in Clues
    BY <1>1, <1>6, <1>7
  <2> QED BY <1>2, <1>3, <2>1 DEF IInv, Quiet, NothingLost
<1>14. Newest'
  <2> SUFFICES ASSUME redelivered' = 0 \/ (crashes = 0 /\ webClues = 0), IsClue(room.msg)',
                      room'.msg # Len(log')
               PROVE  InArchive(archive, room'.msg)
    BY <1>1, <1>3, <1>4 DEF Newest, Settled
  <2>1. Redeliver /\ crashes = 0 /\ webClues = 0
    BY <1>5, <1>6
  <2>2. room'.msg \in Clues
    BY <1>7, <2>1 DEF Clues, IsClue
  <2> QED BY <1>2, <1>3, <2>1, <2>2 DEF IInv, Quiet, NothingLost
<1>15. OpenWindow'
  <2> SUFFICES ASSUME redelivered' = 0, crashes = 0
               PROVE  OpenWindow'
    BY <1>4 DEF OpenWindow
  <2>1. OpenWindow /\ redelivered = 0 /\ Deliver
    BY <1>5 DEF IInv, Quiet
  <2>2. \A d : ~Pending(d, room, tasks) /\ (Pending(d, room', tasks') <=> d = Len(log) + 1)
    BY <1>2, <1>3, <1>4, <1>6, <1>8, <2>1 DEF Pending, Pc
  <2>3. \A d \in Clues' : d \in Clues \/ d = Len(log) + 1
    BY <1>1, <1>6, <2>1
  <2>4. windows # <<>> => Last.clue \in Message /\ Last = Last'
    <3>1. Last = Last'
      BY <1>4 DEF Last
    <3>2. windows # <<>> => Len(windows) \in DOMAIN windows
      BY <1>1, EmptySeq DEF TypeOK
    <3>3. \A w \in DOMAIN windows : windows[w].clue \in Message
      BY DEF IInv, Daemon
    <3> QED BY <3>1, <3>2, <3>3 DEF Last
  <2>5. Len(log') - 1 = Len(log) /\ Len(log) + 1 = Len(log')
    BY <1>1, <1>6, <2>1
  <2>6. room'.msg = Len(log') /\ room'.target = Len(windows')
    BY <1>4, <1>6, <2>1
  <2>7. windows = <<>> => \A d \in Clues' : Pending(d, room', tasks')
    BY <1>2, <2>1, <2>2, <2>3 DEF OpenWindow
  <2>8. ASSUME windows # <<>>
        PROVE  /\ Last'.msgs = (Last'.clue + 1)..(Len(log') - 1)
               /\ \A d \in Clues' : d > Last'.clue => Pending(d, room', tasks')
               /\ \A d \in Message' : Pending(d, room', tasks') => d > Last'.clue
    <3>1. Last'.msgs = (Last'.clue + 1)..(Len(log') - 1)
      BY <1>2, <2>1, <2>4, <2>5, <2>8 DEF OpenWindow
    <3>2. \A d \in Clues' : d > Last'.clue => Pending(d, room', tasks')
      BY <2>1, <2>2, <2>3, <2>4, <2>8 DEF OpenWindow
    <3>3. Len(log) + 1 > Last'.clue
      BY <1>1, <2>4, <2>8
    <3> QED BY <2>2, <3>1, <3>2, <3>3
  <2> QED BY <1>4, <1>8, <2>6, <2>7, <2>8 DEF OpenWindow
<1>16. WindowIsSpan'
  BY <1>1, <1>4, <1>5, SpansStay
<1> QED BY <1>9, <1>10, <1>11, <1>12, <1>13, <1>14, <1>15, <1>16 DEF Quiet

(* The hand-over puts the message into the open window, and on the loop if *)
(* it is a clue.                                                           *)
LEMMA HandOverQuiet ==
  ASSUME IInv, quiet, HandOver
  PROVE  Daemon' /\ Quiet' /\ WindowIsSpan'
<1>1. Next
  BY DEF Next, RoomThread
<1> USE StepFacts
<1> DEFINE m == room.msg
           t == [msg |-> m, pc |-> "queued", number |-> 0, pill |-> 0]
<1>2. up /\ room # Idle /\ room' = Idle
  BY DEF HandOver
<1>3. backfill.pc = "off" /\ \A k \in DOMAIN tasks : Settled(k) /\ tasks[k].pc \notin Pc
  BY <1>1, <1>2 DEF IInv, Quiet, Alone
<1>4. UNCHANGED <<quiet, log, archive, watermark, announced, backfill, up, redelivered, crashes, webClues, backfills>>
  BY DEF HandOver, counts
<1>5. m \in Message /\ m \in Nat /\ t # Ended /\ t.pc = "queued" /\ t.msg = m
  BY <1>1, <1>2 DEF Posted, Ended
<1>6. \/ ~IsClue(m) /\ tasks' = tasks
      \/ /\ IsClue(m)
         /\ DOMAIN tasks' = 1..(Len(tasks) + 1) /\ tasks'[Len(tasks) + 1] = t
         /\ \A k \in DOMAIN tasks : tasks'[k] = tasks[k]
  <2>1. tasks \in Seq(Task) /\ t \in Task
    BY <1>1, <1>5 DEF TypeOK, Task, Live, Pc
  <2> HIDE DEF t
  <2>2. /\ DOMAIN Append(tasks, t) = 1..(Len(tasks) + 1) /\ Append(tasks, t)[Len(tasks) + 1] = t
        /\ \A k \in DOMAIN tasks : Append(tasks, t)[k] = tasks[k]
    BY <1>1, <2>1, GrownSequence DEF Prefix
  <2>3. tasks' = IF IsClue(m) THEN Append(tasks, t) ELSE tasks
    BY DEF HandOver, t
  <2> QED BY <2>2, <2>3
<1> HIDE DEF m, t
<1>7. \A k \in DOMAIN tasks' : (k \in DOMAIN tasks /\ tasks'[k] = tasks[k]) \/ (k = Len(tasks) + 1 /\ tasks'[k] = t)
  BY <1>1, <1>6
<1>8. /\ DOMAIN windows' = DOMAIN windows /\ Len(windows') = Len(windows)
      /\ \A w \in DOMAIN windows :
           /\ windows'[w].clue = windows[w].clue /\ windows'[w].solver = windows[w].solver
           /\ windows'[w].fate = windows[w].fate
           /\ windows'[w] = windows[w] \/ (w = room.target /\ windows'[w].msgs = windows[w].msgs \cup {m})
      /\ room.target # 0 /\ windows[room.target].fate = "open" =>
           windows'[room.target].msgs = windows[room.target].msgs \cup {m}
  <2>1. CASE UNCHANGED windows /\ (room.target # 0 => windows[room.target].fate # "open")
    BY <2>1
  <2>2. CASE room.target # 0 /\ windows' = [windows EXCEPT ![room.target].msgs = @ \cup {m}]
    <3>1. room.target \in DOMAIN windows
      BY <1>1, <2>2 DEF Posted, TypeOK
    <3>2. windows \in Seq(Window) /\ windows[room.target] \in Window
      BY <1>1, <3>1, ElementOfSeq DEF TypeOK
    <3> DEFINE v == [windows[room.target] EXCEPT !.msgs = @ \cup {m}]
    <3>3. /\ v.clue = windows[room.target].clue /\ v.solver = windows[room.target].solver
          /\ v.fate = windows[room.target].fate /\ v.msgs = windows[room.target].msgs \cup {m}
      BY <3>2 DEF Window
    <3>4. windows' = [windows EXCEPT ![room.target] = v]
      BY <2>2
    <3> HIDE DEF v
    <3>5. /\ DOMAIN windows' = DOMAIN windows /\ windows'[room.target] = v
          /\ \A w \in DOMAIN windows \ {room.target} : windows'[w] = windows[w]
      BY <3>1, <3>4
    <3>6. Len(windows') = Len(windows)
      BY <1>1, <3>5
    <3> QED BY <3>3, <3>5, <3>6
  <2> QED BY <2>1, <2>2 DEF HandOver, m
<1>9. Daemon'
  BY <1>1, <1>2, <1>4, <1>8 DEF IInv, Daemon
<1>10. Alone'
  BY <1>2, <1>3, <1>4, <1>7 DEF Alone, Settled
<1>11. NotYet'
  BY <1>2, <1>3, <1>4, <1>5, <1>7 DEF IInv, Quiet, NotYet, Pc, m
<1>12. NumberFree'
  BY <1>3, <1>4, <1>5, <1>7 DEF NumberFree, Pc
<1>13. WindowClues'
  <2>1. WindowClues
    BY DEF IInv, Quiet
  <2> QED BY <1>3, <1>4, <1>8, <2>1 DEF WindowClues, Pc
<1>14. NothingLost'
  <2> SUFFICES ASSUME crashes = 0, webClues = 0, NEW d \in Clues', ~InArchive(archive, d)
               PROVE  \E k \in DOMAIN tasks' : ~Settled(k)' /\ tasks'[k].msg = d
    BY <1>2, <1>4 DEF NothingLost
  <2>1. d \in Clues /\ d = m
    BY <1>3, <1>4 DEF IInv, Quiet, NothingLost, m, Clues, IsClue, Message
  <2>2. IsClue(m)
    BY <2>1 DEF Clues
  <2>3. Len(tasks) + 1 \in DOMAIN tasks'
    BY <1>1, <1>6, <2>2
  <2> QED BY <1>5, <1>6, <2>1, <2>2, <2>3 DEF Settled
<1>15. Newest'
  <2> SUFFICES ASSUME redelivered = 0 \/ (crashes = 0 /\ webClues = 0), 
                      NEW k \in DOMAIN tasks', tasks'[k] # Ended
               PROVE  \/ tasks'[k].msg = Len(log)
                      \/ tasks'[k].pc = "queued" /\ InArchive(archive, tasks'[k].msg)
    BY <1>2, <1>4 DEF Newest, Settled
  <2>1. tasks'[k] = t /\ IsClue(m)
    BY <1>3, <1>6, <1>7 DEF Settled
  <2> QED BY <1>2, <1>5, <2>1 DEF IInv, Quiet, Newest, m
<1>16. OpenWindow'
  <2> SUFFICES ASSUME redelivered = 0, crashes = 0
               PROVE  OpenWindow'
    BY <1>4 DEF OpenWindow
  <2>1. m = Len(log) /\ room.target = Len(windows) /\ OpenWindow
    BY <1>2 DEF IInv, Quiet, OpenWindow, m
  <2>2. \A d : /\ Pending(d, room, tasks) <=> d = m
               /\ Pending(d, room', tasks') <=> d = m /\ IsClue(m)
    <3>1. \A k \in DOMAIN tasks : tasks[k].pc \notin {"queued", "checked"}
      BY <1>3 DEF Pc
    <3>2. room # Idle /\ room.msg = m /\ room' = Idle
      BY <1>2, <1>3 DEF m
    <3>3. \A k \in DOMAIN tasks' :
            tasks'[k].pc \in {"queued", "checked"} <=> IsClue(m) /\ k = Len(tasks) + 1
      BY <1>5, <1>6, <1>7, <3>1
    <3>4. IsClue(m) => Len(tasks) + 1 \in DOMAIN tasks' /\ tasks'[Len(tasks) + 1].msg = m
      BY <1>1, <1>5, <1>6
    <3> QED BY <3>1, <3>2, <3>3, <3>4 DEF Pending
  <2>3. \A d \in Clues' : d \in Clues /\ IsClue(d)
    BY <1>4 DEF Clues, IsClue, Message
  <2>4. CASE windows = <<>>
    <3>1. windows' = <<>>
      BY <1>1, <1>8, <2>4, EmptySeq DEF TypeOK
    <3> QED BY <1>2, <1>4, <2>1, <2>2, <2>3, <2>4, <3>1 DEF OpenWindow
  <2>5. CASE windows # <<>>
    <3>1. Len(windows) \in DOMAIN windows /\ Len(windows) # 0
      BY <1>1, <2>5, EmptySeq DEF TypeOK
    <3>2. /\ Last'.clue = Last.clue /\ Last'.msgs = Last.msgs \cup {m}
          /\ Last.clue \in Message
      BY <1>8, <2>1, <3>1 DEF IInv, Daemon, Last
    <3>3. m > Last.clue /\ Last.msgs = (Last.clue + 1)..(Len(log) - 1)
      BY <1>2, <1>5, <2>1, <2>2, <2>5 DEF OpenWindow
    <3>4. Last'.msgs = (Last'.clue + 1)..Len(log)
      BY <1>1, <2>1, <3>2, <3>3
    <3>5. \A d \in Clues' : d > Last'.clue => Pending(d, room', tasks')
      BY <2>1, <2>2, <2>3, <2>5, <3>2 DEF OpenWindow
    <3>6. \A d \in Message' : Pending(d, room', tasks') => d > Last'.clue
      BY <2>2, <3>2, <3>3
    <3>7. windows' # <<>>
      BY <1>8, <3>1
    <3> QED BY <1>2, <1>4, <3>4, <3>5, <3>6, <3>7 DEF OpenWindow
  <2> QED BY <2>4, <2>5
<1>17. WindowIsSpan'
  <2>1. ASSUME NEW w \in DOMAIN windows', windows'[w].fate # "open"
        PROVE  /\ w \in DOMAIN windows /\ windows[w].fate # "open"
               /\ windows'[w].clue = windows[w].clue /\ windows'[w].solver = windows[w].solver
               /\ windows'[w].fate = windows[w].fate
               /\ redelivered' = 0 /\ crashes' = 0 => windows'[w].msgs = windows[w].msgs
    <3>1. w \in DOMAIN windows /\ windows[w].fate # "open" /\ w # Len(windows)
      BY <1>8, <2>1 DEF IInv, Daemon
    <3>2. redelivered = 0 /\ crashes = 0 => room.target = Len(windows)
      BY <1>2 DEF IInv, Quiet, OpenWindow
    <3> QED BY <1>4, <1>8, <3>1, <3>2
  <2>2. webClues' \in Nat /\ webClues' >= webClues
    BY <1>1, <1>4 DEF TypeOK
  <2> QED BY <1>1, <1>4, <2>1, <2>2, SpansStay
<1> QED BY <1>9, <1>10, <1>11, <1>12, <1>13, <1>14, <1>15, <1>16, <1>17 DEF Quiet

(* A coroutine of a quiet chat is alone, and moves nothing but itself, the *)
(* windows, the archive, the watermark and the announcements.              *)
LEMMA AloneFacts ==
  ASSUME IInv, quiet, NEW k \in DOMAIN tasks, Coroutine(k)
  PROVE  /\ Next
         /\ tasks[k] \in Live /\ tasks[k].msg \in Message /\ ~Settled(k) /\ up
         /\ room = Idle /\ backfill.pc = "off"
         /\ \A j \in DOMAIN tasks : j # k => tasks[j] = Ended /\ tasks[j].pc \notin Pc
         /\ UNCHANGED <<quiet, log, room, backfill, up, redelivered, crashes, webClues, backfills>>
         /\ DOMAIN tasks' = DOMAIN tasks
         /\ \A j \in DOMAIN tasks : j # k => tasks'[j] = tasks[j]
         /\ webClues' \in Nat
<1>1. Next
  BY DEF Next, Loop
<1> USE StepFacts
<1>2. tasks[k].pc \in Pc
  BY DEF Coroutine, CheckDuplicate, OnClue, ReadNumber, Commit, SetWatermark, Announce, Pc
<1>3. tasks[k] \in Live /\ ~Settled(k)
  BY <1>1, <1>2, LiveTask
<1>4. tasks[k].msg \in Message
  BY <1>1, <1>3 DEF IInv, Sound, TasksSound, SoundTask, Settled
<1>5. room = Idle /\ backfill.pc = "off" /\ \A j \in DOMAIN tasks : j # k => Settled(j)
  BY <1>3 DEF IInv, Quiet, Alone
<1>6. up
  BY <1>1, EmptySeq DEF IInv, Daemon
<1>7. UNCHANGED <<quiet, log, room, backfill, up, redelivered, crashes, webClues, backfills>>
  BY DEF Coroutine, CheckDuplicate, OnClue, ReadNumber, Commit, SetWatermark, Announce, counts
<1>8. \E t : tasks' = [tasks EXCEPT ![k] = t]
  BY DEF Coroutine, CheckDuplicate, OnClue, ReadNumber, Commit, SetWatermark, Announce, Goto, End
<1>9. webClues' \in Nat
  BY <1>1 DEF TypeOK
<1> QED BY <1>1, <1>3, <1>4, <1>5, <1>6, <1>7, <1>8, <1>9, SettledPc DEF Settled

(* A coroutine that goes on alone stays alone.                             *)
LEMMA AloneStays ==
  ASSUME IInv, quiet, NEW k \in DOMAIN tasks, Coroutine(k)
  PROVE  Alone'
BY AloneFacts DEF Alone, Settled

(* Where the windows stay as they are, all that is said of them does. *)
LEMMA WindowsStay ==
  ASSUME IInv, quiet, NEW k \in DOMAIN tasks, Coroutine(k), windows' = windows
  PROVE  Daemon' /\ WindowIsSpan'
<1>1. /\ Next /\ up /\ webClues' \in Nat
      /\ UNCHANGED <<log, room, up, redelivered, crashes, webClues>>
  BY AloneFacts
<1>2. Message' = Message
  BY <1>1 DEF Message
<1>3. Daemon'
  BY <1>1, <1>2 DEF IInv, Daemon
<1>4. WindowIsSpan'
  BY <1>1, SpansStay
<1> QED BY <1>3, <1>4

(* The clue d of a quiet chat has not closed the open window if d's        *)
(* coroutine has not yet called on_clue.                                   *)
LEMMA AlonePending ==
  ASSUME IInv, quiet, NEW k \in DOMAIN tasks, Coroutine(k), NEW d
  PROVE  /\ Pending(d, room, tasks) <=> (tasks[k].pc \in {"queued", "checked"} /\ tasks[k].msg = d)
         /\ Pending(d, room', tasks') <=> (tasks'[k].pc \in {"queued", "checked"} /\ tasks'[k].msg = d)
<1>1. /\ room = Idle /\ room' = Idle /\ DOMAIN tasks' = DOMAIN tasks
      /\ \A j \in DOMAIN tasks : j # k => tasks[j].pc \notin Pc /\ tasks'[j] = tasks[j]
  BY AloneFacts
<1>2. "queued" \in Pc /\ "checked" \in Pc
  BY DEF Pc
<1>3. Pending(d, room, tasks) <=> (tasks[k].pc \in {"queued", "checked"} /\ tasks[k].msg = d)
  BY <1>1, <1>2 DEF Pending
<1>4. Pending(d, room', tasks') <=> (tasks'[k].pc \in {"queued", "checked"} /\ tasks'[k].msg = d)
  BY <1>1, <1>2 DEF Pending
<1> QED BY <1>3, <1>4

(* A step that keeps the windows, and whether a clue is pending, keeps the *)
(* open window's span.                                                     *)
LEMMA OpenWindowStays ==
  ASSUME IInv, quiet, NEW k \in DOMAIN tasks, Coroutine(k), windows' = windows,
         redelivered = 0 /\ crashes = 0 =>
           \A d : Pending(d, room', tasks') <=> Pending(d, room, tasks)
  PROVE  OpenWindow'
<1>1. UNCHANGED <<log, room, redelivered, crashes>> /\ Clues' = Clues /\ Message' = Message
  BY AloneFacts DEF Clues, Message, IsClue
<1> QED BY <1>1 DEF IInv, Quiet, OpenWindow, Last

(* A coroutine that goes on with its clue, or ends with it archived, loses *)
(* nothing.                                                                *)
LEMMA NothingLostStays ==
  ASSUME IInv, quiet, NEW k \in DOMAIN tasks, Coroutine(k),
         \/ tasks'[k] # Ended /\ tasks'[k].msg = tasks[k].msg
         \/ crashes = 0 /\ webClues = 0 => InArchive(archive', tasks[k].msg)
  PROVE  NothingLost'
<1>1. /\ UNCHANGED <<log, room, crashes, webClues>> /\ DOMAIN tasks' = DOMAIN tasks
      /\ \A j \in DOMAIN tasks : j # k => tasks[j] = Ended
      /\ room = Idle /\ \A m : InArchive(archive, m) => InArchive(archive', m)
  BY AloneFacts, StepFacts
<1> SUFFICES ASSUME crashes = 0, webClues = 0, NEW m \in Clues', ~InArchive(archive', m)
             PROVE  \E j \in DOMAIN tasks' : ~Settled(j)' /\ tasks'[j].msg = m
  BY <1>1 DEF NothingLost
<1>2. m \in Clues
  BY <1>1 DEF Clues, Message, IsClue
<1>3. tasks[k].msg = m
  BY <1>1, <1>2 DEF IInv, Quiet, NothingLost, Settled
<1> QED BY <1>1, <1>3 DEF Settled

(* A coroutine that ends, or goes on with a clue that is not archived when *)
(* it still has to be, keeps what is said of the coroutines alone.         *)
LEMMA CoroutineGoesOn ==
  ASSUME IInv, quiet, NEW k \in DOMAIN tasks, Coroutine(k),
         \/ tasks'[k] = Ended
         \/ /\ tasks'[k].msg = tasks[k].msg /\ tasks'[k].pc # "queued"
            /\ tasks[k].pc # "queued" \/ ~InArchive(archive, tasks[k].msg)
            /\ tasks'[k].pc \in {"checked", "opened", "numbered"} =>
                 ~InArchive(archive', tasks[k].msg)
            /\ tasks'[k].pc = "numbered" /\ webClues = 0 => tasks'[k].number = Len(archive') + 1
  PROVE  NotYet' /\ NumberFree' /\ Newest'
<1>1. /\ UNCHANGED <<log, room, backfill, redelivered, crashes, webClues>>
      /\ room = Idle /\ backfill.pc = "off" /\ ~Settled(k)
      /\ DOMAIN tasks' = DOMAIN tasks
      /\ \A j \in DOMAIN tasks : j # k => tasks'[j] = Ended
  BY AloneFacts
<1>2. Ended.pc = "ended"
  BY DEF Ended
<1>3. \A j \in DOMAIN tasks' :
        \/ tasks'[j] = Ended /\ tasks'[j].pc = "ended"
        \/ /\ j = k /\ tasks'[j].msg = tasks[k].msg /\ tasks'[j].pc # "queued"
           /\ tasks[k].pc # "queued" \/ ~InArchive(archive, tasks[k].msg)
           /\ tasks'[j].pc \in {"checked", "opened", "numbered"} =>
                ~InArchive(archive', tasks'[j].msg)
           /\ tasks'[j].pc = "numbered" /\ webClues = 0 => tasks'[j].number = Len(archive') + 1
  BY <1>1, <1>2
<1>4. NotYet'
  BY <1>1, <1>3 DEF NotYet
<1>5. NumberFree'
  BY <1>1, <1>3 DEF NumberFree
<1>6. redelivered = 0 \/ (crashes = 0 /\ webClues = 0) =>
        \/ tasks[k].msg = Len(log)
        \/ tasks[k].pc = "queued" /\ InArchive(archive, tasks[k].msg)
  BY <1>1 DEF IInv, Quiet, Newest
<1>7. Newest'
  BY <1>1, <1>3, <1>6 DEF Newest, Settled
<1> QED BY <1>4, <1>5, <1>7

(* A message that is archived already ends the coroutine; it had been      *)
(* repeated.                                                               *)
LEMMA CheckDuplicateQuiet ==
  ASSUME IInv, quiet, NEW k \in DOMAIN tasks, CheckDuplicate(k)
  PROVE  Daemon' /\ Quiet' /\ WindowIsSpan'
<1>1. Coroutine(k)
  BY DEF Coroutine
<1>2. UNCHANGED <<windows, archive>> /\ tasks[k].pc = "queued"
  BY DEF CheckDuplicate
<1>3. \/ InArchive(archive, tasks[k].msg) /\ tasks'[k] = Ended
      \/ /\ ~InArchive(archive, tasks[k].msg)
         /\ tasks'[k].pc = "checked" /\ tasks'[k].msg = tasks[k].msg
  BY <1>1, AloneFacts DEF CheckDuplicate, Archived, InArchive, Goto, End, Live
<1>4. Ended.pc = "ended"
  BY DEF Ended
<1>5. OpenWindow'
  <2>1. redelivered = 0 => ~InArchive(archive, tasks[k].msg)
    BY <1>2 DEF IInv, Quiet, NotYet
  <2>2. ASSUME redelivered = 0, NEW d
        PROVE  Pending(d, room, tasks) <=> Pending(d, room', tasks')
    <3>1. tasks'[k].pc = "checked" /\ tasks'[k].msg = tasks[k].msg
      BY <1>3, <2>1, <2>2
    <3> QED BY <1>1, <1>2, <3>1, AlonePending
  <2> QED BY <1>1, <1>2, <2>2, OpenWindowStays
<1>6. NothingLost'
  BY <1>1, <1>2, <1>3, <1>4, NothingLostStays
<1>7. Alone' /\ Daemon' /\ WindowIsSpan'
  BY <1>1, <1>2, AloneStays, WindowsStay
<1>8. NotYet' /\ NumberFree' /\ Newest'
  BY <1>1, <1>2, <1>3, CoroutineGoesOn
<1>9. WindowClues'
  BY <1>1, <1>2, AloneFacts DEF IInv, Quiet, WindowClues, Pc
<1> QED BY <1>5, <1>6, <1>7, <1>8, <1>9 DEF Quiet

(* The number read in a quiet chat is one past all that is archived.       *)
LEMMA ReadNumberQuiet ==
  ASSUME IInv, quiet, NEW k \in DOMAIN tasks, ReadNumber(k)
  PROVE  Daemon' /\ Quiet' /\ WindowIsSpan'
<1>1. Coroutine(k)
  BY DEF Coroutine
<1>2. UNCHANGED <<windows, archive>> /\ tasks[k].pc = "opened"
  BY DEF ReadNumber
<1>3. tasks'[k].pc = "numbered" /\ tasks'[k].msg = tasks[k].msg /\ tasks'[k].number = Len(archive) + 1
  BY <1>1, AloneFacts DEF ReadNumber, Live
<1>4. OpenWindow'
  <2>1. ASSUME NEW d
        PROVE  Pending(d, room, tasks) <=> Pending(d, room', tasks')
    BY <1>1, <1>2, <1>3, AlonePending
  <2> QED BY <1>1, <1>2, <2>1, OpenWindowStays
<1>5. NothingLost'
  BY <1>1, <1>3, NothingLostStays DEF Ended
<1>6. Alone' /\ Daemon' /\ WindowIsSpan'
  BY <1>1, <1>2, AloneStays, WindowsStay
<1>7. NotYet' /\ NumberFree' /\ Newest'
  <2>1. ~InArchive(archive, tasks[k].msg)
    BY <1>2 DEF IInv, Quiet, NotYet
  <2> QED BY <1>1, <1>2, <1>3, <2>1, CoroutineGoesOn
<1>8. WindowClues'
  <2>1. WindowClues
    BY DEF IInv, Quiet
  <2> QED BY <1>1, <1>2, <1>3, <2>1, AloneFacts DEF WindowClues, Pc
<1> QED BY <1>4, <1>5, <1>6, <1>7, <1>8 DEF Quiet

(* set_watermark touches nothing the others rely on.                       *)
LEMMA SetWatermarkQuiet ==
  ASSUME IInv, quiet, NEW k \in DOMAIN tasks, SetWatermark(k)
  PROVE  Daemon' /\ Quiet' /\ WindowIsSpan'
<1>1. Coroutine(k)
  BY DEF Coroutine
<1>2. UNCHANGED <<windows, archive>> /\ tasks[k].pc = "committed"
  BY DEF SetWatermark
<1>3. tasks'[k].pc = "marked" /\ tasks'[k].msg = tasks[k].msg
  BY <1>1, AloneFacts DEF SetWatermark, Goto, Live
<1>4. OpenWindow'
  <2>1. ASSUME NEW d
        PROVE  Pending(d, room, tasks) <=> Pending(d, room', tasks')
    BY <1>1, <1>2, <1>3, AlonePending
  <2> QED BY <1>1, <1>2, <2>1, OpenWindowStays
<1>5. NothingLost'
  BY <1>1, <1>3, NothingLostStays DEF Ended
<1>6. Alone' /\ Daemon' /\ WindowIsSpan'
  BY <1>1, <1>2, AloneStays, WindowsStay
<1>7. NotYet' /\ NumberFree' /\ Newest'
  BY <1>1, <1>2, <1>3, CoroutineGoesOn
<1>8. WindowClues'
  <2>1. WindowClues
    BY DEF IInv, Quiet
  <2> QED BY <1>1, <1>2, <1>3, <2>1, AloneFacts DEF WindowClues, Pc
<1> QED BY <1>4, <1>5, <1>6, <1>7, <1>8 DEF Quiet

(* The coroutine ends with its clue archived.                              *)
LEMMA AnnounceQuiet ==
  ASSUME IInv, quiet, NEW k \in DOMAIN tasks, Announce(k)
  PROVE  Daemon' /\ Quiet' /\ WindowIsSpan'
<1>1. Coroutine(k)
  BY DEF Coroutine
<1>2. UNCHANGED <<windows, archive>> /\ tasks[k].pc = "marked"
  BY DEF Announce
<1>3. tasks'[k] = Ended /\ Ended.pc = "ended"
  BY DEF Announce, End, Ended
<1>4. OpenWindow'
  <2>1. ASSUME NEW d
        PROVE  Pending(d, room, tasks) <=> Pending(d, room', tasks')
    BY <1>1, <1>2, <1>3, AlonePending
  <2> QED BY <1>1, <1>2, <2>1, OpenWindowStays
<1>5. NothingLost'
  <2>1. InArchive(archive', tasks[k].msg)
    BY <1>1, <1>2, AloneFacts DEF IInv, Sound, TasksSound, SoundTask, Settled, InArchive
  <2> QED BY <1>1, <2>1, NothingLostStays
<1>6. Alone' /\ Daemon' /\ WindowIsSpan'
  BY <1>1, <1>2, AloneStays, WindowsStay
<1>7. NotYet' /\ NumberFree' /\ Newest'
  BY <1>1, <1>2, <1>3, CoroutineGoesOn
<1>8. WindowClues'
  <2>1. WindowClues
    BY DEF IInv, Quiet
  <2> QED BY <1>1, <1>2, <1>3, <2>1, AloneFacts DEF WindowClues, Pc
<1> QED BY <1>4, <1>5, <1>6, <1>7, <1>8 DEF Quiet

(* A commit fails in a quiet chat only beside the web app: nobody else has *)
(* taken the number or archived the message since it was looked up.        *)
LEMMA CommitQuiet ==
  ASSUME IInv, quiet, NEW k \in DOMAIN tasks, Commit(k)
  PROVE  Daemon' /\ Quiet' /\ WindowIsSpan'
<1>1. Coroutine(k)
  BY DEF Coroutine
<1>2. windows' = windows /\ tasks[k].pc = "numbered"
  BY DEF Commit
<1>3. \/ tasks'[k] = Ended /\ Collides(k) /\ archive' = archive
      \/ /\ ~Collides(k) /\ tasks'[k].pc = "committed" /\ tasks'[k].msg = tasks[k].msg
         /\ archive' = Append(archive, [msg |-> tasks[k].msg, author |-> log[tasks[k].msg].user])
  BY <1>1, AloneFacts DEF Commit, Goto, End, Live
<1>4. Ended.pc = "ended"
  BY DEF Ended
<1>5. webClues = 0 => ~Collides(k)
  <2>1. ~InArchive(archive, tasks[k].msg)
    BY <1>2 DEF IInv, Quiet, NotYet
  <2>2. webClues = 0 => tasks[k].number = Len(archive) + 1
    BY <1>2 DEF IInv, Quiet, NumberFree
  <2>3. Len(archive) \in Nat
    BY Lengths DEF IInv, Sound
  <2> QED BY <2>1, <2>2, <2>3 DEF Collides, Archived, InArchive
<1>6. ~Collides(k) => InArchive(archive', tasks[k].msg)
  <2> SUFFICES ASSUME ~Collides(k)
               PROVE  InArchive(archive', tasks[k].msg)
    OBVIOUS
  <2> DEFINE r == [msg |-> tasks[k].msg, author |-> log[tasks[k].msg].user]
  <2>1. archive \in Seq(Row) /\ r \in Row
    <3>1. log[tasks[k].msg] \in Entry /\ tasks[k].msg \in Nat
      BY <1>1, AloneFacts, ElementOfSeq DEF IInv, Sound, TypeOK, Message, Live
    <3> QED BY <3>1 DEF IInv, Sound, TypeOK, Row, Entry
  <2>2. archive' = Append(archive, r) /\ r.msg = tasks[k].msg
    BY <1>3
  <2> HIDE DEF r
  <2>3. Len(archive) + 1 \in DOMAIN archive' /\ archive'[Len(archive) + 1] = r
    BY <2>1, <2>2, GrownSequence
  <2> QED BY <2>2, <2>3 DEF InArchive
<1>7. OpenWindow'
  <2>1. ASSUME NEW d
        PROVE  Pending(d, room, tasks) <=> Pending(d, room', tasks')
    BY <1>1, <1>2, <1>3, <1>4, AlonePending
  <2> QED BY <1>1, <1>2, <2>1, OpenWindowStays
<1>8. NothingLost'
  BY <1>1, <1>5, <1>6, NothingLostStays
<1>9. Alone' /\ Daemon' /\ WindowIsSpan'
  BY <1>1, <1>2, AloneStays, WindowsStay
<1>10. \A m : InArchive(archive, m) => InArchive(archive', m)
  BY <1>1, AloneFacts, StepFacts
<1>11. NotYet' /\ NumberFree' /\ Newest'
  BY <1>1, <1>2, <1>3, CoroutineGoesOn
<1>12. WindowClues'
  <2>1. WindowClues
    BY DEF IInv, Quiet
  <2> SUFFICES ASSUME webClues = 0, NEW w \in DOMAIN windows
               PROVE  InArchive(archive', windows[w].clue)
    BY <1>1, <1>2, <2>1, AloneFacts DEF WindowClues
  <2>2. InArchive(archive, windows[w].clue) \/ windows[w].clue = tasks[k].msg
    BY <1>1, <2>1, AloneFacts DEF WindowClues, Pc
  <2> QED BY <1>5, <1>6, <1>10, <2>2
<1> QED BY <1>7, <1>8, <1>9, <1>11, <1>12 DEF Quiet

(* on_clue closes the window of the clue before, whose span ends here.     *)
LEMMA OnClueQuiet ==
  ASSUME IInv, quiet, NEW k \in DOMAIN tasks, OnClue(k)
  PROVE  Daemon' /\ Quiet' /\ WindowIsSpan'
<1>1. Coroutine(k)
  BY DEF Coroutine
<1>2. PICK m \in Message : m = tasks[k].msg
  BY <1>1, AloneFacts
<1> DEFINE old == [w \in DOMAIN windows |->
                     IF w = Len(windows) THEN Closed(windows[w], m) ELSE windows[w]]
<1>3. archive' = archive /\ tasks[k].pc = "checked"
  BY DEF OnClue
<1>4. tasks'[k].pc = "opened" /\ tasks'[k].msg = m
  BY <1>1, <1>2, AloneFacts DEF OnClue, Goto, Live
<1>5. /\ Next /\ TypeOK /\ TypeOK' /\ Len(log) \in Nat /\ Message = 1..Len(log)
      /\ DOMAIN windows = 1..Len(windows) /\ Len(windows) \in Nat /\ m \in Message
  BY <1>1, AloneFacts, StepFacts
<1>6. windows' = Append(old, NewWindow(m))
  BY <1>2 DEF OnClue
<1>7. /\ DOMAIN windows' = 1..(Len(windows) + 1) /\ Len(windows') = Len(windows) + 1
      /\ windows'[Len(windows) + 1] = NewWindow(m)
      /\ \A w \in DOMAIN windows : windows'[w] = old[w]
  <2>1. NewWindow(m) \in Window
    BY <1>5 DEF NewWindow, Window, Fate
  <2>2. log[m].user \in User
    <3>1. log[m] \in Entry
      BY <1>5, ElementOfSeq DEF TypeOK
    <3> QED BY <3>1 DEF Entry
  <2>3. \A w \in DOMAIN windows : old[w] \in Window
    <3> TAKE w \in DOMAIN windows
    <3>1. windows[w] \in Window
      BY <1>5, ElementOfSeq DEF TypeOK
    <3>2. windows[w].msgs \ {m} \in SUBSET Nat /\ {log[m].user} \in SUBSET User
      BY <2>2, <3>1 DEF Window
    <3> QED BY <3>1, <3>2 DEF Closed, Window, Fate
  <2>4. old \in Seq(Window) /\ Len(old) = Len(windows) /\ DOMAIN old = DOMAIN windows
    BY <1>5, <2>3
  <2> HIDE DEF old
  <2> QED BY <1>5, <1>6, <2>1, <2>4, GrownSequence DEF Prefix
<1>8. \A w \in DOMAIN windows :
        /\ w # Len(windows) => windows'[w] = windows[w]
        /\ w = Len(windows) => /\ windows'[w].clue = windows[w].clue
                               /\ windows'[w].msgs = windows[w].msgs \ {m}
                               /\ windows'[w].solver = {log[m].user}
                               /\ windows'[w].fate = "closed"
  <2> TAKE w \in DOMAIN windows
  <2>1. windows[w] \in Window
    BY <1>5, ElementOfSeq DEF TypeOK
  <2> QED BY <1>7, <2>1 DEF Closed, Window
<1> HIDE DEF old
<1>9. /\ NewWindow(m).clue = m /\ NewWindow(m).msgs = {} /\ NewWindow(m).fate = "open"
  BY DEF NewWindow
<1>10. m \in Clues /\ m \in Clues'
  <2>1. m \in Clues
    BY <1>1, <1>2, <1>5, AloneFacts DEF IInv, Sound, TasksSound, SoundTask, Settled, Clues, IsClue
  <2>2. log' = log
    BY <1>1, AloneFacts
  <2> QED BY <2>1, <2>2 DEF Clues, IsClue, Message
<1>11. redelivered = 0 \/ (crashes = 0 /\ webClues = 0) => m = Len(log)
  BY <1>1, <1>2, <1>3, AloneFacts DEF IInv, Quiet, Newest
<1>12. ASSUME NEW d
       PROVE  /\ Pending(d, room, tasks) <=> d = m
              /\ ~Pending(d, room', tasks')
  BY <1>1, <1>2, <1>3, <1>4, AlonePending
<1>13. NothingLost'
  BY <1>1, <1>2, <1>4, NothingLostStays DEF Ended
<1>14. Alone'
  BY <1>1, AloneStays
<1>15. /\ UNCHANGED <<quiet, log, room, backfill, up, redelivered, crashes, webClues>>
       /\ room = Idle /\ backfill.pc = "off" /\ up
       /\ DOMAIN tasks' = DOMAIN tasks
       /\ \A j \in DOMAIN tasks : j # k => tasks'[j] = tasks[j] /\ tasks[j].pc \notin Pc
       /\ Clues' = Clues /\ Message' = Message
  BY <1>1, AloneFacts DEF Clues, IsClue, Message
<1>16. DOMAIN windows' = DOMAIN windows \cup {Len(windows) + 1} /\ Len(windows) + 1 \notin DOMAIN windows
  BY <1>5, <1>7
<1>17. Daemon'
  BY <1>5, <1>7, <1>8, <1>9, <1>15, <1>16 DEF IInv, Daemon
<1>18. NotYet' /\ NumberFree' /\ Newest'
  <2>1. ~InArchive(archive, tasks[k].msg)
    BY <1>3 DEF IInv, Quiet, NotYet
  <2> QED BY <1>1, <1>2, <1>3, <1>4, <2>1, CoroutineGoesOn
<1>20. WindowClues'
  <2>1. webClues = 0 => \A w \in DOMAIN windows : InArchive(archive, windows[w].clue)
    BY <1>3, <1>15 DEF IInv, Quiet, WindowClues, Pc
  <2>2. \A w \in DOMAIN windows : windows[w].fate = "skipped" => webClues > 0
    BY DEF IInv, Quiet, WindowClues
  <2>3. \A w \in DOMAIN windows : windows'[w].clue = windows[w].clue
    BY <1>8
  <2>4. \A w \in DOMAIN windows' : windows'[w].fate = "skipped" => webClues > 0
    BY <1>7, <1>8, <1>9, <1>16, <2>2
  <2> QED BY <1>3, <1>4, <1>7, <1>9, <1>15, <1>16, <2>1, <2>3, <2>4 DEF WindowClues
<1>22. OpenWindow'
  <2> SUFFICES ASSUME redelivered = 0, crashes = 0
               PROVE  OpenWindow'
    BY <1>15 DEF OpenWindow
  <2>1. m = Len(log) /\ Last' = NewWindow(m) /\ windows' # <<>>
    BY <1>5, <1>7, <1>11 DEF Last
  <2>2. Last'.msgs = (Last'.clue + 1)..Len(log)
    <3>1. {} = (m + 1)..Len(log)
      BY <1>5, <2>1
    <3> QED BY <1>9, <2>1, <3>1
  <2>3. \A d \in Clues : ~(d > m)
    BY <1>5, <2>1 DEF Clues
  <2> QED BY <1>9, <1>12, <1>15, <2>1, <2>2, <2>3 DEF OpenWindow
<1>23. WindowIsSpan'
  <2>1. ASSUME NEW w \in DOMAIN windows', windows'[w].fate = "skipped"
        PROVE  webClues > 0
    BY <1>7, <1>8, <1>9, <1>16, <2>1 DEF IInv, WindowIsSpan
  <2>2. ASSUME redelivered = 0, crashes = 0, NEW w \in DOMAIN windows', windows'[w].fate # "open"
        PROVE  \E c \in Clues : /\ Follows(c, windows[w].clue)'
                               /\ windows'[w].msgs = (windows'[w].clue + 1)..(c - 1)
                               /\ windows'[w].solver = {log[c].user}
    <3>1. w \in DOMAIN windows
      BY <1>7, <1>9, <1>16, <2>2
    <3>2. CASE w # Len(windows)
      <4>1. windows'[w] = windows[w]
        BY <1>8, <3>1, <3>2
      <4>2. PICK c \in Clues : /\ Follows(c, windows[w].clue)
                              /\ windows[w].msgs = (windows[w].clue + 1)..(c - 1)
                              /\ windows[w].solver = {log[c].user}
        BY <2>2, <3>1, <4>1 DEF IInv, WindowIsSpan
      <4> QED BY <1>15, <4>1, <4>2 DEF Follows
    <3>3. CASE w = Len(windows)
      <4>1. /\ windows'[w].clue = Last.clue /\ windows'[w].msgs = Last.msgs \ {m}
            /\ windows'[w].solver = {log[m].user} /\ windows # <<>> /\ Last.clue \in Message
        BY <1>8, <3>1, <3>3 DEF Last, IInv, Daemon
      <4>2. /\ Last.msgs = (Last.clue + 1)..Len(log) /\ m = Len(log)
            /\ \A d \in Clues : d > Last.clue => d = m
            /\ m > Last.clue
        BY <1>5, <1>11, <1>12, <1>15, <2>2, <4>1 DEF IInv, Quiet, OpenWindow
      <4>3. Last.msgs \ {m} = (Last.clue + 1)..(m - 1)
        BY <1>5, <4>1, <4>2
      <4>4. Follows(m, windows[w].clue)'
        BY <1>5, <1>15, <4>1, <4>2 DEF Follows
      <4> QED BY <1>10, <1>15, <4>1, <4>3, <4>4
    <3> QED BY <3>2, <3>3
  <2> QED BY <1>15, <2>1, <2>2 DEF WindowIsSpan
<1> QED BY <1>13, <1>14, <1>17, <1>18, <1>20, <1>22, <1>23 DEF Quiet

(* process_window finds the clue of a closed window in the archive, unless *)
(* its commit failed.                                                      *)
LEMMA ProcessQuiet ==
  ASSUME IInv, quiet, NEW w \in DOMAIN windows, ProcessWindow(w)
  PROVE  Daemon' /\ Quiet' /\ WindowIsSpan'
<1>1. Next
  BY DEF Next, Loop
<1>2. /\ TypeOK /\ TypeOK' /\ DOMAIN windows = 1..Len(windows) /\ Len(windows) \in Nat
      /\ DOMAIN windows' = 1..Len(windows')
  BY <1>1, StepFacts
<1>3. /\ UNCHANGED <<quiet, log, room, tasks, archive, watermark, announced, backfill, up,
                      redelivered, crashes, webClues, backfills>>
      /\ windows[w].fate = "closed" /\ w # Len(windows)
      /\ Clues' = Clues /\ Message' = Message
  BY DEF ProcessWindow, counts, IInv, Daemon, Clues, Message, IsClue
<1>4. /\ DOMAIN windows' = DOMAIN windows /\ Len(windows') = Len(windows)
      /\ \A v \in DOMAIN windows : v # w => windows'[v] = windows[v]
      /\ windows'[w].clue = windows[w].clue /\ windows'[w].msgs = windows[w].msgs
      /\ windows'[w].solver = windows[w].solver
      /\ windows'[w].fate = IF InArchive(archive, windows[w].clue) THEN "stored" ELSE "skipped"
  <2>1. windows[w] \in Window
    BY <1>2, ElementOfSeq DEF TypeOK
  <2> DEFINE x == [windows[w] EXCEPT
                     !.fate = IF Archived(windows[w].clue) THEN "stored" ELSE "skipped"]
  <2>2. /\ x.clue = windows[w].clue /\ x.msgs = windows[w].msgs /\ x.solver = windows[w].solver
        /\ x.fate = IF InArchive(archive, windows[w].clue) THEN "stored" ELSE "skipped"
    BY <2>1 DEF Window, Archived, InArchive
  <2>3. windows' = [windows EXCEPT ![w] = x]
    BY DEF ProcessWindow
  <2> HIDE DEF x
  <2>4. DOMAIN windows' = DOMAIN windows /\ windows'[w] = x /\ \A v \in DOMAIN windows : v # w => windows'[v] = windows[v]
    BY <2>3
  <2>5. Len(windows') = Len(windows)
    BY <1>2, <2>3, <2>4, ExceptSeq, LenProperties DEF TypeOK
  <2> QED BY <2>2, <2>4, <2>5
<1>5. Daemon'
  BY <1>3, <1>4 DEF IInv, Daemon
<1>6. Alone' /\ NotYet' /\ NumberFree' /\ NothingLost' /\ Newest'
  BY <1>3 DEF IInv, Quiet, Alone, NotYet, NumberFree, NothingLost, Newest, Settled, IsClue
<1>7. windows'[w].fate = "skipped" => webClues > 0
  <2>1. webClues \in Nat
    BY <1>2 DEF TypeOK
  <2>2. webClues = 0 => InArchive(archive, windows[w].clue)
    BY <1>3 DEF IInv, Quiet, WindowClues
  <2> QED BY <1>4, <2>1, <2>2
<1>8. WindowClues'
  <2>1. \A v \in DOMAIN windows : windows'[v].clue = windows[v].clue
    BY <1>4
  <2>2. WindowClues
    BY DEF IInv, Quiet
  <2> QED BY <1>3, <1>4, <1>7, <2>1, <2>2 DEF WindowClues
<1>9. OpenWindow'
  <2>1. windows # <<>> => windows' # <<>> /\ Last' = Last
    <3>1. windows # <<>> => Len(windows) \in DOMAIN windows
      BY <1>2, EmptySeq DEF TypeOK
    <3> QED BY <1>3, <1>4, <3>1 DEF Last
  <2>2. windows # <<>>
    BY <1>2
  <2>3. OpenWindow
    BY DEF IInv, Quiet
  <2> QED BY <1>3, <1>4, <2>1, <2>2, <2>3 DEF OpenWindow
<1>10. WindowIsSpan'
  <2>1. ASSUME redelivered = 0, crashes = 0, NEW v \in DOMAIN windows', windows'[v].fate # "open"
        PROVE  \E c \in Clues : /\ Follows(c, windows[v].clue)'
                               /\ windows'[v].msgs = (windows'[v].clue + 1)..(c - 1)
                               /\ windows'[v].solver = {log[c].user}
    <3>1. /\ v \in DOMAIN windows /\ windows[v].fate # "open"
          /\ windows'[v].clue = windows[v].clue /\ windows'[v].msgs = windows[v].msgs
          /\ windows'[v].solver = windows[v].solver
      BY <1>3, <1>4, <2>1
    <3>2. PICK c \in Clues : /\ Follows(c, windows[v].clue)
                            /\ windows[v].msgs = (windows[v].clue + 1)..(c - 1)
                            /\ windows[v].solver = {log[c].user}
      BY <2>1, <3>1 DEF IInv, WindowIsSpan
    <3> QED BY <1>3, <3>1, <3>2 DEF Follows
  <2>2. ASSUME NEW v \in DOMAIN windows', windows'[v].fate = "skipped"
        PROVE  webClues > 0
    BY <1>4, <1>7, <2>2 DEF IInv, WindowIsSpan
  <2> QED BY <1>3, <2>1, <2>2 DEF WindowIsSpan
<1> QED BY <1>5, <1>6, <1>8, <1>9, <1>10 DEF Quiet

(* The web app's clue has no message: it takes a number, no more.          *)
LEMMA WebAppendQuiet ==
  ASSUME IInv, quiet, WebAppend
  PROVE  Daemon' /\ Quiet' /\ WindowIsSpan'
<1>1. Next
  BY DEF Next
<1>2. /\ TypeOK /\ Message = 1..Len(log) /\ Len(log) \in Nat
      /\ \A m : InArchive(archive, m) => InArchive(archive', m)
      /\ \A k \in DOMAIN tasks : Settled(k) <=> tasks[k].pc \notin Pc
  BY <1>1, StepFacts
<1>3. /\ UNCHANGED <<quiet, log, room, tasks, windows, watermark, announced, backfill, up,
                      redelivered, crashes>>
      /\ webClues' = webClues + 1 /\ webClues \in Nat
      /\ Clues' = Clues /\ Message' = Message
  BY <1>2 DEF WebAppend, memory, TypeOK, Clues, Message, IsClue
<1>4. ASSUME NEW m, m # NoMessage, ~InArchive(archive, m)
      PROVE  ~InArchive(archive', m)
  <2>1. PICK u \in User : archive' = Append(archive, [msg |-> NoMessage, author |-> u])
    BY DEF WebAppend
  <2>2. archive \in Seq(Row) /\ [msg |-> NoMessage, author |-> u] \in Row
    BY <1>2 DEF TypeOK, Row, NoMessage
  <2> DEFINE r == [msg |-> NoMessage, author |-> u]
  <2>3. r.msg = NoMessage /\ r \in Row /\ archive' = Append(archive, r)
    BY <2>1, <2>2
  <2> HIDE DEF r
  <2>4. /\ DOMAIN archive' = 1..(Len(archive) + 1) /\ archive'[Len(archive) + 1] = r
        /\ \A i \in 1..Len(archive) : archive'[i] = archive[i]
        /\ DOMAIN archive = 1..Len(archive) /\ Len(archive) \in Nat
    BY <2>2, <2>3, GrownSequence DEF Prefix
  <2> QED BY <1>4, <2>3, <2>4 DEF InArchive
<1>5. Daemon' /\ Alone'
  BY <1>3 DEF IInv, Daemon, Quiet, Alone, Settled
<1>6. NotYet'
  <2>1. ASSUME NEW k \in DOMAIN tasks, tasks[k].pc \in Pc
        PROVE  tasks[k].msg # NoMessage
    BY <1>2, <2>1 DEF IInv, Sound, TasksSound, SoundTask, Settled, NoMessage
  <2>2. room # Idle => room.msg # NoMessage
    BY <1>2 DEF IInv, Sound, Posted, NoMessage
  <2>3. NotYet
    BY DEF IInv, Quiet
  <2> QED BY <1>3, <1>4, <2>1, <2>2, <2>3 DEF NotYet, Pc
<1>7. NumberFree' /\ WindowClues' /\ NothingLost'
  BY <1>3 DEF NumberFree, WindowClues, NothingLost
<1>8. Newest'
  BY <1>2, <1>3 DEF IInv, Quiet, Newest, Settled, IsClue
<1>9. OpenWindow'
  BY <1>3 DEF IInv, Quiet, OpenWindow, Last
<1>10. WindowIsSpan'
  BY <1>1, <1>3, SpansStay
<1> QED BY <1>5, <1>6, <1>7, <1>8, <1>9, <1>10 DEF Quiet

(* A crash takes with it all that the quiet chat was in the middle of; what *)
(* is posted before the restart nobody sees.                               *)
LEMMA DownQuiet ==
  ASSUME IInv, quiet, Crash \/ PostUnseen \/ Restart
  PROVE  Daemon' /\ Quiet' /\ WindowIsSpan'
<1>1. Next
  BY DEF Next
<1>2. TypeOK /\ webClues \in Nat /\ crashes \in Nat
  <2>1. TypeOK
    BY <1>1, StepFacts
  <2> QED BY <2>1 DEF TypeOK
<1>3. /\ UNCHANGED <<quiet, archive, watermark, announced, backfill, redelivered, webClues, backfills>>
      /\ room' = Idle /\ tasks' = <<>> /\ windows' = <<>> /\ crashes' # 0
  <2>1. CASE Crash
    BY <1>2, <2>1 DEF Crash
  <2>2. CASE PostUnseen \/ Restart
    <3>1. ~up /\ UNCHANGED <<quiet, memory, archive, watermark, announced, backfill, counts>>
      BY <2>2 DEF PostUnseen, Restart
    <3> QED BY <3>1 DEF IInv, Daemon, memory, counts
  <2> QED BY <2>1, <2>2
<1>4. DOMAIN tasks' = {} /\ DOMAIN windows' = {}
  BY <1>3
<1>5. Daemon'
  BY <1>3, <1>4 DEF Daemon
<1>6. Alone' /\ NotYet' /\ WindowClues' /\ NothingLost' /\ Newest' /\ OpenWindow'
  BY <1>3, <1>4 DEF Alone, NotYet, WindowClues, NothingLost, Newest, OpenWindow
<1>7. NumberFree'
  BY <1>3, <1>4 DEF IInv, Quiet, NumberFree
<1>8. WindowIsSpan'
  BY <1>3, <1>4 DEF WindowIsSpan
<1> QED BY <1>5, <1>6, <1>7, <1>8 DEF Quiet

(* The backfill works when nothing else does: it is alone with the archive, *)
(* and every clue of a window is already there.                            *)
LEMMA BackfillQuiet ==
  ASSUME IInv, quiet, Backfill
  PROVE  Daemon' /\ Quiet' /\ WindowIsSpan'
<1>1. Next
  BY DEF Next
<1>2. /\ TypeOK /\ \A m : InArchive(archive, m) => InArchive(archive', m)
      /\ \A k \in DOMAIN tasks : Settled(k) <=> tasks[k].pc \notin Pc
  BY <1>1, StepFacts
<1>3. /\ UNCHANGED <<quiet, log, room, tasks, windows, watermark, announced, up,
                      redelivered, crashes, webClues>>
      /\ Clues' = Clues /\ Message' = Message
  BY DEF Backfill, StartBackfill, BackfillChecks, BackfillReads, BackfillWrites, BackfillRests,
         memory, Clues, Message, IsClue
<1>4. room = Idle /\ \A k \in DOMAIN tasks : Settled(k) /\ tasks[k].pc \notin Pc
  <2>1. CASE StartBackfill
    BY <1>2, <2>1 DEF StartBackfill, Busy
  <2>2. CASE ~StartBackfill
    <3>1. backfill.pc # "off"
      BY <2>2 DEF Backfill, BackfillChecks, BackfillReads, BackfillWrites
    <3> QED BY <1>2, <3>1 DEF IInv, Quiet, Alone
  <2> QED BY <2>1, <2>2
<1>5. Daemon'
  BY <1>3 DEF IInv, Daemon
<1>6. Alone' /\ NotYet' /\ Newest'
  BY <1>3, <1>4 DEF Alone, NotYet, Newest, Settled, Pc
<1>7. NumberFree'
  <2>1. backfill'.pc = "numbered" => backfill'.number = Len(archive') + 1
    <3>1. CASE StartBackfill
      BY <3>1 DEF StartBackfill, AtRest
    <3>2. CASE BackfillChecks
      BY <1>2, <3>2 DEF BackfillChecks, Done, AtRest, TypeOK
    <3>3. CASE BackfillReads
      BY <1>2, <3>3 DEF BackfillReads, TypeOK
    <3>4. CASE BackfillWrites
      BY <3>4 DEF BackfillWrites, Done, AtRest
    <3> QED BY <3>1, <3>2, <3>3, <3>4 DEF Backfill
  <2> QED BY <1>3, <1>4, <2>1 DEF NumberFree, Pc
<1>8. WindowClues'
  <2>1. WindowClues
    BY DEF IInv, Quiet
  <2> QED BY <1>2, <1>3, <1>4, <2>1 DEF WindowClues, Pc
<1>9. NothingLost'
  <2>1. NothingLost
    BY DEF IInv, Quiet
  <2> QED BY <1>2, <1>3, <1>4, <2>1 DEF NothingLost
<1>10. OpenWindow'
  BY <1>3 DEF IInv, Quiet, OpenWindow, Last
<1>11. WindowIsSpan'
  <2>1. webClues \in Nat
    BY <1>2 DEF TypeOK
  <2> QED BY <1>1, <1>3, <2>1, SpansStay
<1> QED BY <1>5, <1>6, <1>7, <1>8, <1>9, <1>10, <1>11 DEF Quiet

(* In any chat the last window is the open one. *)
LEMMA DaemonStep ==
  ASSUME IInv, Next
  PROVE  Daemon'
<1>1. /\ TypeOK /\ TypeOK' /\ Posted /\ Message \subseteq Message'
      /\ DOMAIN windows = 1..Len(windows) /\ Len(windows) \in Nat
      /\ DOMAIN windows' = 1..Len(windows') /\ Len(windows') \in Nat /\ Daemon
  <2>1. Message \subseteq Message'
    BY CluesGrow DEF IInv
  <2> QED BY <2>1, StepFacts DEF IInv
<1>2. ASSUME UNCHANGED windows,
             ~up' => ~up /\ UNCHANGED <<room, tasks>>, crashes' = 0 => crashes = 0 /\ (up => up')
      PROVE  Daemon'
  BY <1>1, <1>2 DEF Daemon
<1>3. CASE Deliver \/ Redeliver
  BY <1>2, <1>3 DEF Deliver, Redeliver, Receive
<1>4. CASE HandOver
  <2>1. up /\ up' = up /\ crashes' = crashes /\ log' = log
    BY <1>4 DEF HandOver, counts
  <2>2. /\ DOMAIN windows' = DOMAIN windows /\ Len(windows') = Len(windows)
        /\ \A w \in DOMAIN windows : /\ windows'[w].clue = windows[w].clue
                                    /\ windows'[w].fate = windows[w].fate
    <3>1. CASE UNCHANGED windows
      BY <3>1
    <3>2. CASE windows' = [windows EXCEPT ![room.target].msgs = @ \cup {room.msg}]
      <4>1. DOMAIN windows' = DOMAIN windows
        BY <3>2
      <4>2. Len(windows') = Len(windows)
        BY <1>1, <4>1, SameLength
      <4>3. ASSUME NEW w \in DOMAIN windows
            PROVE  windows'[w].clue = windows[w].clue /\ windows'[w].fate = windows[w].fate
        <5>1. windows[w] \in Window
          BY <1>1, ElementOfSeq DEF TypeOK
        <5> DEFINE v == [windows[w] EXCEPT !.msgs = @ \cup {room.msg}]
        <5>2. v.clue = windows[w].clue /\ v.fate = windows[w].fate
          BY <5>1 DEF Window
        <5>3. windows'[w] = windows[w] \/ windows'[w] = v
          BY <3>2
        <5> QED BY <5>2, <5>3
      <4> QED BY <4>1, <4>2, <4>3
    <3> QED BY <1>4, <3>1, <3>2 DEF HandOver
  <2> QED BY <1>1, <2>1, <2>2 DEF Daemon
<1>5. ASSUME NEW k \in DOMAIN tasks, Coroutine(k)
      PROVE  Daemon'
  <2>1. up
    BY <1>1 DEF Daemon
  <2>2. up' = up /\ crashes' = crashes /\ log' = log
    BY <1>5 DEF Coroutine, CheckDuplicate, OnClue, ReadNumber, Commit, SetWatermark, Announce, counts
  <2>3. CASE UNCHANGED windows
    BY <1>2, <2>1, <2>2, <2>3
  <2>4. CASE OnClue(k)
    <3>1. PICK m \in Nat : m = tasks[k].msg /\ m \in Message
      <4>1. tasks[k].pc \in Pc
        BY <2>4 DEF OnClue, Pc
      <4>2. tasks[k] # Ended
        BY <1>1, <4>1, LiveTask
      <4> QED BY <4>2 DEF IInv, Sound, TasksSound, SoundTask, Message
    <3> DEFINE old == [w \in DOMAIN windows |->
                         IF w = Len(windows) THEN Closed(windows[w], m) ELSE windows[w]]
    <3>2. windows' = Append(old, NewWindow(m))
      BY <2>4, <3>1 DEF OnClue
    <3>3. /\ DOMAIN old = 1..Len(windows) /\ Len(old) = Len(windows) /\ old \in Seq(UNION {Window, {old[w] : w \in DOMAIN windows}})
      BY <1>1
    <3>4. /\ DOMAIN windows' = 1..(Len(windows) + 1) /\ Len(windows') = Len(windows) + 1
          /\ windows'[Len(windows) + 1] = NewWindow(m)
          /\ \A w \in DOMAIN windows : windows'[w] = old[w]
      <4>1. NewWindow(m) \in Window
        BY <3>1 DEF NewWindow, Window, Fate
      <4> HIDE DEF old
      <4> QED BY <1>1, <3>2, <3>3, <4>1, GrownSequence DEF Prefix
    <3>5. \A w \in DOMAIN windows : /\ windows'[w].clue = windows[w].clue
                                   /\ windows'[w].fate # "open"
      <4> TAKE w \in DOMAIN windows
      <4>1. windows[w] \in Window /\ (windows[w].fate = "open" <=> w = Len(windows))
        BY <1>1, ElementOfSeq DEF TypeOK, Daemon
      <4> QED BY <3>4, <4>1 DEF Closed, Window
    <3> HIDE DEF old
    <3>6. NewWindow(m).clue = m /\ NewWindow(m).fate = "open"
      BY DEF NewWindow
    <3>7. DOMAIN windows' = DOMAIN windows \cup {Len(windows) + 1} /\ Len(windows) + 1 \notin DOMAIN windows
      BY <1>1, <3>4
    <3>8. \A w \in DOMAIN windows' : windows'[w].clue \in Message
      BY <1>1, <3>1, <3>4, <3>5, <3>6, <3>7 DEF Daemon
    <3>9. \A w \in DOMAIN windows' : windows'[w].fate = "open" <=> w = Len(windows')
      BY <1>1, <3>4, <3>5, <3>6, <3>7
    <3>10. Message' = Message
      BY <2>2 DEF Message
    <3> QED BY <1>1, <2>1, <2>2, <3>8, <3>9, <3>10 DEF Daemon
  <2> QED BY <1>5, <2>3, <2>4 DEF Coroutine, CheckDuplicate, ReadNumber, Commit, SetWatermark, Announce
<1>6. ASSUME NEW w \in DOMAIN windows, ProcessWindow(w)
      PROVE  Daemon'
  <2>1. /\ windows[w].fate = "closed" /\ UNCHANGED <<up, crashes, log, room, tasks>>
        /\ windows[w] \in Window
        /\ windows' = [windows EXCEPT ![w].fate =
             IF Archived(windows[w].clue) THEN "stored" ELSE "skipped"]
    BY <1>1, <1>6, ElementOfSeq DEF ProcessWindow, counts, TypeOK
  <2>2. DOMAIN windows' = DOMAIN windows
    BY <2>1
  <2>3. \A v \in DOMAIN windows : v # w => windows'[v] = windows[v]
    BY <2>1
  <2>4. windows'[w].clue = windows[w].clue /\ windows'[w].fate # "open"
    BY <2>1 DEF Window
  <2>5. Len(windows') = Len(windows)
    BY <1>1, <2>2, SameLength
  <2>6. up
    BY <1>1 DEF Daemon
  <2> QED BY <1>1, <2>1, <2>2, <2>3, <2>4, <2>5, <2>6 DEF Daemon, Message
<1>7. CASE WebAppend
  BY <1>2, <1>7 DEF WebAppend, memory
<1>8. CASE Crash
  <2>1. crashes \in Nat
    BY <1>1 DEF TypeOK
  <2> QED BY <1>8, <2>1 DEF Crash, Daemon
<1>9. CASE PostUnseen
  BY <1>1, <1>2, <1>9 DEF PostUnseen, memory, counts
<1>10. CASE Restart
  BY <1>1, <1>2, <1>10 DEF Restart, memory, counts, Daemon
<1>11. CASE Backfill
  BY <1>2, <1>11 DEF Backfill, StartBackfill, BackfillChecks, BackfillReads, BackfillWrites,
     BackfillRests, memory
<1> QED BY <1>3, <1>4, <1>5, <1>6, <1>7, <1>8, <1>9, <1>10, <1>11 DEF Next, RoomThread, Loop

(* The backfill rests when it has dealt with everything.                   *)
LEMMA AtWorkStep ==
  ASSUME IInv, Next
  PROVE  AtWork'
<1>1. TypeOK /\ Posted /\ AtWork /\ Len(archive) \in Nat
  BY Lengths DEF IInv, Sound
<1>2. CASE StartBackfill
  BY <1>2 DEF StartBackfill, AtRest, AtWork
<1>3. Done(backfill).pc \in {"off", "next"} /\ (Done(backfill).pc = "off" => Done(backfill).todo = {})
  BY DEF Done, AtRest
<1>4. CASE BackfillChecks
  BY <1>1, <1>3, <1>4 DEF BackfillChecks, AtWork, TypeOK
<1>5. CASE BackfillReads
  BY <1>1, <1>5 DEF BackfillReads, AtWork, TypeOK
<1>6. CASE BackfillWrites
  BY <1>3, <1>6 DEF BackfillWrites, AtWork
<1>7. CASE UNCHANGED backfill
  BY <1>1, <1>7 DEF AtWork
<1> QED BY <1>2, <1>4, <1>5, <1>6, <1>7 DEF Next, RoomThread, Deliver, Redeliver, HandOver, Receive,
     Loop, Coroutine, CheckDuplicate, OnClue, ReadNumber, Commit, SetWatermark, Announce,
     ProcessWindow, WebAppend, Crash, PostUnseen, Restart, Backfill

(* Every step keeps the inductive invariant.                               *)
LEMMA NextIInv == IInv /\ [Next]_vars => IInv'
<1> SUFFICES ASSUME IInv, [Next]_vars
             PROVE  IInv'
  OBVIOUS
<1>1. Sound'
  BY NextSound DEF IInv
<1>2. CASE UNCHANGED vars
  <2>1. Daemon' /\ AtWork' /\ WindowIsSpan'
    BY <1>2 DEF IInv, Daemon, AtWork, WindowIsSpan, Follows, Clues, Message, IsClue, vars, memory, counts
  <2>2. Quiet'
    BY <1>2 DEF IInv, Quiet, Alone, NotYet, NumberFree, WindowClues, NothingLost, Newest,
                OpenWindow, Last, Settled, Clues, Message, IsClue, vars, memory, counts
  <2> QED BY <1>1, <2>1, <2>2 DEF IInv
<1>3. CASE Next
  <2>1. Daemon' /\ AtWork' /\ quiet' = quiet
    BY <1>3, DaemonStep, AtWorkStep, StepFacts
  <2>2. CASE ~quiet
    BY <1>1, <2>1, <2>2 DEF IInv, Quiet, WindowIsSpan
  <2>3. CASE quiet
    <3>1. ASSUME NEW k \in DOMAIN tasks, Coroutine(k)
          PROVE  Quiet' /\ WindowIsSpan'
      BY <2>3, <3>1, CheckDuplicateQuiet, OnClueQuiet, ReadNumberQuiet, CommitQuiet,
         SetWatermarkQuiet, AnnounceQuiet DEF Coroutine
    <3>2. Quiet' /\ WindowIsSpan'
      BY <1>3, <2>3, <3>1, ReceiveQuiet, HandOverQuiet, ProcessQuiet, WebAppendQuiet, DownQuiet,
         BackfillQuiet DEF Next, RoomThread, Loop
    <3> QED BY <1>1, <2>1, <3>2 DEF IInv
  <2> QED BY <2>2, <2>3
<1> QED BY <1>2, <1>3

(* The inductive invariant holds of an empty chat.                         *)
LEMMA InitIInv == Init => IInv
<1> SUFFICES ASSUME Init PROVE IInv
  OBVIOUS
<1>1. DOMAIN tasks = {} /\ DOMAIN windows = {} /\ Len(log) = 0
  BY DEF Init
<1>2. Sound /\ Daemon /\ AtWork /\ WindowIsSpan /\ Clues = {}
  BY <1>1, InitSound DEF Init, Daemon, AtWork, AtRest, WindowIsSpan, Clues, Message
<1>3. Quiet
  BY <1>1, <1>2 DEF Init, Quiet, Alone, NotYet, NumberFree, WindowClues, NothingLost, Newest,
     OpenWindow, AtRest, Message, Pending
<1> QED BY <1>2, <1>3 DEF IInv

(* The inductive invariant, which holds in every reachable state.          *)
THEOREM IngestInvariant == Spec => []IInv
BY InitIInv, NextIInv, PTL DEF Spec


(* A closed window of a quiet chat holds exactly the messages between its  *)
(* clue and the next, and its solver is who posted the latter.             *)
THEOREM WindowIsItsSpan == Spec => []WindowIsSpan
<1>1. IInv => WindowIsSpan
  BY DEF IInv
<1> QED BY <1>1, IngestInvariant, PTL

(* Once the daemon of a quiet chat has nothing left to do, every clue that *)
(* was posted is archived.                                                 *)
THEOREM PostedIsArchived == Spec => []PostedClueArchived
<1>1. IInv => PostedClueArchived
  BY DEF IInv, Quiet, NothingLost, PostedClueArchived, Busy, Archived, InArchive
<1> QED BY <1>1, IngestInvariant, PTL

(* The watermark of a quiet chat never goes back: the coroutine that sets  *)
(* it does so for the newest message.                                      *)
THEOREM WatermarkOnlyAdvances == Spec => WatermarkAdvances
<1> DEFINE Advances ==
      quiet /\ webClues = 0 /\ (redelivered = 0 \/ crashes = 0) => watermark' >= watermark
<1>1. IInv /\ [Next]_vars => Advances
  <2> SUFFICES ASSUME IInv, [Next]_vars, quiet, webClues = 0, redelivered = 0 \/ crashes = 0
               PROVE  watermark' >= watermark
    OBVIOUS
  <2>1. TypeOK /\ watermark \in Nat /\ Len(log) \in Nat
    <3>1. TypeOK
      BY DEF IInv, Sound
    <3> QED BY <3>1, Lengths DEF TypeOK
  <2>2. CASE UNCHANGED watermark
    BY <2>1, <2>2
  <2>3. ASSUME NEW k \in DOMAIN tasks, SetWatermark(k)
        PROVE  watermark' >= watermark
    <3>1. tasks[k].pc = "committed" /\ watermark' = tasks[k].msg
      BY <2>3 DEF SetWatermark
    <3>2. watermark' = Len(log)
      BY <2>1, <3>1, SettledPc DEF IInv, Quiet, Newest, Pc
    <3>3. watermark <= Len(log)
      BY <2>1 DEF IInv, Sound, WatermarkArchived, Archived, ArchivePosted, NoMessage
    <3> QED BY <2>1, <3>2, <3>3
  <2> QED BY <2>2, <2>3 DEF Next, RoomThread, Deliver, Redeliver, HandOver, Receive, Loop, Coroutine,
     CheckDuplicate, OnClue, ReadNumber, Commit, Announce, ProcessWindow, WebAppend, Crash, PostUnseen,
     Restart, Backfill, StartBackfill, BackfillChecks, BackfillReads, BackfillWrites, BackfillRests,
     vars, counts
<1>2. Spec => [][Advances]_vars
  BY <1>1, IngestInvariant, PTL DEF Spec
<1> QED BY <1>2 DEF WatermarkAdvances

(* What the backfill is done with is archived, or another clue has taken   *)
(* its number, which in a quiet chat only one of the web app does.         *)
THEOREM BackfillFillsIn == Spec => BackfillFills
<1> DEFINE Fills == \A m \in backfill.todo \ backfill'.todo :
       \/ Archived(m)'
       \/ backfill.number \in 1..Len(archive) /\ (~quiet \/ webClues > 0)
<1>1. IInv /\ [Next]_vars => Fills
  <2> SUFFICES ASSUME IInv, [Next]_vars, NEW m \in backfill.todo, m \notin backfill'.todo
               PROVE  \/ Archived(m)'
                      \/ backfill.number \in 1..Len(archive) /\ (~quiet \/ webClues > 0)
    OBVIOUS
  <2>1. TypeOK /\ Posted /\ Len(archive) \in Nat /\ backfill.pc # "off"
    BY Lengths DEF IInv, Sound, AtWork
  <2>2. Next /\ backfill' # backfill
    BY DEF vars
  <2>3. BackfillChecks \/ BackfillReads \/ BackfillWrites
    BY <2>1, <2>2 DEF Next, RoomThread, Deliver, Redeliver, HandOver, Receive, Loop, Coroutine,
      CheckDuplicate, OnClue, ReadNumber, Commit, SetWatermark, Announce, ProcessWindow, WebAppend,
      Crash, PostUnseen, Restart, Backfill, StartBackfill
  <2>4. backfill' = Done(backfill) /\ m = Current
    BY <2>1, <2>3, DoneTyped DEF BackfillChecks, BackfillReads, BackfillWrites, TypeOK
  <2>5. CASE Archived(Current)
    BY <2>2, <2>4, <2>5, StepGrows DEF IInv
  <2>6. CASE ~Archived(Current)
    <3>1. BackfillWrites
      BY <2>1, <2>3, <2>4, <2>6, DoneTyped DEF BackfillChecks, BackfillReads, TypeOK
    <3>2. CASE backfill.number <= Len(archive)
      <4>1. backfill.number \in 1..Len(archive)
        BY <2>1, <3>1, <3>2 DEF BackfillWrites, IInv, AtWork, TypeOK
      <4>2. quiet => webClues # 0
        BY <2>1, <3>1, <3>2 DEF BackfillWrites, IInv, Quiet, NumberFree
      <4>3. webClues \in Nat
        BY <2>1 DEF TypeOK
      <4> QED BY <4>1, <4>2, <4>3
    <3>3. CASE ~(backfill.number <= Len(archive))
      <4>1. PICK u \in {log[Current].user, Unknown} :
              archive' = Append(archive, [msg |-> Current, author |-> u])
        BY <2>6, <3>1, <3>3 DEF BackfillWrites
      <4> DEFINE r == [msg |-> m, author |-> u]
      <4>2. archive' = Append(archive, r) /\ r \in Row /\ r.msg = m /\ archive \in Seq(Row)
        BY <2>1, <2>4, <4>1, CurrentIsLowest DEF Row, TypeOK
      <4> HIDE DEF r
      <4>3. Len(archive) + 1 \in DOMAIN archive' /\ archive'[Len(archive) + 1] = r
        BY <4>2, GrownSequence
      <4> QED BY <4>2, <4>3 DEF Archived
    <3> QED BY <3>2, <3>3
  <2> QED BY <2>5, <2>6
<1>2. Spec => [][Fills]_vars
  BY <1>1, IngestInvariant, PTL DEF Spec
<1> QED BY <1>2 DEF BackfillFills

=============================================================================
