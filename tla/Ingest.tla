------------------------------- MODULE Ingest -------------------------------
(***************************************************************************)
(* The chat ingest daemon (app/services/ingest/daemon.py): sechat's room   *)
(* thread hands messages to the asyncio loop, where one coroutine per clue *)
(* dedupes, closes the previous clue's window, writes the clue, advances   *)
(* the watermark and announces milestones.  Coroutines interleave at every *)
(* await; the room thread runs beside them.  The web app appends clues of  *)
(* its own, the daemon may crash and be restarted, and an operator may run *)
(* backfill.py, which archives the clues a search of the chat has found.   *)
(*                                                                         *)
(* A message is its position in the chat log.  The bot's own messages,     *)
(* which the callback drops, are left out of the log.  The archive is the  *)
(* sequence of committed clues, so that a clue's legacy_number is its      *)
(* index: nobody inserts mid-chain or deletes here (Archive does).         *)
(***************************************************************************)
EXTENDS Integers, Sequences, FiniteSets

CONSTANTS
  User,             \* chat users
  Unknown,          \* the author backfill.py writes when the search shows none
  Text,             \* sorts of messages: [header, enumeration : BOOLEAN]
  Messages,         \* bound: length of the log of a busy chat
  QuietMessages,    \* bound: length of the log of a quiet chat
  MaxRedeliveries,  \* bound: messages the chat socket delivers again
  MaxCrashes,       \* bound: crashes of the daemon
  MaxWebClues,      \* bound: clues the web app appends
  MaxBackfills,     \* bound: runs of backfill.py
  MaxFaults         \* bound: the last four in one behaviour

ASSUME IngestAssumption ==
  /\ Text \subseteq [header : BOOLEAN, enumeration : BOOLEAN] /\ Unknown \notin User
  /\ {Messages, QuietMessages, MaxRedeliveries, MaxCrashes, MaxWebClues, MaxBackfills,
      MaxFaults} \subseteq Nat

NoMessage == 0   \* message_id NULL: a clue of the web app; no watermark yet

VARIABLES
  quiet,      \* nobody posts while the daemon or the backfill is at work
  log,        \* the chat so far: [text, user]
  room,       \* the message in the room thread and the window it will go to
  tasks,      \* the coroutines of _ingest_message, in the order they were scheduled
  windows,    \* the windows of this run of the daemon; the last one is open
  archive,    \* the clues table: [msg, author]
  watermark,  \* ingest_state
  announced,  \* milestone messages posted: [msg, author]
  backfill,   \* backfill.py: the clues it has yet to do, where it is
  up,         \* the daemon runs
  redelivered, crashes, webClues, backfills   \* counted against their bounds

memory == <<room, tasks, windows>>
counts == <<redelivered, crashes, webClues, backfills>>
vars   == <<quiet, log, memory, archive, watermark, announced, backfill, up, counts>>

Message == 1..Len(log)

Bounded == redelivered + crashes + webClues + backfills < MaxFaults

(* bound: in a busy chat a repeated message and a backfill, which both     *)
(* bring back what was posted, are not in one behaviour                    *)
OneOfBoth == quiet \/ redelivered + backfills = 0

(* a coroutine that has returned or raised *)
Ended == [msg |-> NoMessage, pc |-> "ended", number |-> 0, pill |-> 0]

Idle == [msg |-> NoMessage, target |-> 0]

(* decide: a clue has the header and an enumeration; what has only one is  *)
(* a near-miss, which is logged and no more                                *)
Decide(text) == text.header /\ text.enumeration

IsClue(m) == Decide(log[m].text)

-----------------------------------------------------------------------------
(* The room thread *)

Settled(k) == tasks[k] = Ended

Busy == \/ \E k \in DOMAIN tasks : ~Settled(k)
        \/ \E w \in DOMAIN windows : windows[w].fate = "closed"
        \/ backfill.pc # "off"

(* _on_message, up to the load of self._open whose add it will call *)
Receive(m) ==
  /\ up /\ room = Idle
  /\ room' = [msg |-> m, target |-> Len(windows)]
  /\ UNCHANGED <<quiet, tasks, windows, archive, watermark, announced, backfill, up,
                 crashes, webClues, backfills>>

(* somebody posts *)
Post == /\ Len(log) < IF quiet THEN QuietMessages ELSE Messages
        /\ \E t \in Text, u \in User : log' = Append(log, [text |-> t, user |-> u])

Deliver == /\ quiet => ~Busy
           /\ Post
           /\ Receive(Len(log) + 1)
           /\ UNCHANGED redelivered

(* a reconnecting socket, or a second listener thread, repeats a message *)
Redeliver == /\ redelivered < MaxRedeliveries /\ Bounded /\ OneOfBoth
             /\ quiet => ~Busy
             /\ \E m \in Message : Receive(m)
             /\ redelivered' = redelivered + 1
             /\ UNCHANGED log

(* Window.add and run_coroutine_threadsafe (a message that is no clue      *)
(* leaves no trace on the loop).  add ignores a closed window, unless the  *)
(* window was closed since it looked.                                      *)
HandOver ==
  /\ up /\ room # Idle
  /\ \/ /\ room.target # 0
        /\ windows' = [windows EXCEPT ![room.target].msgs = @ \cup {room.msg}]
     \/ /\ room.target # 0 => windows[room.target].fate # "open"
        /\ UNCHANGED windows
  /\ tasks' = IF IsClue(room.msg)
              THEN Append(tasks, [msg |-> room.msg, pc |-> "queued", number |-> 0, pill |-> 0])
              ELSE tasks
  /\ room' = Idle
  /\ UNCHANGED <<quiet, log, archive, watermark, announced, backfill, up, counts>>

-----------------------------------------------------------------------------
(* The coroutine of a clue *)

Archived(m) == \E n \in DOMAIN archive : archive[n].msg = m

Goto(k, l) == tasks' = [tasks EXCEPT ![k].pc = l]
End(k)     == tasks' = [tasks EXCEPT ![k] = Ended]

(* Mutant: an archived message still advances the watermark *)
CheckDuplicateMarks(k) ==
  /\ tasks[k].pc = "queued"
  /\ Goto(k, IF Archived(tasks[k].msg) THEN "committed" ELSE "checked")
  /\ UNCHANGED <<quiet, log, room, windows, archive, watermark, announced, backfill, up, counts>>

(* SELECT ... WHERE message_id: an archived message ends here *)
CheckDuplicate(k) ==
  /\ tasks[k].pc = "queued"
  /\ IF Archived(tasks[k].msg) THEN End(k) ELSE Goto(k, "checked")
  /\ UNCHANGED <<quiet, log, room, windows, archive, watermark, announced, backfill, up, counts>>

NewWindow(m) == [clue |-> m, msgs |-> {}, solver |-> {}, fate |-> "open"]

(* Mutant: the closing clue stays in the window *)
ClosedKeeping(w, m) == [w EXCEPT !.solver = {log[m].user}, !.fate = "closed"]

(* the window w, closed by the clue m *)
Closed(w, m) == [w EXCEPT !.msgs = @ \ {m}, !.solver = {log[m].user}, !.fate = "closed"]

(* WindowManager.on_clue: close the open window, open one for this clue *)
OnClue(k) ==
  /\ tasks[k].pc = "checked"
  /\ LET m   == tasks[k].msg
         old == [w \in DOMAIN windows |->
                   IF w = Len(windows) THEN Closed(windows[w], m) ELSE windows[w]]
     IN  windows' = Append(old, NewWindow(m))
  /\ Goto(k, "opened")
  /\ UNCHANGED <<quiet, log, room, archive, watermark, announced, backfill, up, counts>>

AuthorCount(u, n) == Cardinality({i \in 1..n : archive[i].author = u})

(* Mutant: the new number is the last one again *)
ReadNumberLast(k) ==
  /\ tasks[k].pc = "opened"
  /\ tasks' = [tasks EXCEPT ![k].pc = "numbered", ![k].number = Len(archive)]
  /\ UNCHANGED <<quiet, log, room, windows, archive, watermark, announced, backfill, up, counts>>

(* ingest_clue reads max(legacy_number) and counts the author's clues      *)
(* below it; the clues below a number never change, so one step is enough. *)
ReadNumber(k) ==
  /\ tasks[k].pc = "opened"
  /\ tasks' = [tasks EXCEPT
       ![k].pc     = "numbered",
       ![k].number = Len(archive) + 1,
       ![k].pill   = AuthorCount(log[tasks[k].msg].user, Len(archive)) + 1]
  /\ UNCHANGED <<quiet, log, room, windows, archive, watermark, announced, backfill, up, counts>>

(* Mutant: only the message id is unique, the number is not *)
CollidesOnMessage(k) == Archived(tasks[k].msg)

(* Mutant: only the number is unique, the message id is not *)
CollidesOnNumber(k) == tasks[k].number <= Len(archive)

(* the INSERT trips uq_clues_legacy_number or ux_clues_message_id *)
Collides(k) == tasks[k].number <= Len(archive) \/ Archived(tasks[k].msg)

(* Mutant: a failed INSERT does not end the coroutine *)
CommitRegardless(k) ==
  /\ tasks[k].pc = "numbered"
  /\ IF Collides(k)
     THEN UNCHANGED archive
     ELSE archive' = Append(archive, [msg    |-> tasks[k].msg,
                                      author |-> log[tasks[k].msg].user])
  /\ Goto(k, "committed")
  /\ UNCHANGED <<quiet, log, room, windows, watermark, announced, backfill, up, counts>>

(* the INSERT commits, or its IntegrityError ends the coroutine: nobody    *)
(* awaits the future it is left in                                         *)
Commit(k) ==
  /\ tasks[k].pc = "numbered"
  /\ IF Collides(k)
     THEN UNCHANGED archive /\ End(k)
     ELSE /\ archive' = Append(archive, [msg    |-> tasks[k].msg,
                                         author |-> log[tasks[k].msg].user])
          /\ Goto(k, "committed")
  /\ UNCHANGED <<quiet, log, room, windows, watermark, announced, backfill, up, counts>>

(* set_watermark, a transaction of its own, whatever the watermark is now *)
SetWatermark(k) ==
  /\ tasks[k].pc = "committed"
  /\ watermark' = tasks[k].msg
  /\ Goto(k, "marked")
  /\ UNCHANGED <<quiet, log, room, windows, archive, announced, backfill, up, counts>>

(* the author's first clue (that it congratulates on the fiftieth too, and *)
(* on round numbers of the archive, is left out)                           *)
Milestone(k) == tasks[k].pill = 1

(* the milestone is announced; room.send may fail and is only logged *)
Announce(k) ==
  /\ tasks[k].pc = "marked"
  /\ \/ /\ Milestone(k)
        /\ announced' = announced \cup
             {[msg |-> tasks[k].msg, author |-> log[tasks[k].msg].user]}
     \/ UNCHANGED announced
  /\ End(k)
  /\ UNCHANGED <<quiet, log, room, windows, archive, watermark, backfill, up, counts>>

Coroutine(k) == \/ CheckDuplicate(k) \/ OnClue(k) \/ ReadNumber(k)
                \/ Commit(k) \/ SetWatermark(k) \/ Announce(k)

(* process_window on the loop: a window whose clue is not in the table yet *)
(* is skipped for good, the others leave their candidates                  *)
ProcessWindow(w) ==
  /\ windows[w].fate = "closed"
  /\ windows' = [windows EXCEPT
       ![w].fate = IF Archived(windows[w].clue) THEN "stored" ELSE "skipped"]
  /\ UNCHANGED <<quiet, log, room, tasks, archive, watermark, announced, backfill, up, counts>>

-----------------------------------------------------------------------------
(* Around the daemon *)

(* POST /api/clues without a number *)
WebAppend ==
  /\ webClues < MaxWebClues /\ Bounded
  /\ \E u \in User : archive' = Append(archive, [msg |-> NoMessage, author |-> u])
  /\ webClues' = webClues + 1
  /\ UNCHANGED <<quiet, log, memory, watermark, announced, backfill, up, redelivered, crashes, backfills>>

(* everything in memory is lost; transactions not yet committed roll back *)
Crash ==
  /\ up /\ crashes < MaxCrashes /\ Bounded
  /\ up' = FALSE /\ crashes' = crashes + 1
  /\ room' = Idle /\ tasks' = <<>> /\ windows' = <<>>
  /\ UNCHANGED <<quiet, log, archive, watermark, announced, backfill, redelivered, webClues, backfills>>

(* a message posted while the daemon is down *)
PostUnseen ==
  /\ ~up
  /\ Post
  /\ UNCHANGED <<quiet, memory, archive, watermark, announced, backfill, up, counts>>

(* run() connects and listens from now on; it never reads the watermark *)
Restart ==
  /\ ~up
  /\ up' = TRUE
  /\ UNCHANGED <<quiet, log, memory, archive, watermark, announced, backfill, counts>>

-----------------------------------------------------------------------------
(* backfill.py, a process of its own *)

AtRest == [pc |-> "off", todo |-> {}, number |-> 0]

Current == CHOOSE m \in backfill.todo : \A c \in backfill.todo : m <= c

BackfillRests ==
  UNCHANGED <<quiet, log, memory, watermark, announced, up, redelivered, crashes, webClues>>

(* the feed and the searches find some of the chat; of it the clues remain *)
StartBackfill ==
  /\ backfill.pc = "off" /\ backfills < MaxBackfills /\ Bounded /\ OneOfBoth
  /\ quiet => ~Busy /\ room = Idle
  /\ \E found \in (SUBSET {m \in Message : IsClue(m)}) \ {{}} :
       backfill' = [AtRest EXCEPT !.pc = "next", !.todo = found]
  /\ backfills' = backfills + 1
  /\ UNCHANGED archive /\ BackfillRests

(* with the one it has just done *)
Done(b) == LET rest == b.todo \ {Current}
           IN  IF rest = {} THEN AtRest ELSE [AtRest EXCEPT !.pc = "next", !.todo = rest]

(* in the order of their ids; an archived message is skipped *)
BackfillChecks ==
  /\ backfill.pc = "next"
  /\ backfill' = IF Archived(Current) THEN Done(backfill) ELSE [backfill EXCEPT !.pc = "checked"]
  /\ UNCHANGED <<archive, backfills>> /\ BackfillRests

(* Mutant: the new number is the last one again *)
BackfillReadsLast ==
  /\ backfill.pc = "checked"
  /\ backfill' = [backfill EXCEPT !.pc = "numbered", !.number = Len(archive)]
  /\ UNCHANGED <<archive, backfills>> /\ BackfillRests

(* ingest_clue, with the author if the feed had the message *)
BackfillReads ==
  /\ backfill.pc = "checked"
  /\ backfill' = [backfill EXCEPT !.pc = "numbered", !.number = Len(archive) + 1]
  /\ UNCHANGED <<archive, backfills>> /\ BackfillRests

(* an error is logged, and the next message is taken *)
BackfillWrites ==
  /\ backfill.pc = "numbered"
  /\ IF backfill.number <= Len(archive) \/ Archived(Current)
     THEN UNCHANGED archive
     ELSE \E u \in {log[Current].user, Unknown} :
            archive' = Append(archive, [msg |-> Current, author |-> u])
  /\ backfill' = Done(backfill)
  /\ UNCHANGED backfills /\ BackfillRests

Backfill == StartBackfill \/ BackfillChecks \/ BackfillReads \/ BackfillWrites

-----------------------------------------------------------------------------

Init ==
  /\ quiet \in BOOLEAN
  /\ log = <<>>
  /\ room = Idle /\ tasks = <<>> /\ windows = <<>>
  /\ archive = <<>> /\ watermark = NoMessage /\ announced = {}
  /\ backfill = AtRest
  /\ up = TRUE
  /\ redelivered = 0 /\ crashes = 0 /\ webClues = 0 /\ backfills = 0

RoomThread == Deliver \/ Redeliver \/ HandOver
Loop == \/ \E k \in DOMAIN tasks : Coroutine(k)
        \/ \E w \in DOMAIN windows : ProcessWindow(w)

Next == RoomThread \/ Loop \/ WebAppend \/ Crash \/ PostUnseen \/ Restart \/ Backfill

Spec == Init /\ [][Next]_vars

-----------------------------------------------------------------------------
(* Correctness *)

(* A chat message becomes at most one clue, however often it is delivered  *)
(* and however its coroutines interleave: the lookup of CheckDuplicate is  *)
(* not enough, ux_clues_message_id is what holds.                          *)
IngestedOnce == \A i, j \in DOMAIN archive :
                  archive[i].msg = archive[j].msg /\ archive[i].msg # NoMessage => i = j

(* The watermark never names a clue that is not in the archive: a crash or *)
(* an IntegrityError before the commit leaves it where it was.             *)
WatermarkArchived == watermark # NoMessage => Archived(watermark)

(* "just posted their very first clue!" is said only of a clue that is its *)
(* author's lowest in the archive, although the pill it goes by was        *)
(* counted before the commit, while other coroutines and the web app add   *)
(* clues of the same author.                                               *)
FirstClueIsFirst ==
  \A a \in announced : \E n \in DOMAIN archive :
    archive[n].msg = a.msg /\ \A i \in 1..(n - 1) : archive[i].author # a.author

Clues == {m \in Message : IsClue(m)}

Follows(c, m) == c > m /\ \A d \in Clues : d > m => c <= d

(* The documented span (A, B): a closed window holds exactly the messages  *)
(* posted between its clue and the clue that follows, near-misses among    *)
(* them, and its solver is the author of the latter.  It takes a chat that *)
(* waits for the loop, where a clue is not posted before the window of the *)
(* last one is open, a socket that repeats nothing, and a daemon that runs.*)
(* And in such a chat a window is thrown away only with its clue: if       *)
(* process_window did not find the clue, its commit failed for a clue of   *)
(* the web app.                                                            *)
WindowIsSpan ==
  /\ quiet /\ redelivered = 0 /\ crashes = 0 =>
    \A w \in DOMAIN windows : windows[w].fate # "open" =>
      \E c \in Clues : /\ Follows(c, windows[w].clue)
                       /\ windows[w].msgs = (windows[w].clue + 1)..(c - 1)
                       /\ windows[w].solver = {log[c].user}
  /\ quiet => \A w \in DOMAIN windows : windows[w].fate = "skipped" => webClues > 0

(* "Advance the watermark": it never goes back to an older message, as     *)
(* long as the coroutines of two clues do not overlap, none fails, and the *)
(* socket does not repeat, after a restart, a clue the crash had lost.     *)
WatermarkAdvances ==
  [][quiet /\ webClues = 0 /\ (redelivered = 0 \/ crashes = 0) => watermark' >= watermark]_vars

(* A quiet chat loses a clue only to a crash or to a clue of the web app   *)
(* that took its number: once the daemon has nothing left to do, all that  *)
(* was posted is archived.                                                 *)
PostedClueArchived ==
  quiet /\ crashes = 0 /\ webClues = 0 /\ room = Idle /\ ~Busy => \A m \in Clues : Archived(m)

(* What a crash has lost the operator can bring back: a clue the backfill  *)
(* has dealt with is archived, by it or meanwhile by the daemon.  Only in  *)
(* a chat that is not quiet, or beside the web app, another clue can take  *)
(* its number; the error is logged, the clue stays out until the next run. *)
BackfillFills ==
  [][\A m \in backfill.todo \ backfill'.todo :
       \/ Archived(m)'
       \/ backfill.number \in 1..Len(archive) /\ (~quiet \/ webClues > 0)]_vars
=============================================================================
