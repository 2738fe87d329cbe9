# Models and proofs of the CCCC archive

The program archives the clues of a chat room's crossword-clue chain. Two
processes work on one PostgreSQL database (READ COMMITTED, ORM sessions with
`expire_on_commit=False`): the **web app** (FastAPI, `app/main.py`), where editors
add, move, edit and delete clues and resolve candidate solutions, and the **chat
ingest daemon** (`app/services/ingest`), which listens to the room through the
vendored `sechat` library, archives new clues, collects the messages between two
clues and has them searched for solutions, in part by an LLM. Scripts import and
repair data.

Line numbers below are those of the repository.

## 1. Inventory

| Component | State it keeps | Operations | What makes it correct |
|---|---|---|---|
| Clue archive (`clue_service.py`, `api/clues.py`, `models/clue.py`, pill repairs) | table `clues`: `legacy_number`, author, solver, two stored "pills" (Nth clue by author / solver); partial unique index | append, insert mid-chain, move, edit, delete, backfill pills, migration 005 | numbers unique; clues not touched keep their order; pills equal the counts they are defined as; concurrent transactions keep all this and end |
| Review (`api/review.py`, `models/solution.py`) | `clue_candidates` and their status; the clue's solution; the sessions' identity maps | propose, approve (two commits), reject, manual solve | a solution and its solver belong together; a candidate is resolved once; an approval is whole; pruning keeps the best |
| Chat ingest daemon (`daemon.py`, `window_manager.py`, `window.py`, `state.py`) | windows in memory (shared by room thread and loop), coroutines, `ingest_state.watermark` | receive, dedupe, open/close window, ingest, watermark, announce, crash, restart | each message at most one clue; every clue archived; a window is the span between two clues; the watermark and the milestones are true |
| LLM queue (`llm_worker.py`, `persist.py`, `models/solution.py`) | `pending_llm`; the worker's batch, failure count and circuit | detect/enqueue, drain, answer, retry, give up, circuit, crash | no task lost, none answered twice or left half-answered; the queue moves |
| sechat room (`sechat/__init__.py`) | `running`, `thread`, the websocket, `lastPing` | run, connect, halt, leaveAllRooms at exit | one listener, two at most after a halt; it survives failed reconnects; halt and the exit return |
| Accept rule (`accept.py`) | none | decide | a pure function of a message |
| Detection (`solutions.py`) | none | detect: extractions, hash proof, author's confirmation, replies, residue for the LLM | one candidate per answer and solver, the strongest; no message of the solver overlooked |
| Sequences (`api/sequences.py`, `models/sequence.py`) | `sequences` (type, tag, author, legacy key), `clue_sequences` | create, edit, delete, set/add/remove clues, add an author's recent clues | a change does what its answer says and undoes nobody else's; an import is whole and leaves manual work alone |
| Access (`api/admin.py`, `api/auth.py`, `main.py` middleware) | `users` with admin and editor flags, signed cookie | login, callback, add/remove editor | only current editors write; a revocation stands |
| Start-up (`main.py` lifespan, migrations) | schema, an editor's flag, solver pills | run every migration at every start | idempotent on live data |
| Scripts (`import_csv`, `import_sequences`, `backfill_message_ids`, `backfill.py`) | what they have read | bulk import and repair | may die and be run again; a clue keeps its own text, message and place |
| Statistics (`main.py`: `/user/<name>`, `/stats`) | none | streaks, concurrent sequences | the numbers shown are what they are said to be |
| Other pages, search, preview, transcript parser, chat client, configuration | -- | reads, rendering, HTTP | -- |

How they interact. The room thread calls `IngestDaemon._on_message`
synchronously; it touches the open window directly and hands clues to the asyncio
loop by `run_coroutine_threadsafe`, dropping the future. On the loop a coroutine
per clue calls `ingest_clue` (the same function as `POST /api/clues`) and the
window manager, which starts `process_window` for the window just closed; this
writes candidates and LLM tasks. The LLM worker is another task of that loop. The
web app, the daemon and the scripts meet only in the database: at the unique
indexes, at the locks of renumberings, at cascading deletes. The containers order
some of them: `import_csv --if-empty` runs before the web app, `backfill_message_ids`
before the daemon (`docker-compose.yml`); the other scripts an operator runs by hand
beside the live system.

What is hard: interleaving of coroutines at every await and of the room thread
with them; transactions that read, wait and write; renumbering under dropped
indexes and its locks; ORM sessions that write what they read long ago; crashes
between two commits; repeated or lost messages; a poisoned task in the queue; a
listener thread that restarts itself. `PROJECT.json` lists each hazard at its line.

## 2. Modules

| Module | Models | Uses |
|---|---|---|
| `Numbering` | arithmetic of `legacy_number`: next number, shift, move | |
| `Chain` | **abstract**: one clue comes, goes or moves; all others keep their order | Numbering |
| `Archive` | the operations on `clues` as atomic transactions, with pills | Numbering; implements Chain |
| `ClueTxn` | the same operations as transactions of statements with PostgreSQL's locks | Numbering; implements Chain |
| `Ingest` | the daemon: room thread, accept rule, coroutines, windows, watermark, crash; `backfill.py` beside it | |
| `LlmQueue` | the coroutines of `process_window`, which may overlap, and the worker | |
| `Review` | editors' sessions on one clue's candidates | |
| `Room` | the listener thread of sechat, halt and the exit of the process | |
| `Detect` | one window from its first message to the candidates and LLM tasks found in it | |
| `Access` | accounts: login, editors, the start of the web app | |
| `Membership` | sequences and their clues, edited by requests and recreated by `import_sequences` | extends Access |
| `Imports` | `import_csv` and `backfill_message_ids` beside the daemon and an editor | |
| `Stats` | streaks and concurrency over the tables that requests leave | |
| `MC*` | instances for TLC | |
| `NumberingProofs` | lemmas about renumbering, and that numbers are well-ordered | Numbering, TLAPS |
| `ArchiveProofs`, `ClueTxnProofs` | theorems about these modules | NumberingProofs |
| `IngestProofs` | theorems about Ingest | the well-order of NumberingProofs |
| `DaemonProofs` | theorems about LlmQueue, Room and Detect, one part each | the well-order of NumberingProofs |
| `WebProofs` | theorems about Membership (with Access) and Stats, one part each | the well-order of NumberingProofs |
| `ReviewProofs`, `ImportsProofs` | theorems about these modules | TLAPS |

Where one module of proofs is about several components, their `Init`, `Next` and `Spec` carry
the component's name (`RoomSpec`, `DetectSpec`, `StatsSpec`). The components themselves share
nothing.

**Archive.** `clues` is a function from ids in use to rows. `Append`, `Insert`,
`Update`, `Delete` are the endpoints with the service function they call
(`Update` is a PUT that carries any subset of number, author and solver: `Unset`
is a field it does not carry, `None` is NULL). `RecomputePills` is
`_recompute_pills`; note that `InsertClue` calls it before the new row exists, as
the code does. `OwnAuthorPill`/`OwnSolverPill` are the counts the code writes to the
row itself. `BackfillPills` is the script, `RecountSolverPills` is migration 005,
which the web app runs at each start.

**ClueTxn.** Each transaction is a program counter over its statements:
`start`, `selected` (it has read max or its row), `serial` (advisory lock held),
`nulled` (its row's number set to NULL), `exclusive` (index dropped), `written`,
then `committed` or `aborted`. The locks held follow from it (`TableLock`,
`HoldsAdvisory`, `HoldsRow`, `IndexHolders`), and so who blocks whom
(`Blockers`). The shift, the new index, the row and the commit are one step,
because ACCESS EXCLUSIVE keeps everyone else out. `TableLock` and
`Blockers` are the order of the code's statements together with the lock modes that
PostgreSQL gives them; the rest of the lock rules is marked external.

**Ingest.** `room` is the message in the room thread, together with the window
it loaded before the loop may close it (the race in `Window.add`). `tasks` are the
coroutines, by `pc` between their awaits; `windows` are the windows of this run;
`archive` the sequence of committed clues. `Collides` is the pair of unique
indexes. `Crash` empties the memory and keeps the tables; `Restart` does not read
the watermark, although `daemon.py:13-15` says so (README.md:361-363 admits it), so
that `PostUnseen` loses what is posted in between. `backfill` is `backfill.py`: which
clues its searches find is a choice, then it goes through them by their ids.
`quiet` is chosen once: whether people post while the daemon or the backfill is at
work. Everything else happens in both sorts of chat.

**LlmQueue.** `detection` holds the coroutines of `process_window` by the number of
their window, each between its two SELECTs and its commit; the daemon schedules one for
each window that closes (`daemon.py:220-226`), so two of one clue may overlap. `upTo` is
the last task in a coroutine's snapshot, recorded for a property. `batch` is the rows the worker holds in its session; `Commit` writes them back
with their candidates and fails as a whole when a row has gone (StaleDataError).
`Error` is an exception that `_call_llm` does not translate into
`_LlmUnavailable`.

**Review.** A session is what a request has loaded. `Merged` is the UPDATE
the ORM emits: only attributes that differ from the loaded ones. `CommitClue` and
`CommitApproval` are the two commits of an approval; `Flush` locks the candidate.

**Room.** One program counter per listener thread; `running`, `thread` and the
socket are shared, as in the class. `faults` picks, for each behaviour, which
unexpected things may happen, so that a property can say under which it holds. An error of
`recv` ends the thread with `running` cleared, or still set when the request to leave
raises first.
`LeaveAllRooms` is the `atexit` hook: it clears `running` and then joins the thread,
whether or not `running` was set.

**Detect.** A text is a sequence of words, a word the numbers of its upper- and
lower-case letters: that is all the extractions look at. Whether a message is a
confirmation, or holds part of one, and whether it carries a digest are fields of
their own. Scores are integers in units of 1/120 and 1/1200, so that the averages of
`_enum_fit_score` are exact. The operators have the order of `detect`: `Extractions`,
`Proven`, `Confirmed`, `Replied`, then `Dedupe`; `Process` persists what they return, as
the first `process_window` of its clue does.

**Access and Membership.** A request is a record of what it does and what it has read:
`loaded` is the account as the ORM loaded it, `seen` the members of the sequence.
`SaveLogin` and `SaveEditor` write the attributes that differ from the loaded ones
(`SignedIn`). A change of a membership is two steps: the first is what is read, with the
DELETE of a set; `Commit` is the INSERTs with primary and foreign keys.
`Remaining` is what PostgreSQL lets a DELETE that waited do: rows that another one
removed are skipped, new ones of the same key are not seen. `ImportReads`,
`ImportWipes`, `ImportLinks` are the SELECT and the two transactions of
`import_sequences`; the import may die after each.

**Imports.** Row n of the spreadsheet holds text n, and text t is posted in message t,
so that what belongs together can be told. `ImportBatch` is one upsert with its commit;
a backfill loads, compares with the ids that are taken, and writes one row after the
other. The daemon begins to listen when its backfill has ended.

**Stats.** `MaxStreak`, `CurrentStreak`, `MaxDays`, `CurrentDays` are the walks over the
sorted values (as recursive functions); `Moments` are the counts after each event of a
day, in the order of the sweep. The actions are the requests that change what these
read, so that the inputs are the tables the program can have.

## 3. What the runs check

| Run | Instance | Shows |
|---|---|---|
| `archive` | 3 clues, 2 authors, 1 solver who also posts, positions 1-4 | `UniqueNumbers`; `ImplementsChain` (refinement of Chain); `ExactUnlessRewritten`: pills drift only by a delete, an edit of a name or an insert before other clues; `DriftHeals`: what an update, and a restart of the web app, repair |
| `archive_pills` | same | **violated**: `InsertKeepsPills`, that the recount of an insert leaves the pills of an exact archive exact |
| `clue_txn` | 3 transactions of any kind, 1 clue at the start, positions 1-2 | `ImplementsChain` again, now of the interleaved statements; `OldNumberCurrent`; `DeadlockNeedsMove`; `EveryTxnEnds` |
| `clue_txn_deadlock` | same | **violated**: `NoDeadlock`, what the comments say of the advisory lock |
| `ingest` | 2 users; busy chats of 2 messages, quiet chats of 4; one redelivery, crash, clue of the web app and backfill each, two of these together | `IngestedOnce`, `WatermarkArchived`, `FirstClueIsFirst` of every chat; `WindowIsSpan`, `PostedClueArchived`, `WatermarkAdvances` of quiet ones; `BackfillFills` |
| `review` | 2 editors, 4 candidates of two confidences | `WholeSolution`, `ApprovalComplete`, `ResolvedOnce`, `PruneKeepsBest`, `EveryRequestEnds` |
| `daemon` | LlmQueue: 2 messages, one of them poison, batch 2, retries 2, circuit 2, 2 windows that may overlap, 1 crash | `AnsweredIsDone`, `SettledForGood`, `OnlyOverlapsRepeat`, `EveryTaskSettles` |
| | Room: 4 threads, 1 halt and the exit, any set of faults | `ListenerPerHalt`, `Reconnects`, `HaltReturns` |
| | Detect: 2 messages of 11 sorts by 2 users, enumerations (1), (4), (2, 2), (2-2) | `EvidenceCounts` (with one candidate per answer and solver), `NothingOverlooked`, `ExactCapitalsAreSure` |
| `llm_queue_twice` | the queue of `daemon` | **violated**: `PendingOnce`, that repeated windows never enqueue a message twice |
| `membership` | 2 requests at a time, 2 users, one a moderator, 2 clues, a sequence by hand and two groups of one key, 4 events, 1 import | `EditsCompose`, `ImportIsSpreadsheet`, `RevocationStands` |
| `imports` | 2 batches of 2 and 1 clues, 3 texts posted live, 2 imports, 2 backfills, 2 edits | `MessageFollowsClue`, `BackfillProtects` |
| `stats` | 3 sequences, numbers to 4 over 3 days, to 8 within one day | `StreaksAreRuns`, `MostConcurrent`, `SeriesCoversOverlap`, against reference definitions |
| `stats_series` | same | **violated**: `SeriesIsOverlap`; the series counts a moment between two closes |

`daemon` is three components in one run: they share no variable and no property speaks of
two of them, so each is explored while the others rest in one initial state (the sum of
their state spaces, not the product; `MCDaemon`). At rest nothing that their fairness is
about is enabled.

Some properties name the condition they hold under, because the code does not keep
them without it; the condition is what a reader should take away:

- `WindowIsSpan`, `WatermarkAdvances` and `PostedClueArchived` hold of a quiet chat.
  In a busy one a message can reach the window of the wrong clue, coroutines finish in
  any order and move the watermark back, and of two overlapping clues one can lose its
  number and with it the clue. A repeated clue that arrives while its first coroutine
  is at work opens a second window.
- `PostedClueArchived`, `BackfillFills` and the last conjunct of `WindowIsSpan` exempt a
  clue of the web app that takes the number at that moment: neither program retries.
- Without a backfill a clue posted while the daemon is down is lost:
  `PostedClueArchived` asks for a behaviour without crashes.
- `ExactUnlessRewritten` excepts an insert before other clues, which breaks what the
  docstring of `_recompute_pills` says (`clue_service.py:35-40`: "if the inserted clue is
  by the same author, every later clue by that author gains one"), and `README.md:354-356`
  of the repository too: the recount (143) runs before the new row is there (168).
  `archive_pills` shows it in three states; the theorem `InsertsFallShort` says by how much
  the pills are wrong, which is one, for every later clue of that author or solver.
- `OnlyOverlapsRepeat` allows a second pending task of a message where two coroutines
  overlap. `persist.py:47-48` says that `process_window` is "Safe to call multiple times
  (dedupes on source_message_id + solution)"; but neither coroutine's SELECTs (166-182)
  see what the other has not committed (109), and the table has no unique constraint.
  `llm_queue_twice` shows it. Every task that was there at a coroutine's last SELECT does
  count, however the worker, editors and other windows act between it and the COMMIT.
- `ExactCapitalsAreSure` excepts enumerations with a hyphen, which `accept.py` admits and
  `_enumeration_lengths` does not read, and single capitals: `_extract_caps_words` and the
  concatenation both ask for two, so that a clue of one letter is never answered by a
  capital with confidence. (The proof found this exception; the run had no such enumeration
  until then, and now has one.)
- `ResolvedOnce`, `WholeSolution` and `PruneKeepsBest` hold of editors who work one
  after the other; `ApprovalComplete` of requests that are not cut off. Editors at
  work at the same time can resolve one candidate twice, as the 409 is decided on the
  status that was loaded.
- `EveryTaskSettles` exempts queues with a message whose answer raises for ever.
- `NothingOverlooked` excepts messages that are nothing but a confirmation: an answer
  like "nice" where the enumeration is (4) is neither listed nor given to the LLM.
- `ListenerPerHalt` allows a second listener after a halt, and any number after several
  halts with exceptions: an exception ends the thread that `halt` waits for, `halt`
  returns with two others left, and the next one can leave each of them a successor.
- `Reconnects` exempts the `KeyError` of a ws-auth answer without url, malformed
  events, unexpected errors of `recv` and connections that die silently; `HaltReturns` a reconnect, or a
  thread just started, that sets `running` again.
- `EditsCompose` speaks of what a change is concerned with: a set next to an addition
  leaves both.
- `ImportIsSpreadsheet` exempts clues that are renumbered after the script has read the
  numbers; whatever an editor did to an imported sequence is gone after it.
- `MessageFollowsClue` holds until an import meets an archive whose numbers differ from
  the spreadsheet's; `import_csv` without `--if-empty` is safe on an archive nobody
  inserted into. A daemon that runs before the import is complete is enough to make them
  differ.
- `RevocationStands` excepts moderators, whom each login makes editors, and the editor that
  migration 002 names, at each restart.

Deadlock is checked in the runs of `Archive` and `Stats`. The other modules may stop:
every transaction has ended, the log or the bounded events are used up, the room is
left; their configurations say `CHECK_DEADLOCK FALSE`. That `ClueTxn`, `Review`,
`LlmQueue` and `Room` do not stop early is what their liveness properties say.

**Bounds.** `MaxNumber` caps numbers one above the number of clues, so that
inserts and moves past the end occur. Three transactions are enough for each pair
of operations to meet under the watch of a third, and for a wait cycle of three.
In `Ingest` two messages give every overlap of two coroutines (with the
redelivery: of three); quiet chats have four, so that a window with messages has a
window before and after it; `MaxFaults` is 2, so that any two of a crash, a repetition, a
clue of the web app and a backfill meet (but a repetition and a backfill only in a quiet
chat: both do the same, bring back a message). Four candidates are the least with which an approval
prunes one while another is proposed. Two attempts and a circuit of two make
"last retry" and "circuit opens" different events in `LlmQueue`; two windows are one
overlap, and a third would add only another of the same. Four threads
let a halt and the exit each meet a reconnect; a `Reconnect` that finds none unused is
not taken. How many threads there are matters to `ListenerPerHalt`: a bound of one
listener more for each halt holds of four threads and of one halt, and fails with five
threads and two. The proof is for any number of either. The tiers of `Detect`
look at one message or at a pair, so two messages show each tier and each pair of
tiers finding the same answer; `ShortMessage` is 2 for the code's 25 words. In
`Membership` the events are shared by requests, edits and restarts: four are two
overlapping changes with an edit before and one between them. In `Imports` the text 3 is
in the spreadsheet and posted live, which is how a clue comes to be archived twice. In
`Stats` three sequences are the least of which two end on the day before one begins;
streaks do not depend on dates, so that longer chains are taken in behaviours of one day.

**Fairness.** Weak fairness of whatever the runtime schedules: a session's next
statement and PostgreSQL's deadlock detector (`ClueTxn`); the worker's coroutine
whose calls all time out (`LlmQueue`; the coroutines of `process_window` need none);
each listener thread, and `join` (`Room`).
Strong fairness twice: in `Review` for a request's steps, because PostgreSQL
queues those who wait for a row lock, and in `Room` for a successful reconnect
of any thread, because the loop retries for ever and no outage is eternal. No fairness for crashes,
cancellations, editors, or the provider being available; none in `Ingest`,
`Membership`, `Imports` and `Stats`, whose properties are of steps and states.
`PostedClueArchived` is stated of the states in which the daemon has nothing left to do.

## 4. What is proved

Eight modules hold the proofs. Each theorem is for every value of the constants: any
number of clues, transactions, messages, candidates, editors, rows and threads, and any
bound (the bounds of TLC's instances are among the constants). Every inductive
invariant was first checked by TLC on the instance of its run (that of `Room` on five
threads and two halts).

| Module | Theorems, and the properties they state |
|---|---|
| `ArchiveProofs` | `TypeCorrect` (`TypeOK`), `NumbersUnique` (`UniqueNumbers`), `ArchiveIsChain` (`ImplementsChain`), `PillsStayExact` (`ExactUnlessRewritten`), `UpdatesAndRestartsHeal` (`DriftHeals`), and `InsertsFallShort`, the exact size of the error an insert makes |
| `ClueTxnProofs` | `OldNumberStaysCurrent` (`OldNumberCurrent`), `DeadlocksNeedMoves` (`DeadlockNeedsMove`), `TxnIsChain` (`ImplementsChain`) |
| `IngestProofs` | `IngestedAtMostOnce` (`IngestedOnce`), `WatermarkIsArchived` (`WatermarkArchived`), `MilestoneIsFirst` (`FirstClueIsFirst`), `WindowIsItsSpan` (`WindowIsSpan`), `PostedIsArchived` (`PostedClueArchived`), `WatermarkOnlyAdvances` (`WatermarkAdvances`), `BackfillFillsIn` (`BackfillFills`) |
| `DaemonProofs` | `AnsweredStaysDone` (`AnsweredIsDone`), `OverlapsAloneRepeat` (`OnlyOverlapsRepeat`), `SettledStays` (`SettledForGood`); `FewListeners` (`ListenerPerHalt`); `EvidenceIsKept` (`EvidenceCounts`), `CapitalsAreSure` (`ExactCapitalsAreSure`), `NoMessageOverlooked` (`NothingOverlooked`) |
| `ReviewProofs` | `SolutionIsWhole` (`WholeSolution`), `ApprovalIsComplete` (`ApprovalComplete`), `ResolvedStays` (`ResolvedOnce`), `PruneSparesBest` (`PruneKeepsBest`) |
| `ImportsProofs` | `MessageIsOfClue` (`MessageFollowsClue`), `BackfilledOnce` (`BackfillProtects`) |
| `WebProofs` | `EditsDoCompose` (`EditsCompose`), `ImportsTheSpreadsheet` (`ImportIsSpreadsheet`), `RevocationsStand` (`RevocationStands`); `StreaksCountRuns` (`StreaksAreRuns`), `SweepIsRight` (`MostConcurrent`), `SeriesShowsEnough` (`SeriesCoversOverlap`) |

They rest on theorems about the inductive invariants, one or two for each component:
`Invariance`, `TxnLocked`, `IngestSound` and `IngestInvariant`, `QueueSound`, `RoomSound`,
`DetectSound`, `ReviewSound`, `ImportsSound` (with `KeysStayUnique`), `MembershipSound` and
`StatsTypeCorrect`.

So every property that a passing run checks is proved, but for the five liveness
properties of `clue_txn`, `review` and `daemon`.

**Archive.** The invariant is `TypeOK`, `UniqueNumbers` and that a clue without a solver
has no solver pill. Uniqueness is inductive only for well-formed tables, and an append
gives a number greater than all others only where numbers are integers; finiteness is part
of `TypeOK`, as the pills are cardinalities; the third part is what migration 005 needs
when it skips the clues without a solver. The argument about the pills: a renumbering
touches nothing below a number `low` (`ShiftUpLocal`, `MoveToLocal`), and the recount
starts at `low`. Below it, who is counted has not changed (`CountsAgree`); from there on
pills are fresh (`RenumberingHeals`). A clue's own pill, counted as the clues strictly
before it plus one, is the same number where numbers are unique (`OwnPillExact`); and a
new row adds one to the counts of its author and solver from its number on (`CountAdds`),
which is by how much `ingest_clue` leaves the later pills short. Each operation is shown
to be a step of Chain that touches its clue, or none.

**ClueTxn.** `Locked` says what the locks mean for the program counters: while one
transaction has dropped the index, no other holds a lock on the table (`TableExclusive`);
a clue is in the table only after its transaction's commit, and a row that was selected is
one of those (`Entered`); the number of an append that has written its row is taken by
nobody (`Reserved`), and the one a move has read is still its clue's (`OldNumberCurrent`).
With it every step that commits is a step of Chain. That a deadlock has a move in it needs
of `Locked` only which statements each kind of operation has (`Ways`): in a cycle
without moves an insert waits for somebody who has selected, he for one that writes, and
that one for nobody (`MoveInCycle`).

**Ingest.** `Sound` is about the tables and holds in every chat: no message is archived
twice, the watermark names an archived one, and what a coroutine knows between its awaits
is true: its message is a clue, the number it read is at most one past the archive, and a
pill of 1 means that its author has no clue below that number (`SoundTask`). `Daemon` says what memory looks like (nothing survives a
crash; the open window is the last one). `Quiet` is what the properties of quiet chats
need: one thing at a time (`Alone`), what was found missing still is (`NotYet`), the number
that was read is still free unless the web app took it (`NumberFree`), the coroutine at work
has the newest message (`Newest`), and the open window holds all that was posted since its
clue (`OpenWindow`).

**LlmQueue.** The batch in the worker's session agrees row by row with a table that
others only add to or delete from (`BatchSound`). Between its last SELECT and its COMMIT a
coroutine of `process_window` knows every message whose task was there at that SELECT and
is still pending (`SelectionCovers`): for no task becomes pending again, whatever the worker
writes back, and deletions only take tasks away. What other coroutines have added since
is beyond it. The lemmas on ORDER BY
show that a finite set of ids can be listed in order at all, which the model's CHOOSE
presupposes.

**Review.** As long as editors work apart, what a session has loaded is what the tables
hold (`OneAtATime`, `NothingStale`), although candidates are proposed meanwhile; a
candidate that is about to be pruned leaves two pending ones as good (`PruneSound`); and
the solution shown is an approved candidate's, or that of the session between its two
commits (`ShownApproved`).

**Imports.** Until numbers drift every row is where the spreadsheet has it
(`NumberedLikeSheet`), so that an upsert finds its own row. What a backfill has read of a
row stays true until an import puts another text over it (`ReadStillTrue`), and what a completed one
covered has its link's message (`CoveredLinked`).

**Room.** Who can be alive: before a halt one listener, the one in `thread`
(`BeforeHalts`); after one, two, and none that could start a third while `running` is
cleared (`OneHalt`); after any number of halts, as long as no exception ends a thread,
either the current listener alone or it and the predecessor that `halt` is joining
(`WithoutExceptions`). The first attempt at this proof failed for a reason:
`ListenerPerHalt` then allowed one extra listener for each halt, which TLC had confirmed
with four threads and which five threads break. The property is now what the code keeps.

**Detect.** Little happens step by step: the invariant says that a processed window has the
candidates and the LLM work that `Outcome` makes of it (`DetectInv`), and the theorems are
about the operators. What an extraction finds is in its list (`ExtractionsHave`), no tier is
lost in the concatenation (`TiersHave`), and `Dedupe` drops a candidate only for one of the
same answer with at least its confidence (`DedupeKeepsBest`). `ExactFit` is the arithmetic of
`_enum_fit_score`: lengths equal to the enumeration score 1, whatever their number. An
extraction below its threshold leaves the message to the LLM, which is why nothing is
overlooked.

**Membership.** An account that a request has found is still there when it commits: accounts
are never deleted (`AccountsStay`). What a change deletes it has read (`ChangesSound`),
memberships are of rows there are, and ids are given once (`Tables`). With that the
effect of a commit can be computed, and `EditsCompose` is a fact about sets. `RevocationStands` follows from what a
login writes: only attributes that differ from those it has loaded (`SignedIn`).

**Stats.** The invariant says that the tables are what the computations expect
(`StatsTyped`): numbers stay between 1 and a bound, though inserts shift them, and dates
lie in the calendar. The streak up to n is one more than the one up to
the number before (`RowGrows`), and so the longest row that ends at n. The sweep is
followed from one event day to the next: the running count before a day is the
number of sequences that began before it and have not closed (`SweepCounts`); one of the
counts of a day is the number that share it, and any other is no greater, or less than the
number that shared the day before (`MomentsAre`): which is why the maximum over all days is right, and
the series of single days need not be.

**Recursive functions.** The folds of `Detect`, `Picked`, and the streaks of `Stats` are
recursive functions. The induction rules of the library are not available to the provers, and
need not be: a set of natural numbers that is not empty has a least element
(`LowestExists` in `NumberingProofs`). So the proofs take the least number, or the
shortest prefix, for which a claim fails, and show that it does not fail there.

**Assumptions.** Besides the types of the constants: positions are integers and NULL and
"not carried" are no names or numbers (`PositionAssumption`, `NullAssumption`), nor is "no
account" an account (`AccessAssumption`); clues,
transactions, candidates, messages and each batch of the spreadsheet are finite sets, as
any table's rows are, because pills, pruning and numbering go by cardinalities; the names
of threads are none of the two words `halter` uses besides them (`RoomAssumption`); the
import has at least one batch (`ImportsAssumption`), the spreadsheet of sequences is a list
of groups (`MembershipAssumption`); texts are sequences of words and an
enumeration has at least one number, which is what `accept.py` takes for one
(`DetectAssumption`). TLC evaluates all of them.

**Only model-checked.** Liveness, which needs ENABLED and is out of the prover's reach:
`EveryTxnEnds`, `EveryRequestEnds`, `EveryTaskSettles`, `Reconnects`, `HaltReturns`. And
the four properties the code breaks, which are counterexamples: `InsertKeepsPills`,
`NoDeadlock`, `PendingOnce`, `SeriesIsOverlap`.

## 5. What is left out

- Of detection: digits and punctuation, the enumeration at the end of a message (it is
  cut off first), `NOISE_USER_IDS` (empty in the program).
- Of the archive: pills sent by the client (`ClueCreate`/`ClueUpdate` accept them),
  NULL numbers (a PUT with null; moving such a clue raises and is rolled back), the
  edit history, a database without the unique index (before the first import).
- Of the daemon: the milestones other than an author's first clue and the
  failures of the room's `send` beyond the missing announcement.
- Of `process_window`: `LlmQueue` leaves out the candidates it inserts itself (`Detect` has
  what they are); `Detect` processes a clue's first window, where no message has a candidate
  or a task yet, so that skipping those that have one (`persist.py:71`, `91`) changes
  nothing.
- Of sechat: login and cookies, sending and editing with their cooldown (a duration that
  the chat answers), user lookups; a `leave` whose HTTP request fails before the socket is
  closed.
- Of access: the signed cookie and its expiry, OAuth's state, code and token.
- Of sequences: names, descriptions and tags; clues of several authors, of which an
  auto-add takes one's; the listings. `/sequences/<n>` looks `n` up as an id and, failing
  that, as a `legacy_key` (`main.py:383-388`): a theme and an author sequence may have one
  key, which raises MultipleResultsFound, and a link to a removed sequence may lead to
  another one. It is a read, and no document says which it should be.
- Of the imports: how the sheets are parsed, duplicate numbers in one batch, a first
  start on a database without tables, where the check of `--if-empty` fails.
- Of the statistics: what is summed up over authors, and the thinning of series of more
  than 800 days (`main.py:1349-1351`): the top dates then come from what is left of the
  series, so `MostConcurrent` speaks of a series shown whole.
- Not modelled at all: the preview renderer, the chat client (`se_chat_client.py`), the
  other pages and the search, configuration: rendering, scraping and queries without state
  of their own.
- Durations: polling, backoff, cooldowns and timeouts are steps that take any time.

## 6. What could follow

1. `LlmQueue` with the deterministic candidates; composition
   with `Review`, whose `Propose` stands for both.
2. An abstract specification of the sequences (`EditsCompose` as a refinement), and one of
   the queue.
3. The sending half of sechat: the cooldown and the retries of `send` and `edit`.
