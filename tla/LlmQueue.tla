------------------------------ MODULE LlmQueue ------------------------------
(***************************************************************************)
(* The queue pending_llm and its worker (app/services/ingest/llm_worker.py *)
(* and persist.py).  process_window enqueues a task for every message of a *)
(* closed window that looks like wordplay; each window is processed by a   *)
(* coroutine of its own (daemon.py:220-224), so that two of one clue may   *)
(* overlap.  The worker loads the oldest pending tasks, calls the provider *)
(* for one after the other, and commits the outcome of all of them at the  *)
(* end.  The daemon may crash, and editors delete clues, tasks included,   *)
(* at any time.                                                            *)
(*                                                                         *)
(* A message is its message_id.  Delays (poll interval, backoff, circuit   *)
(* breaker) are steps that may take any time.                              *)
(***************************************************************************)
EXTENDS Integers, Sequences, FiniteSets, SequencesExt

CONSTANTS
  Message,      \* messages of the closed windows of one clue that detect sends
                \* to the LLM, and that have no candidate of their own
  Poison,       \* messages the provider's answer to which is an error of another
                \* kind than unavailability: a 4xx status, a malformed body
  BatchSize,    \* tasks a drain takes: 5
  MaxRetries,   \* llm_max_retries
  Breaker,      \* failures in a row that open the circuit: 3
  MaxWindows,   \* bound: windows processed
  MaxCrashes    \* bound: crashes of the daemon

ASSUME QueueAssumption ==
  /\ Message \subseteq Nat /\ IsFiniteSet(Message) /\ Poison \subseteq Message
  /\ {BatchSize, MaxRetries, Breaker} \subseteq Nat \ {0}
  /\ {MaxWindows, MaxCrashes} \subseteq Nat

VARIABLES
  tasks,       \* pending_llm by id: [msg, attempts, status]
  proposed,    \* clue_candidates of the worker: the ids of the tasks they answer
  detection,   \* the coroutines of process_window, by the number of their window:
               \* its messages and what has been selected
  batch,       \* the rows the worker has loaded: [id, attempts, status, answered]
  position,    \* the row of the batch it calls the provider for
  failures,    \* _consecutive_failures
  open,        \* _circuit_open
  windows, crashes   \* counted against their bounds

worker == <<batch, position, failures, open>>
vars   == <<tasks, proposed, detection, worker, windows, crashes>>

Window == 1..MaxWindows

(* a coroutine that has not begun, or has ended *)
Idle == [at |-> "idle", msgs |-> {}, existing |-> {}, upTo |-> 0]

Ids(statuses) == {i \in DOMAIN tasks : tasks[i].status \in statuses}

(* ORDER BY: the members of a finite set of numbers, the lowest first *)
InOrder(S) == CHOOSE s \in [1..Cardinality(S) -> S] : \A i, j \in DOMAIN s : i < j => s[i] < s[j]

-----------------------------------------------------------------------------
(* process_window *)

(* a window is closed; these are its wordplay messages *)
StartWindow(msgs) ==
  /\ windows < MaxWindows
  /\ windows' = windows + 1
  /\ detection' = [detection EXCEPT ![windows'] = [Idle EXCEPT !.at = "candidates", !.msgs = msgs]]
  /\ UNCHANGED <<tasks, proposed, worker, crashes>>

(* _existing_sources: the messages that have a candidate, then, in another *)
(* SELECT, those that have a pending task.  A deleted clue takes its tasks *)
(* and candidates with it.                                                 *)
SelectCandidates(w) ==
  /\ detection[w].at = "candidates"
  /\ detection' = [detection EXCEPT
       ![w].at = "tasks", ![w].existing = {tasks[i].msg : i \in proposed \ Ids({"deleted"})}]
  /\ UNCHANGED <<tasks, proposed, worker, windows, crashes>>

(* Mutant: the tasks are not looked at *)
SelectNoTasks(w) ==
  /\ detection[w].at = "tasks"
  /\ detection' = [detection EXCEPT ![w].at = "selected", ![w].upTo = Len(tasks)]
  /\ UNCHANGED <<tasks, proposed, worker, windows, crashes>>

(* upTo records, for the properties only, the last task of this snapshot *)
SelectTasks(w) ==
  /\ detection[w].at = "tasks"
  /\ detection' = [detection EXCEPT
       ![w].at = "selected", ![w].upTo = Len(tasks),
       ![w].existing = @ \cup {tasks[i].msg : i \in Ids({"pending"})}]
  /\ UNCHANGED <<tasks, proposed, worker, windows, crashes>>

NewTask(m) == [msg |-> m, attempts |-> 0, status |-> "pending"]

(* COMMIT: a task for each message that is not there yet, in their order; *)
(* no constraint keeps another coroutine from having added it meanwhile   *)
Enqueue(w) ==
  LET new == InOrder(detection[w].msgs \ detection[w].existing)
  IN  /\ detection[w].at = "selected"
      /\ tasks' = tasks \o [k \in DOMAIN new |-> NewTask(new[k])]
      /\ detection' = [detection EXCEPT ![w] = Idle]
      /\ UNCHANGED <<proposed, worker, windows, crashes>>

-----------------------------------------------------------------------------
(* The worker *)

Calling == batch # <<>> /\ position <= Len(batch)

Current == batch[position]

(* Mutant: a failed task is taken up again *)
TakenUnsettled == Ids({"pending", "failed"})

(* what the worker takes up *)
Taken == Ids({"pending"})

(* SELECT ... ORDER BY id LIMIT 5 *)
Drain ==
  /\ batch = <<>> /\ ~open /\ Taken # {}
  /\ LET ids   == InOrder(Taken)
         count == IF Len(ids) < BatchSize THEN Len(ids) ELSE BatchSize
     IN  batch' = [k \in 1..count |-> [id       |-> ids[k],
                                       attempts |-> tasks[ids[k]].attempts,
                                       status   |-> tasks[ids[k]].status,
                                       answered |-> FALSE]]
  /\ position' = 1
  /\ UNCHANGED <<tasks, proposed, detection, failures, open, windows, crashes>>

(* the provider replies; an empty answer leaves no candidate *)
Answer ==
  /\ Calling /\ tasks[Current.id].msg \notin Poison
  /\ \E answered \in BOOLEAN :
       batch' = [batch EXCEPT ![position].status = "done", ![position].answered = answered]
  /\ position' = position + 1
  /\ failures' = 0
  /\ UNCHANGED <<tasks, proposed, detection, open, windows, crashes>>

(* when a task has had its retries *)
GivesUp(attempts) == attempts >= MaxRetries

(* _LlmUnavailable: another attempt used up; three in a row open the circuit *)
Unavailable ==
  /\ Calling
  /\ batch' = [batch EXCEPT
       ![position].attempts = @ + 1,
       ![position].status   = IF GivesUp(Current.attempts + 1) THEN "failed" ELSE @]
  /\ position' = position + 1
  /\ failures' = IF failures < Breaker THEN failures + 1 ELSE failures
  /\ open' = (open \/ failures + 1 >= Breaker)
  /\ UNCHANGED <<tasks, proposed, detection, windows, crashes>>

(* any other error escapes _drain_once: the transaction of the whole batch *)
(* is rolled back                                                          *)
Error ==
  /\ Calling /\ tasks[Current.id].msg \in Poison
  /\ batch' = <<>> /\ position' = 0
  /\ UNCHANGED <<tasks, proposed, detection, failures, open, windows, crashes>>

RowOf(i) == CHOOSE k \in DOMAIN batch : batch[k].id = i

(* Mutant: only the status is written back *)
WrittenBackStatus == [i \in DOMAIN tasks |->
  IF \E k \in DOMAIN batch : batch[k].id = i
  THEN [tasks[i] EXCEPT !.status = batch[RowOf(i)].status]
  ELSE tasks[i]]

(* the table with the rows of the batch written back *)
WrittenBack == [i \in DOMAIN tasks |->
  IF \E k \in DOMAIN batch : batch[k].id = i
  THEN [tasks[i] EXCEPT !.attempts = batch[RowOf(i)].attempts,
                        !.status   = batch[RowOf(i)].status]
  ELSE tasks[i]]

(* Mutant: the candidates are committed whatever becomes of the tasks *)
CommitApart ==
  /\ batch # <<>> /\ ~Calling
  /\ proposed' = proposed \cup {r.id : r \in {r \in ToSet(batch) : r.answered}}
  /\ IF \E r \in ToSet(batch) : tasks[r.id].status = "deleted"
     THEN UNCHANGED tasks
     ELSE tasks' = WrittenBack
  /\ batch' = <<>> /\ position' = 0
  /\ UNCHANGED <<detection, failures, open, windows, crashes>>

(* COMMIT: it fails as a whole when a task was deleted in the meantime *)
Commit ==
  /\ batch # <<>> /\ ~Calling
  /\ IF \E r \in ToSet(batch) : tasks[r.id].status = "deleted"
     THEN UNCHANGED <<tasks, proposed>>
     ELSE /\ tasks' = WrittenBack
          /\ proposed' = proposed \cup {r.id : r \in {r \in ToSet(batch) : r.answered}}
  /\ batch' = <<>> /\ position' = 0
  /\ UNCHANGED <<detection, failures, open, windows, crashes>>

(* the circuit closes after a pause; the count of failures stays *)
Probe ==
  /\ batch = <<>> /\ open
  /\ open' = FALSE
  /\ UNCHANGED <<tasks, proposed, detection, batch, position, failures, windows, crashes>>

Work == Drain \/ Answer \/ Unavailable \/ Error \/ Commit \/ Probe

-----------------------------------------------------------------------------
(* Around the worker *)

(* DELETE /api/clues/{id} cascades to the tasks of the clue's window *)
DeleteClue(i) ==
  /\ tasks[i].status # "deleted"
  /\ tasks' = [tasks EXCEPT ![i].status = "deleted"]
  /\ UNCHANGED <<proposed, detection, worker, windows, crashes>>

(* the daemon dies and is started again; the windows it was at are lost *)
Crash ==
  /\ crashes < MaxCrashes
  /\ crashes' = crashes + 1
  /\ batch' = <<>> /\ position' = 0 /\ failures' = 0 /\ open' = FALSE
  /\ detection' = [w \in Window |-> Idle]
  /\ UNCHANGED <<tasks, proposed, windows>>

Init ==
  /\ tasks = <<>> /\ proposed = {} /\ detection = [w \in Window |-> Idle]
  /\ batch = <<>> /\ position = 0 /\ failures = 0 /\ open = FALSE
  /\ windows = 0 /\ crashes = 0

Detect == \/ \E msgs \in SUBSET Message : StartWindow(msgs)
          \/ \E w \in Window : SelectCandidates(w) \/ SelectTasks(w) \/ Enqueue(w)

Next == \/ Work
        \/ Detect
        \/ \E i \in DOMAIN tasks : DeleteClue(i)
        \/ Crash

(* The worker's coroutine is scheduled, and every call returns or times    *)
(* out.  That the provider is ever available is not assumed.               *)
Fairness == WF_vars(Work)

Spec == Init /\ [][Next]_vars /\ Fairness

-----------------------------------------------------------------------------
(* Correctness *)

(* A candidate and the task it answers are one: no crash, error or         *)
(* deletion leaves a candidate behind whose task is still to be done.  And *)
(* a task is given up with its last attempt, neither before nor after.     *)
AnsweredIsDone ==
  /\ \A i \in proposed : tasks[i].status \in {"done", "deleted"}
  /\ \A i \in DOMAIN tasks : /\ tasks[i].status = "failed" => tasks[i].attempts = MaxRetries
                             /\ tasks[i].status = "pending" => tasks[i].attempts < MaxRetries

(* What is settled stays so: neither a retry nor a batch loaded earlier    *)
(* takes up a task that was answered or given up.                          *)
SettledForGood ==
  [][\A i \in DOMAIN tasks : tasks[i].status \in {"done", "failed"} =>
       tasks'[i].status \in {tasks[i].status, "deleted"}]_vars

(* A message is enqueued beside a pending task of its own only by an       *)
(* overlap: the coroutine had done its SELECT of tasks when that task was  *)
(* committed.  Whatever the worker, editors and other windows do between   *)
(* the two SELECTs and the COMMIT, every task it could see counts.         *)
OnlyOverlapsRepeat ==
  [][\A w \in Window : Enqueue(w) =>
       \A i \in DOMAIN tasks' \ DOMAIN tasks, j \in Ids({"pending"}) :
         tasks'[i].msg = tasks[j].msg => j > detection[w].upTo]_vars

(* "Safe to call multiple times (dedupes on source_message_id ...)": no    *)
(* message is pending twice, whatever windows of its clue it turns up in.  *)
PendingOnce ==
  \A i, j \in Ids({"pending"}) : tasks[i].msg = tasks[j].msg => i = j

Blocked == \E i \in Ids({"pending"}) : tasks[i].msg \in Poison

(* "An LLM outage never loses work": no task stays pending for ever,       *)
(* however long the provider is down and whatever is deleted or crashes    *)
(* beside it; unless a message whose answer is an error stays in the       *)
(* queue, for that rolls back the attempts of its whole batch, always.     *)
EveryTaskSettles ==
  \/ \A i \in 1..(MaxWindows * Cardinality(Message)) : []<>(i \notin Ids({"pending"}))
  \/ <>[]Blocked

=============================================================================
