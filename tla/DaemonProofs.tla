---------------------------- MODULE DaemonProofs ----------------------------
(***************************************************************************)
(* Proofs about what the daemon runs beside the windows: LlmQueue, for     *)
(* every number of messages and windows, every batch size and every        *)
(* number of retries; Room, for every number of threads and of calls of    *)
(* halt; Detect, for windows of any length, any messages and any           *)
(* enumerations.                                                           *)
(***************************************************************************)
EXTENDS LlmQueue, Room, Detect, NumberingProofs, FiniteSetTheorems, SequenceTheorems

-----------------------------------------------------------------------------
(***************************************************************************)
(* LlmQueue. The invariant relates the three places a task can be known    *)
(* at: the table, the rows the worker has loaded, and the messages         *)
(* process_window has selected. A loaded row stays current, for only its   *)
(* clue's deletion can change the task beside the worker; and what a       *)
(* coroutine of process_window has seen pending covers all that is pending *)
(* of the tasks there were when it looked, for no task becomes pending     *)
(* again: what it has not seen was committed later, by another coroutine.  *)
(***************************************************************************)

(* The invariant *)

Status == {"pending", "done", "failed", "deleted"}
Entry  == [msg : Message, attempts : Nat, status : Status]
Row    == [id : Nat, attempts : Nat, status : {"pending", "done", "failed"}, answered : BOOLEAN]
Stage  == {"idle", "candidates", "tasks", "selected"}
Coroutine == [at : Stage, msgs : SUBSET Message, existing : SUBSET Message, upTo : Nat]

TypeOK ==
  /\ tasks \in Seq(Entry)
  /\ proposed \subseteq DOMAIN tasks
  /\ detection \in [Window -> Coroutine] /\ windows \in Nat
  /\ batch \in Seq(Row)
  /\ position \in Nat

(* A task or a row is given up with its last attempt. *)
Counted(r) == /\ r.status = "failed" => r.attempts = MaxRetries
              /\ r.status = "pending" => r.attempts < MaxRetries

(* The rows of the batch are different tasks, which are still pending in   *)
(* the table unless they were deleted; only an answered row is done.       *)
BatchSound ==
  /\ batch # <<>> => position >= 1
  /\ \A k \in DOMAIN batch :
       /\ batch[k].id \in DOMAIN tasks
       /\ tasks[batch[k].id].status \in {"pending", "deleted"}
       /\ Counted(batch[k])
       /\ k >= position => batch[k].status = "pending"
       /\ batch[k].answered => batch[k].status = "done"
  /\ \A k, l \in DOMAIN batch : batch[k].id = batch[l].id => k = l

(* Between its last SELECT and its COMMIT a coroutine of process_window    *)
(* knows of every message that was enqueued before that SELECT and is      *)
(* pending.                                                                *)
SelectionCovers ==
  \A w \in Window :
    /\ detection[w].upTo <= Len(tasks)
    /\ detection[w].at = "selected" =>
         \A i \in Ids({"pending"}) : i <= detection[w].upTo => tasks[i].msg \in detection[w].existing

IInv == /\ TypeOK /\ BatchSound /\ SelectionCovers
        /\ AnsweredIsDone

-----------------------------------------------------------------------------
(* ORDER BY *)

Enumerates(s, S) == /\ s \in [1..Cardinality(S) -> S]
                    /\ \A i, j \in DOMAIN s : i < j => s[i] < s[j]

(* Every finite set of natural numbers can be listed in order: a smallest  *)
(* set that cannot would be so without its lowest member, too.             *)
LEMMA EnumerationExists ==
  ASSUME NEW S \in SUBSET Nat, IsFiniteSet(S)
  PROVE  \E s : Enumerates(s, S)
<1> DEFINE Bad == {n \in Nat : \E T \in SUBSET Nat :
                     IsFiniteSet(T) /\ Cardinality(T) = n /\ ~\E s : Enumerates(s, T)}
<1>1. SUFFICES Bad = {}
  <2>1. Cardinality(S) \in Nat
    BY FS_CardinalityType
  <2> QED BY <1>1, <2>1
<1>2. SUFFICES ASSUME Bad # {}
               PROVE  FALSE
  OBVIOUS
<1>3. PICK n \in Bad : \A b \in Bad : n <= b
  <2>1. Bad \in SUBSET Nat
    OBVIOUS
  <2> HIDE DEF Bad
  <2> QED BY <1>2, <2>1, LowestExists
<1>4. PICK T \in SUBSET Nat :
        IsFiniteSet(T) /\ Cardinality(T) = n /\ ~\E s : Enumerates(s, T)
  BY <1>3
<1>5. T # {}
  <2> SUFFICES ASSUME T = {}
               PROVE  \E s : Enumerates(s, T)
    BY <1>4
  <2>1. Cardinality(T) = 0
    BY FS_EmptySet
  <2>2. 1..Cardinality(T) = {}
    BY <2>1
  <2> DEFINE e == [i \in {} |-> 0]
  <2>3. e \in [1..Cardinality(T) -> T] /\ DOMAIN e = {}
    BY <2>2
  <2> HIDE DEF e
  <2>4. Enumerates(e, T)
    BY <2>3 DEF Enumerates
  <2> QED BY <2>4
<1>6. PICK m \in T : \A t \in T : m <= t
  BY <1>5, LowestExists
<1> DEFINE U == T \ {m}
<1>7. IsFiniteSet(U) /\ Cardinality(U) = n - 1 /\ U \in SUBSET Nat /\ n \in Nat
  BY <1>3, <1>4, <1>6, FS_RemoveElement
<1>8. Cardinality(U) \in Nat
  BY <1>7, FS_CardinalityType
<1>9. PICK g : Enumerates(g, U)
  <2>1. n - 1 \notin Bad
    BY <1>3, <1>7
  <2> QED BY <1>7, <1>8, <2>1
<1> DEFINE s == [i \in 1..n |-> IF i = 1 THEN m ELSE g[i - 1]]
<1>10. g \in [1..(n - 1) -> U] /\ \A i, j \in 1..(n - 1) : i < j => g[i] < g[j]
  BY <1>7, <1>9 DEF Enumerates
<1>11. \A i \in 2..n : s[i] \in U /\ s[i] > m
  <2> TAKE i \in 2..n
  <2>1. i \in 1..n /\ i - 1 \in 1..(n - 1) /\ i # 1
    BY <1>7
  <2>2. s[i] = g[i - 1] /\ g[i - 1] \in U
    BY <1>10, <2>1
  <2>3. m \in Nat /\ g[i - 1] \in Nat /\ g[i - 1] # m /\ m <= g[i - 1]
    BY <1>4, <1>6, <2>2
  <2> QED BY <2>2, <2>3
<1>12. s \in [1..n -> T]
  <2> SUFFICES ASSUME NEW i \in 1..n
               PROVE  (IF i = 1 THEN m ELSE g[i - 1]) \in T
    OBVIOUS
  <2>1. i # 1 => i \in 2..n /\ s[i] = g[i - 1]
    BY <1>7
  <2> QED BY <1>6, <1>11, <2>1
<1>13. ASSUME NEW i \in 1..n, NEW j \in 1..n, i < j
       PROVE  s[i] < s[j]
  <2>1. CASE i = 1
    <3>1. j \in 2..n /\ s[i] = m
      BY <1>7, <1>13, <2>1
    <3>2. s[j] > m
      BY <1>11, <3>1
    <3> QED BY <1>4, <1>6, <1>11, <3>1, <3>2
  <2>2. CASE i # 1
    <3>1. i - 1 \in 1..(n - 1) /\ j - 1 \in 1..(n - 1) /\ i - 1 < j - 1 /\ j # 1
      BY <1>7, <1>13, <2>2
    <3>2. s[i] = g[i - 1] /\ s[j] = g[j - 1]
      BY <2>2, <3>1
    <3> QED BY <1>10, <3>1, <3>2
  <2> QED BY <2>1, <2>2
<1> HIDE DEF s
<1>14. Enumerates(s, T)
  BY <1>4, <1>12, <1>13 DEF Enumerates
<1> QED BY <1>4, <1>14

(* What InOrder returns: different members of the set. *)
LEMMA InOrderLists ==
  ASSUME NEW S \in SUBSET Nat, IsFiniteSet(S), NEW s, s = InOrder(S)
  PROVE  /\ Cardinality(S) \in Nat /\ s \in [1..Cardinality(S) -> S]
         /\ s \in Seq(S) /\ Len(s) = Cardinality(S)
         /\ \A i, j \in 1..Cardinality(S) : s[i] = s[j] => i = j
<1>1. Cardinality(S) \in Nat
  BY FS_CardinalityType
<1>2. \E t \in [1..Cardinality(S) -> S] : \A i, j \in DOMAIN t : i < j => t[i] < t[j]
  BY EnumerationExists DEF Enumerates
<1>3. s \in [1..Cardinality(S) -> S] /\ \A i, j \in DOMAIN s : i < j => s[i] < s[j]
  BY <1>2 DEF InOrder
<1>4. \A i, j \in 1..Cardinality(S) : s[i] = s[j] => i = j
  <2> TAKE i, j \in 1..Cardinality(S)
  <2>1. s[i] \in Nat /\ s[j] \in Nat /\ (i < j => s[i] < s[j]) /\ (j < i => s[j] < s[i])
    BY <1>3
  <2> QED BY <1>1, <2>1
<1> QED BY <1>1, <1>3, <1>4

-----------------------------------------------------------------------------
(* The invariant is kept *)

(* The sequences of a well-formed state are indexed from 1, and their      *)
(* members are what they should be.                                        *)
LEMMA Members ==
  ASSUME TypeOK
  PROVE  /\ Len(tasks) \in Nat /\ DOMAIN tasks = 1..Len(tasks)
         /\ Len(batch) \in Nat /\ DOMAIN batch = 1..Len(batch)
         /\ \A i \in DOMAIN tasks : tasks[i] \in Entry
         /\ \A k \in DOMAIN batch : batch[k] \in Row
BY ElementOfSeq, LenProperties DEF TypeOK

(* A step of one coroutine of process_window up to its COMMIT keeps the    *)
(* invariant if what that coroutine then knows does.                       *)
LEMMA CoroutineKeeps ==
  ASSUME IInv, NEW w \in Window, NEW d \in Coroutine,
         windows' \in Nat,
         UNCHANGED <<tasks, proposed, batch, position>>, detection' = [detection EXCEPT ![w] = d],
         d.upTo <= Len(tasks),
         d.at = "selected" => \A i \in Ids({"pending"}) : i <= d.upTo => tasks[i].msg \in d.existing
  PROVE  IInv'
<1>1. TypeOK'
  BY DEF IInv, TypeOK
<1>2. \A v \in Window : detection'[v] = IF v = w THEN d ELSE detection[v]
  BY DEF IInv, TypeOK
<1>3. SelectionCovers'
  BY <1>2 DEF IInv, SelectionCovers, Ids
<1> QED BY <1>1, <1>3 DEF IInv, BatchSound, AnsweredIsDone

(* A closed window starts with nothing selected.                           *)
LEMMA ArrivalKeeps ==
  ASSUME IInv, NEW msgs \in SUBSET Message, StartWindow(msgs)
  PROVE  IInv'
<1> DEFINE d == [Idle EXCEPT !.at = "candidates", !.msgs = msgs]
<1>1. windows + 1 \in Window /\ windows' \in Nat
  BY QueueAssumption DEF StartWindow, Window, IInv, TypeOK
<1>2. d \in Coroutine /\ d.at = "candidates" /\ d.upTo = 0
  BY DEF Idle, Coroutine, Stage
<1>3. detection' = [detection EXCEPT ![windows + 1] = d] /\ UNCHANGED <<tasks, proposed, batch, position>>
  BY DEF StartWindow, worker
<1>4. d.upTo <= Len(tasks)
  BY <1>2, LenProperties DEF IInv, TypeOK
<1> HIDE DEF d
<1> QED BY <1>1, <1>2, <1>3, <1>4, CoroutineKeeps

(* process_window's SELECTs: the second leaves nothing pending unseen.     *)
LEMMA SelectsKeep ==
  ASSUME IInv, NEW w \in Window, SelectCandidates(w) \/ SelectTasks(w)
  PROVE  IInv'
<1>1. /\ TypeOK /\ UNCHANGED <<tasks, proposed, batch, position>> /\ windows' \in Nat
      /\ detection[w] \in Coroutine
  BY DEF IInv, TypeOK, SelectCandidates, SelectTasks, worker
<1>2. \A S \in SUBSET DOMAIN tasks : {tasks[i].msg : i \in S} \subseteq Message
  BY <1>1, Members DEF Entry
<1>3. proposed \ Ids({"deleted"}) \in SUBSET DOMAIN tasks /\ Ids({"pending"}) \in SUBSET DOMAIN tasks
  BY <1>1 DEF TypeOK, Ids
<1>4. CASE SelectCandidates(w)
  <2> DEFINE seen == {tasks[i].msg : i \in proposed \ Ids({"deleted"})}
             d == [detection[w] EXCEPT !.at = "tasks", !.existing = seen]
  <2>1. seen \in SUBSET Message
    BY <1>2, <1>3
  <2> HIDE DEF seen
  <2>2. d \in Coroutine /\ d.at = "tasks" /\ d.upTo = detection[w].upTo
    BY <1>1, <2>1 DEF Coroutine, Stage
  <2>3. detection' = [detection EXCEPT ![w] = d]
    BY <1>1, <1>4 DEF SelectCandidates, seen, TypeOK
  <2>4. d.upTo <= Len(tasks)
    BY <2>2 DEF IInv, SelectionCovers
  <2> HIDE DEF d
  <2> QED BY <1>1, <2>2, <2>3, <2>4, CoroutineKeeps
<1>5. CASE SelectTasks(w)
  <2> DEFINE seen == {tasks[i].msg : i \in Ids({"pending"})}
             d == [detection[w] EXCEPT !.at = "selected", !.upTo = Len(tasks),
                                       !.existing = detection[w].existing \cup seen]
  <2>1. seen \in SUBSET Message /\ \A i \in Ids({"pending"}) : tasks[i].msg \in seen
    BY <1>2, <1>3
  <2>2. Len(tasks) \in Nat
    BY <1>1, LenProperties DEF TypeOK
  <2>3. detection' = [detection EXCEPT ![w] = d]
    BY <1>1, <1>5 DEF SelectTasks, TypeOK
  <2> HIDE DEF seen
  <2>4. d \in Coroutine /\ d.upTo = Len(tasks) /\ d.existing = detection[w].existing \cup seen
    BY <1>1, <2>1, <2>2 DEF Coroutine, Stage
  <2>5. \A i \in Ids({"pending"}) : tasks[i].msg \in d.existing
    BY <2>1, <2>4
  <2>6. d.upTo <= Len(tasks)
    BY <2>2, <2>4
  <2> HIDE DEF d
  <2> QED BY <1>1, <2>3, <2>4, <2>5, <2>6, CoroutineKeeps
<1> QED BY <1>4, <1>5

(* The COMMIT of process_window adds a task for messages that have none.   *)
LEMMA EnqueueKeeps ==
  ASSUME IInv, NEW w \in Window, Enqueue(w)
  PROVE  /\ IInv'
         /\ \A i \in DOMAIN tasks' \ DOMAIN tasks :
              tasks'[i].msg \in detection[w].msgs \ detection[w].existing
<1> DEFINE D == detection[w].msgs \ detection[w].existing
<1>1. /\ TypeOK /\ detection[w].at = "selected" /\ detection' = [detection EXCEPT ![w] = Idle]
      /\ UNCHANGED <<proposed, batch, position, windows>>
  BY DEF IInv, Enqueue, worker
<1>2. D \in SUBSET Message /\ D \in SUBSET Nat /\ IsFiniteSet(D)
  <2>1. D \subseteq Message /\ Message \subseteq Nat /\ IsFiniteSet(Message)
    BY <1>1, QueueAssumption DEF TypeOK, Coroutine
  <2> QED BY <2>1, FS_Subset
<1>3. PICK new : new = InOrder(D)
  OBVIOUS
<1>4. PICK c \in Nat : /\ new \in [1..c -> D]
                       /\ \A k, l \in 1..c : new[k] = new[l] => k = l
  <2> HIDE DEF D
  <2>1. /\ Cardinality(D) \in Nat /\ new \in [1..Cardinality(D) -> D]
        /\ \A k, l \in 1..Cardinality(D) : new[k] = new[l] => k = l
    BY <1>2, <1>3, InOrderLists
  <2> QED BY <2>1
<1> DEFINE added == [k \in DOMAIN new |-> NewTask(new[k])]
<1>5. tasks' = tasks \o added
  BY <1>3 DEF Enqueue
<1>6. /\ added \in Seq(Entry) /\ Len(added) = c /\ DOMAIN new = 1..c
      /\ \A k \in 1..c : added[k] = NewTask(new[k])
  <2>1. MaxRetries \in Nat
    BY QueueAssumption
  <2>2. \A k \in 1..c : NewTask(new[k]) \in Entry
    BY <1>2, <1>4 DEF NewTask, Entry, Status
  <2>3. DOMAIN new = 1..c
    BY <1>4
  <2>4. added \in [1..c -> Entry]
    BY <2>2, <2>3
  <2> QED BY <2>3, <2>4
<1> HIDE DEF added, D
<1>7. /\ tasks' \in Seq(Entry) /\ DOMAIN tasks' = 1..(Len(tasks) + c)
      /\ \A i \in DOMAIN tasks : i \in DOMAIN tasks' /\ tasks'[i] = tasks[i]
      /\ \A i \in DOMAIN tasks' : i \notin DOMAIN tasks =>
           i - Len(tasks) \in 1..c /\ tasks'[i] = NewTask(new[i - Len(tasks)])
  <2>1. tasks \in Seq(Entry)
    BY <1>1 DEF TypeOK
  <2>2. /\ tasks' \in Seq(Entry) /\ Len(tasks') = Len(tasks) + c
        /\ \A i \in 1..(Len(tasks) + c) :
             tasks'[i] = IF i <= Len(tasks) THEN tasks[i] ELSE added[i - Len(tasks)]
    BY <1>5, <1>6, <2>1, ConcatProperties
  <2>3. DOMAIN tasks' = 1..(Len(tasks) + c)
    BY <2>2, LenProperties
  <2> QED BY <1>1, <1>6, <2>2, <2>3, Members
<1>8. ASSUME NEW i \in DOMAIN tasks', i \notin DOMAIN tasks
      PROVE  /\ tasks'[i].status = "pending" /\ tasks'[i].attempts = 0
             /\ tasks'[i].msg = new[i - Len(tasks)] /\ tasks'[i].msg \in D
             /\ i - Len(tasks) \in 1..c
  BY <1>4, <1>7, <1>8 DEF NewTask
<1>9. TypeOK'
  <2>1. DOMAIN tasks \subseteq DOMAIN tasks'
    BY <1>7
  <2>2. Idle \in Coroutine
    BY DEF Idle, Coroutine, Stage
  <2> QED BY <1>1, <1>7, <2>1, <2>2 DEF TypeOK
<1>10. BatchSound'
  BY <1>1, <1>7 DEF IInv, BatchSound, Counted
<1>11. SelectionCovers'
  <2>1. Len(tasks) \in Nat /\ Len(tasks') = Len(tasks) + c /\ DOMAIN tasks = 1..Len(tasks)
    BY <1>1, <1>7, LenProperties DEF TypeOK
  <2>2. \A v \in Window : detection'[v] = IF v = w THEN Idle ELSE detection[v]
    BY <1>1 DEF TypeOK
  <2>3. \A v \in Window : detection[v].upTo \in Nat /\ detection[v].upTo <= Len(tasks)
    BY <1>1 DEF IInv, SelectionCovers, TypeOK, Coroutine
  <2>4. \A v \in Window : detection'[v].upTo <= Len(tasks')
    BY <2>1, <2>2, <2>3 DEF Idle
  <2>5. ASSUME NEW v \in Window, detection'[v].at = "selected", NEW i \in Ids({"pending"})',
               i <= detection'[v].upTo
        PROVE  tasks'[i].msg \in detection'[v].existing
    <3>1. detection'[v] = detection[v]
      BY <2>2, <2>5 DEF Idle
    <3>2. i \in DOMAIN tasks
      BY <1>7, <2>1, <2>3, <2>5, <3>1 DEF Ids
    <3>3. tasks'[i] = tasks[i] /\ i \in Ids({"pending"})
      BY <1>7, <2>5, <3>2 DEF Ids
    <3> QED BY <2>5, <3>1, <3>3 DEF IInv, SelectionCovers
  <2> QED BY <2>4, <2>5 DEF SelectionCovers
<1>12. AnsweredIsDone'
  <2>1. MaxRetries > 0
    BY QueueAssumption
  <2>2. \A i \in proposed' : i \in DOMAIN tasks /\ tasks'[i] = tasks[i]
    BY <1>1, <1>7 DEF TypeOK
  <2>3. \A i \in proposed' : tasks'[i].status \in {"done", "deleted"}
    BY <1>1, <2>2 DEF IInv, AnsweredIsDone
  <2>4. ASSUME NEW i \in DOMAIN tasks'
        PROVE  /\ tasks'[i].status = "failed" => tasks'[i].attempts = MaxRetries
               /\ tasks'[i].status = "pending" => tasks'[i].attempts < MaxRetries
    <3>1. CASE i \in DOMAIN tasks
      BY <1>7, <3>1 DEF IInv, AnsweredIsDone
    <3>2. CASE i \notin DOMAIN tasks
      BY <1>8, <2>1, <3>2
    <3> QED BY <3>1, <3>2
  <2> QED BY <2>3, <2>4 DEF AnsweredIsDone
<1>13. \A i \in DOMAIN tasks' \ DOMAIN tasks : tasks'[i].msg \in D
  BY <1>8
<1> QED BY <1>9, <1>10, <1>11, <1>12, <1>13 DEF IInv, D

(* What is left to show when the worker changes its rows and not the table. *)
LEMMA RowsKeep ==
  ASSUME IInv, UNCHANGED <<tasks, proposed>>, batch' \in Seq(Row), position' \in Nat, BatchSound',
         detection' = detection \/ detection' = [w \in Window |-> Idle], windows' = windows
  PROVE  IInv'
<1>1. TypeOK'
  BY DEF IInv, TypeOK, Idle, Coroutine, Stage
<1>2. SelectionCovers'
  <2>1. Len(tasks) \in Nat
    BY LenProperties DEF IInv, TypeOK
  <2>2. \A w \in Window : detection'[w] = detection[w] \/ detection'[w] = Idle
    OBVIOUS
  <2> QED BY <2>1, <2>2 DEF IInv, SelectionCovers, Idle, Ids
<1> QED BY <1>1, <1>2 DEF IInv, AnsweredIsDone

(* The worker loads different tasks, all of them pending.                  *)
LEMMA DrainKeeps ==
  ASSUME IInv, Drain
  PROVE  IInv'
<1>1. TypeOK /\ UNCHANGED <<tasks, proposed, detection, windows>> /\ position' = 1
  BY DEF IInv, Drain
<1>2. Taken \in SUBSET Nat /\ IsFiniteSet(Taken) /\ Taken \in SUBSET DOMAIN tasks
  <2>1. DOMAIN tasks = 1..Len(tasks) /\ Len(tasks) \in Nat /\ Taken \subseteq DOMAIN tasks
    BY <1>1, Members DEF Taken, Ids
  <2>2. IsFiniteSet(1..Len(tasks)) /\ 1..Len(tasks) \subseteq Nat
    BY <2>1, FS_Interval
  <2> QED BY <2>1, <2>2, FS_Subset
<1>3. PICK ids : ids = InOrder(Taken)
  OBVIOUS
<1>4. PICK c \in Nat : /\ ids \in [1..c -> Taken] /\ Len(ids) = c
                       /\ \A k, l \in 1..c : ids[k] = ids[l] => k = l
  BY <1>2, <1>3, InOrderLists
<1>5. PICK n \in Nat : /\ n <= c
                       /\ batch' = [k \in 1..n |-> [id       |-> ids[k],
                                                    attempts |-> tasks[ids[k]].attempts,
                                                    status   |-> tasks[ids[k]].status,
                                                    answered |-> FALSE]]
  <2>1. BatchSize \in Nat
    BY QueueAssumption
  <2> DEFINE n == IF c < BatchSize THEN c ELSE BatchSize
  <2>2. n \in Nat /\ n <= c
    BY <2>1
  <2>3. batch' = [k \in 1..n |-> [id       |-> ids[k],
                                  attempts |-> tasks[ids[k]].attempts,
                                  status   |-> tasks[ids[k]].status,
                                  answered |-> FALSE]]
    BY <1>3, <1>4 DEF Drain
  <2> QED BY <2>2, <2>3
<1>6. ASSUME NEW k \in 1..n
      PROVE  /\ k \in 1..c /\ ids[k] \in DOMAIN tasks /\ ids[k] \in Nat
             /\ tasks[ids[k]].status = "pending" /\ tasks[ids[k]].attempts \in Nat
             /\ Counted(tasks[ids[k]])
  <2>1. k \in 1..c /\ ids[k] \in Taken /\ ids[k] \in DOMAIN tasks /\ ids[k] \in Nat
    <3>1. k \in 1..c
      BY <1>5
    <3>2. ids[k] \in Taken
      BY <1>4, <3>1
    <3> QED BY <1>2, <3>1, <3>2
  <2>2. tasks[ids[k]].status = "pending" /\ tasks[ids[k]] \in Entry
    BY <1>1, <2>1, Members DEF Taken, Ids
  <2> QED BY <2>1, <2>2 DEF IInv, AnsweredIsDone, Counted, Entry
<1>7. batch' \in [1..n -> Row] /\ DOMAIN batch' = 1..n
  BY <1>5, <1>6 DEF Row
<1>8. \A k \in 1..n : /\ batch'[k].id = ids[k] /\ batch'[k].status = "pending"
                      /\ batch'[k].attempts = tasks[ids[k]].attempts /\ ~batch'[k].answered
  BY <1>5, <1>6
<1>9. BatchSound'
  BY <1>1, <1>4, <1>6, <1>7, <1>8 DEF BatchSound, Counted
<1> QED BY <1>1, <1>7, <1>9, RowsKeep

(* A call that returns changes the row it was for, and no other.           *)
LEMMA CallKeeps ==
  ASSUME IInv, Calling, UNCHANGED <<tasks, proposed, detection, windows>>,
         NEW r \in Row, batch' = [batch EXCEPT ![position] = r], position' = position + 1,
         r.id = Current.id, Counted(r), r.answered => r.status = "done"
  PROVE  IInv'
<1>1. TypeOK /\ BatchSound /\ position \in DOMAIN batch /\ batch \in Seq(Row) /\ position \in Nat
  <2>1. TypeOK /\ BatchSound
    BY DEF IInv
  <2> QED BY <2>1, Members DEF BatchSound, Calling, TypeOK
<1>2. /\ batch' \in Seq(Row) /\ DOMAIN batch' = DOMAIN batch /\ batch'[position] = r
      /\ \A k \in DOMAIN batch : k # position => batch'[k] = batch[k]
  BY <1>1, ExceptSeq
<1>3. \A k \in DOMAIN batch' : k \in Nat /\ batch'[k].id = batch[k].id
  BY <1>1, <1>2, Members DEF Current
<1>4. \A k \in DOMAIN batch' : k >= position' => k # position /\ k >= position
  BY <1>1, <1>3
<1>5. BatchSound'
  BY <1>1, <1>2, <1>3, <1>4 DEF BatchSound
<1> QED BY <1>1, <1>2, <1>5, RowsKeep

(* What a reply or an outage makes of the row that is called for: done, or *)
(* an attempt more and failed with the last of them.                       *)
LEMMA AnswerKeeps ==
  ASSUME IInv, Answer \/ Unavailable
  PROVE  IInv'
<1>1. /\ TypeOK /\ Calling /\ UNCHANGED <<tasks, proposed, detection, windows>>
      /\ position' = position + 1
      /\ position \in DOMAIN batch /\ Current \in Row /\ Current.status = "pending"
      /\ Counted(Current) /\ ~Current.answered
  <2>1. TypeOK /\ BatchSound /\ Calling /\ position \in Nat
    BY DEF IInv, Answer, Unavailable, TypeOK
  <2>2. position \in DOMAIN batch
    BY <2>1, Members DEF BatchSound, Calling
  <2>3. Current \in Row
    BY <2>1, <2>2, Members DEF Current
  <2>4. Current.status = "pending" /\ Counted(Current) /\ (Current.answered => Current.status = "done")
    BY <2>1, <2>2 DEF BatchSound, Current
  <2> QED BY <2>1, <2>2, <2>3, <2>4 DEF Answer, Unavailable
<1>2. CASE Answer
  <2>1. PICK a \in BOOLEAN :
          batch' = [batch EXCEPT ![position].status = "done", ![position].answered = a]
    BY <1>2 DEF Answer
  <2> DEFINE r == [Current EXCEPT !.status = "done", !.answered = a]
  <2>2. /\ r \in Row /\ r.id = Current.id /\ Counted(r) /\ r.status = "done"
    BY <1>1 DEF Row, Counted
  <2>3. batch' = [batch EXCEPT ![position] = r]
    BY <2>1 DEF Current
  <2> HIDE DEF r
  <2> QED BY <1>1, <2>2, <2>3, CallKeeps
<1>3. CASE Unavailable
  <2> DEFINE status == IF GivesUp(Current.attempts + 1) THEN "failed" ELSE Current.status
             r == [Current EXCEPT !.attempts = @ + 1, !.status = status]
  <2>1. MaxRetries \in Nat
    BY QueueAssumption
  <2>2. Current.attempts \in Nat /\ Current.attempts < MaxRetries
    BY <1>1 DEF Row, Counted
  <2>3. /\ status \in {"pending", "failed"}
        /\ status = "failed" => Current.attempts + 1 = MaxRetries
        /\ status = "pending" => Current.attempts + 1 < MaxRetries
    BY <1>1, <2>1, <2>2 DEF GivesUp
  <2>4. batch' = [batch EXCEPT ![position] = r]
    BY <1>3 DEF Unavailable, Current
  <2> HIDE DEF status
  <2>5. /\ r \in Row /\ r.id = Current.id /\ r.answered = Current.answered
        /\ r.status = status /\ r.attempts = Current.attempts + 1
    <3>1. PICK cur \in Row : cur = Current
      BY <1>1
    <3>2. cur.attempts + 1 \in Nat
      BY <3>1, <2>2
    <3>3. r = [cur EXCEPT !.attempts = cur.attempts + 1, !.status = status]
      BY <3>1 DEF Row
    <3> HIDE DEF r
    <3>4. r = [id |-> cur.id, attempts |-> cur.attempts + 1, status |-> status,
               answered |-> cur.answered]
      BY <3>1, <3>3 DEF Row
    <3> QED BY <3>1, <3>2, <3>4, <2>3 DEF Row
  <2>6. Counted(r)
    BY <2>3, <2>5 DEF Counted
  <2> QED BY <1>1, <2>4, <2>5, <2>6, CallKeeps
<1> QED BY <1>2, <1>3

(* An error, a failed commit or a crash: the rows are forgotten.           *)
LEMMA ForgetKeeps ==
  ASSUME IInv, UNCHANGED <<tasks, proposed>>, batch' = <<>>, position' \in Nat,
         detection' = detection \/ detection' = [w \in Window |-> Idle], windows' = windows
  PROVE  IInv'
<1>1. batch' \in Seq(Row) /\ DOMAIN batch' = {}
  BY EmptySeq
<1>2. BatchSound'
  BY <1>1 DEF BatchSound
<1> QED BY <1>1, <1>2, RowsKeep

(* What the commit writes back: the status and the attempts of the rows,   *)
(* for tasks that were pending.                                            *)
LEMMA WrittenBackFacts ==
  ASSUME IInv, \A r \in ToSet(batch) : tasks[r.id].status # "deleted"
  PROVE  /\ WrittenBack \in Seq(Entry) /\ DOMAIN WrittenBack = DOMAIN tasks
         /\ \A i \in DOMAIN tasks :
              /\ WrittenBack[i].msg = tasks[i].msg
              /\ \/ WrittenBack[i] = tasks[i] /\ \A k \in DOMAIN batch : batch[k].id # i
                 \/ \E k \in DOMAIN batch :
                      /\ batch[k].id = i /\ tasks[i].status = "pending"
                      /\ WrittenBack[i].status = batch[k].status
                      /\ WrittenBack[i].attempts = batch[k].attempts
<1>1. TypeOK /\ BatchSound
  BY DEF IInv
<1>2. ASSUME NEW i \in DOMAIN tasks, NEW k \in DOMAIN batch, batch[k].id = i
      PROVE  RowOf(i) = k
  BY <1>1, <1>2 DEF RowOf, BatchSound
<1>3. \A k \in DOMAIN batch : tasks[batch[k].id].status = "pending"
  BY <1>1 DEF BatchSound, ToSet
<1> DEFINE W(i) == IF \E k \in DOMAIN batch : batch[k].id = i
                   THEN [tasks[i] EXCEPT !.attempts = batch[RowOf(i)].attempts,
                                         !.status   = batch[RowOf(i)].status]
                   ELSE tasks[i]
<1>4. ASSUME NEW i \in DOMAIN tasks
      PROVE  /\ W(i) \in Entry /\ W(i).msg = tasks[i].msg
             /\ \/ W(i) = tasks[i] /\ \A k \in DOMAIN batch : batch[k].id # i
                \/ \E k \in DOMAIN batch :
                     /\ batch[k].id = i /\ tasks[i].status = "pending"
                     /\ W(i).status = batch[k].status
                     /\ W(i).attempts = batch[k].attempts
  <2>1. tasks[i] \in Entry
    BY <1>1, Members
  <2>2. CASE \A k \in DOMAIN batch : batch[k].id # i
    BY <2>1, <2>2
  <2>3. ASSUME NEW k \in DOMAIN batch, batch[k].id = i
        PROVE  /\ W(i) \in Entry /\ W(i).msg = tasks[i].msg
               /\ W(i).status = batch[k].status /\ W(i).attempts = batch[k].attempts
    <3>1. RowOf(i) = k /\ batch[k] \in Row
      BY <1>1, <1>2, <2>3, Members
    <3>2. W(i) = [tasks[i] EXCEPT !.attempts = batch[k].attempts, !.status = batch[k].status]
      BY <2>3, <3>1
    <3> HIDE DEF W
    <3> QED BY <2>1, <3>1, <3>2 DEF Entry, Row, Status
  <2> HIDE DEF W
  <2> QED BY <1>3, <2>2, <2>3 DEF W
<1>5. WrittenBack = [i \in DOMAIN tasks |-> W(i)]
  BY DEF WrittenBack
<1> HIDE DEF W
<1>6. WrittenBack \in [DOMAIN tasks -> Entry] /\ \A i \in DOMAIN tasks : WrittenBack[i] = W(i)
  BY <1>4, <1>5
<1>7. WrittenBack \in Seq(Entry) /\ DOMAIN WrittenBack = DOMAIN tasks
  BY <1>1, <1>6, Members
<1> QED BY <1>4, <1>6, <1>7

(* The commit stores candidates and statuses together.                     *)
LEMMA CommitKeeps ==
  ASSUME IInv, Commit
  PROVE  IInv'
<1>1. /\ TypeOK /\ BatchSound /\ batch' = <<>> /\ position' = 0
      /\ UNCHANGED <<detection, windows>>
  BY DEF IInv, Commit
<1>2. CASE \E r \in ToSet(batch) : tasks[r.id].status = "deleted"
  BY <1>1, <1>2, ForgetKeeps DEF Commit
<1>3. CASE \A r \in ToSet(batch) : tasks[r.id].status # "deleted"
  <2>1. /\ tasks' = WrittenBack
        /\ proposed' = proposed \cup {r.id : r \in {r \in ToSet(batch) : r.answered}}
    BY <1>3 DEF Commit
  <2>2. /\ tasks' \in Seq(Entry) /\ DOMAIN tasks' = DOMAIN tasks
        /\ \A i \in DOMAIN tasks :
             /\ tasks'[i].msg = tasks[i].msg
             /\ \/ tasks'[i] = tasks[i] /\ \A k \in DOMAIN batch : batch[k].id # i
                \/ \E k \in DOMAIN batch :
                     /\ batch[k].id = i /\ tasks[i].status = "pending"
                     /\ tasks'[i].status = batch[k].status
                     /\ tasks'[i].attempts = batch[k].attempts
    BY <1>3, <2>1, WrittenBackFacts
  <2>3. \A i \in proposed' : \/ i \in proposed
                             \/ \E k \in DOMAIN batch : batch[k].id = i /\ batch[k].answered
    BY <2>1 DEF ToSet
  <2>4. TypeOK'
    <3>1. proposed' \subseteq DOMAIN tasks
      BY <1>1, <2>3 DEF TypeOK, BatchSound
    <3>2. batch' \in Seq(Row)
      BY <1>1, EmptySeq
    <3> QED BY <1>1, <2>2, <3>1, <3>2 DEF TypeOK
  <2>5. BatchSound'
    BY <1>1, EmptySeq DEF BatchSound
  <2>6. \A i \in Ids({"pending"})' : i \in Ids({"pending"})
    BY <2>2 DEF Ids
  <2>7. SelectionCovers'
    <3>1. Len(tasks') = Len(tasks)
      BY <1>1, <2>2, LenProperties DEF TypeOK
    <3> QED BY <1>1, <2>2, <2>6, <3>1 DEF IInv, SelectionCovers, Ids
  <2>8. AnsweredIsDone'
    <3>1. ASSUME NEW i \in proposed'
          PROVE  tasks'[i].status \in {"done", "deleted"}
      <4>1. CASE i \in proposed
        BY <1>1, <2>2, <4>1 DEF IInv, TypeOK, AnsweredIsDone
      <4>2. CASE i \notin proposed
        <5>1. PICK k \in DOMAIN batch : batch[k].id = i /\ batch[k].answered
          BY <2>3, <4>2
        <5>2. batch[k].status = "done" /\ i \in DOMAIN tasks
          BY <1>1, <5>1 DEF BatchSound
        <5>3. PICK l \in DOMAIN batch : batch[l].id = i /\ tasks'[i].status = batch[l].status
          BY <2>2, <5>1, <5>2
        <5> QED BY <1>1, <5>1, <5>2, <5>3 DEF BatchSound
      <4> QED BY <4>1, <4>2
    <3>2. \A i \in DOMAIN tasks : Counted(tasks'[i])
      BY <1>1, <2>2 DEF IInv, AnsweredIsDone, BatchSound, Counted
    <3> QED BY <2>2, <3>1, <3>2 DEF AnsweredIsDone, Counted
  <2> QED BY <2>4, <2>5, <2>7, <2>8 DEF IInv
<1> QED BY <1>2, <1>3

(* A deletion takes a task out of the queue for good.                      *)
LEMMA DeleteKeeps ==
  ASSUME IInv, NEW d \in DOMAIN tasks, DeleteClue(d)
  PROVE  IInv'
<1>1. TypeOK /\ UNCHANGED <<proposed, detection, batch, position, windows>>
  BY DEF IInv, DeleteClue, worker
<1>2. /\ tasks' \in Seq(Entry) /\ DOMAIN tasks' = DOMAIN tasks
      /\ tasks'[d].status = "deleted"
      /\ \A i \in DOMAIN tasks : tasks'[i].msg = tasks[i].msg /\ (i # d => tasks'[i] = tasks[i])
  <2> DEFINE t == [tasks[d] EXCEPT !.status = "deleted"]
  <2>1. tasks[d] \in Entry /\ tasks \in Seq(Entry)
    BY <1>1, Members DEF TypeOK
  <2>2. t \in Entry /\ t.status = "deleted" /\ t.msg = tasks[d].msg
    BY <2>1 DEF Entry, Status
  <2>3. tasks' = [tasks EXCEPT ![d] = t]
    BY DEF DeleteClue
  <2> HIDE DEF t
  <2>4. tasks' \in Seq(Entry) /\ DOMAIN tasks' = DOMAIN tasks
    BY <1>1, <2>1, <2>2, <2>3, ExceptSeq, Members
  <2> QED BY <2>2, <2>3, <2>4
<1>3. TypeOK' /\ BatchSound'
  BY <1>1, <1>2 DEF IInv, TypeOK, BatchSound
<1>4. SelectionCovers'
  <2>1. Len(tasks') = Len(tasks)
    BY <1>1, <1>2, LenProperties DEF TypeOK
  <2> QED BY <1>1, <1>2, <2>1 DEF IInv, SelectionCovers, Ids
<1>5. AnsweredIsDone'
  BY <1>1, <1>2 DEF IInv, TypeOK, AnsweredIsDone
<1> QED BY <1>3, <1>4, <1>5 DEF IInv

(* Every step of the worker, of process_window, of the editors and of a    *)
(* crash keeps the invariant.                                              *)
LEMMA NextKeeps == IInv /\ [Next]_vars => IInv'
<1> SUFFICES ASSUME IInv, [Next]_vars
             PROVE  IInv'
  OBVIOUS
<1>1. CASE UNCHANGED vars
  BY <1>1 DEF IInv, TypeOK, BatchSound, SelectionCovers, AnsweredIsDone, Ids, vars, worker
<1>2. CASE Error \/ Crash
  BY <1>2, ForgetKeeps DEF Error, Crash
<1>3. CASE Probe
  BY <1>3 DEF Probe, IInv, TypeOK, BatchSound, SelectionCovers, AnsweredIsDone, Ids
<1> QED BY <1>1, <1>2, <1>3, ArrivalKeeps, SelectsKeep, EnqueueKeeps, DrainKeeps, AnswerKeeps,
          CommitKeeps, DeleteKeeps
        DEF Next, Work, Detect

(* An empty queue, with nothing loaded, is sound.                          *)
LEMMA InitKeeps == Init => IInv
<1> SUFFICES ASSUME Init PROVE IInv
  OBVIOUS
<1>1. tasks \in Seq(Entry) /\ batch \in Seq(Row) /\ DOMAIN tasks = {} /\ DOMAIN batch = {}
  BY EmptySeq DEF Init
<1> QED BY <1>1 DEF Init, IInv, TypeOK, BatchSound, SelectionCovers, AnsweredIsDone, PendingOnce,
                    Ids, Idle, Coroutine, Stage

-----------------------------------------------------------------------------
(* The theorems *)

(* The invariant, whatever the provider, the editors and crashes do.       *)
THEOREM QueueSound == Spec => []IInv
BY InitKeeps, NextKeeps, PTL DEF Spec

(* A candidate and the task it answers are committed together, and a task  *)
(* is given up with its last attempt.                                      *)
THEOREM AnsweredStaysDone == Spec => []AnsweredIsDone
<1>1. IInv => AnsweredIsDone
  BY DEF IInv
<1> QED BY <1>1, QueueSound, PTL

(* A message is enqueued beside a pending task of its own only if that     *)
(* task was committed after the coroutine had looked.                      *)
THEOREM OverlapsAloneRepeat == Spec => OnlyOverlapsRepeat
<1> DEFINE Later == \A w \in Window : Enqueue(w) =>
                      \A i \in DOMAIN tasks' \ DOMAIN tasks, j \in Ids({"pending"}) :
                        tasks'[i].msg = tasks[j].msg => j > detection[w].upTo
<1>1. IInv => Later
  <2> SUFFICES ASSUME IInv, NEW w \in Window, Enqueue(w),
                      NEW i \in DOMAIN tasks' \ DOMAIN tasks, NEW j \in Ids({"pending"}),
                      tasks'[i].msg = tasks[j].msg
               PROVE  j > detection[w].upTo
    OBVIOUS
  <2>1. detection[w].at = "selected" /\ tasks[j].msg \notin detection[w].existing
    BY EnqueueKeeps DEF Enqueue
  <2>2. ~(j <= detection[w].upTo)
    BY <2>1 DEF IInv, SelectionCovers
  <2>3. j \in Nat /\ detection[w].upTo \in Nat
    BY Members DEF IInv, TypeOK, Coroutine, Ids
  <2> QED BY <2>2, <2>3
<1>2. Spec => [][Later]_vars
  BY <1>1, QueueSound, PTL DEF Spec
<1> QED BY <1>2 DEF OnlyOverlapsRepeat

(* A task that was answered or given up is never taken up again.           *)
THEOREM SettledStays == Spec => SettledForGood
<1> DEFINE Stays == \A i \in DOMAIN tasks : tasks[i].status \in {"done", "failed"} =>
                      tasks'[i].status \in {tasks[i].status, "deleted"}
<1>1. IInv /\ [Next]_vars => Stays
  <2> SUFFICES ASSUME IInv, [Next]_vars, NEW i \in DOMAIN tasks,
                      tasks[i].status \in {"done", "failed"}
               PROVE  tasks'[i].status \in {tasks[i].status, "deleted"}
    OBVIOUS
  <2>1. CASE UNCHANGED tasks
    BY <2>1
  <2>2. ASSUME NEW w \in Window, Enqueue(w)
        PROVE  tasks'[i].status \in {tasks[i].status, "deleted"}
    <3> DEFINE added == [k \in DOMAIN InOrder(detection[w].msgs \ detection[w].existing) |->
                           NewTask(InOrder(detection[w].msgs \ detection[w].existing)[k])]
    <3>1. tasks' = tasks \o added /\ TypeOK
      BY <2>2 DEF Enqueue, IInv
    <3> HIDE DEF added
    <3>2. tasks'[i] = tasks[i]
      BY <3>1, Members
    <3> QED BY <3>2
  <2>3. CASE Commit /\ ~UNCHANGED tasks
    <3>1. tasks' = WrittenBack /\ \A r \in ToSet(batch) : tasks[r.id].status # "deleted"
      BY <2>3 DEF Commit
    <3> QED BY <3>1, WrittenBackFacts
  <2>4. ASSUME NEW d \in DOMAIN tasks, DeleteClue(d)
        PROVE  tasks'[i].status \in {tasks[i].status, "deleted"}
    <3>1. tasks[d] \in Entry
      BY Members DEF IInv
    <3> QED BY <2>4, <3>1 DEF DeleteClue, Entry
  <2> QED BY <2>1, <2>2, <2>3, <2>4 DEF Next, Work, Drain, Answer, Unavailable, Error, Probe, Detect,
             StartWindow, SelectCandidates, SelectTasks, Crash, vars
<1>2. Spec => [][Stays]_vars
  BY <1>1, QueueSound, PTL DEF Spec
<1> QED BY <1>2 DEF SettledForGood

-----------------------------------------------------------------------------
(***************************************************************************)
(* Room. A second listener comes of a reconnect that finds `running'       *)
(* cleared. The thread that made it goes back to its loop, where it        *)
(* leaves at once or, if the new one has set `running' again, stays.       *)
(* Either way nobody is left at a place from which a third could be        *)
(* started, before `running' is cleared once more.                         *)
(***************************************************************************)

(* The invariant *)

Place == {"none", "start", "loop", "recv", "reconnect", "leave", "dead"}

RoomTypes ==
  /\ faults \in SUBSET Fault
  /\ pc \in [Thread -> Place]
  /\ running \in BOOLEAN /\ stale \in BOOLEAN
  /\ current \in Thread
  /\ socket \in {"open", "lost", "silent", "closed"}
  /\ halter \in Thread \cup {"idle", "clearing"}
  /\ halts \in Nat

(* from here a thread that finds `running' cleared starts another *)
MayStart(t) == pc[t] \in {"recv", "reconnect"}

(* Before the first call `running' is cleared only by what also ends the   *)
(* listener.                                                               *)
BeforeHalts ==
  halts = 0 =>
    /\ halter = "idle" /\ Listeners \subseteq {First}
    /\ ~running => pc[First] = "start" \/ ~Alive(First)

(* With one call, there are two only where none of them may start a third. *)
OneHalt ==
  halts <= 1 =>
    \/ \E t \in Thread : Listeners \subseteq {t}
    \/ /\ \E t, u \in Thread : Listeners \subseteq {t, u}
       /\ ~running => \A t \in Thread : ~MayStart(t)

(* Without exceptions, a call of halt that returns leaves one listener at  *)
(* most: the one it joined was the last there was, or the one before.      *)
Alone ==
  /\ Listeners \subseteq {current}
  /\ halter \in {"idle", "clearing", current}
  /\ halter = "idle" /\ ~running => pc[current] = "start" \/ ~Alive(current)

Succeeded(old) ==
  /\ Listeners \subseteq {old, current} /\ old # current
  /\ halter \in {"clearing", old, current}
  /\ pc[current] \in {"start", "loop", "recv", "reconnect"}
  /\ ~running => pc[current] = "start" /\ ~MayStart(old)

WithoutExceptions == faults \subseteq {"silent"} => Alone \/ \E old \in Thread : Succeeded(old)

(* The connection is closed by the last to end. *)
ClosedByLast == Listeners = {} /\ faults \cap {"refusal", "malformed"} = {} => socket = "closed"

RoomInv == RoomTypes /\ BeforeHalts /\ OneHalt /\ WithoutExceptions /\ ClosedByLast

-----------------------------------------------------------------------------
(* The steps of a thread *)

(* Where the threads are after one of them has gone to l. *)
LEMMA GoesTo ==
  ASSUME RoomTypes, NEW t \in Thread, NEW l \in Place, Goto(t, l)
  PROVE  /\ pc' \in [Thread -> Place] /\ pc'[t] = l
         /\ \A u \in Thread : u # t => pc'[u] = pc[u]
BY DEF RoomTypes, Goto

(* A listener moves on, and not to where it could start another, unless it *)
(* could before or `running' is set.                                       *)
LEMMA MoveKeeps ==
  ASSUME RoomTypes, BeforeHalts, OneHalt, WithoutExceptions, NEW t \in Thread, Alive(t),
         NEW l \in {"loop", "recv", "reconnect", "leave"}, Goto(t, l),
         UNCHANGED <<faults, current, halter, halts>>,
         running' = running \/ (running' = TRUE /\ pc[t] = "start"),
         l \in {"recv", "reconnect"} => running' \/ MayStart(t),
         pc[t] = "start" => running',
         l = "leave" => ~running'
  PROVE  BeforeHalts' /\ OneHalt' /\ WithoutExceptions'
<1>1. /\ pc' \in [Thread -> Place] /\ pc'[t] = l
      /\ \A u \in Thread : u # t => pc'[u] = pc[u]
  BY GoesTo DEF Place
<1>2. Listeners' = Listeners /\ t \in Listeners /\ \A u \in Thread : Alive(u)' <=> Alive(u)
  BY <1>1 DEF Listeners, Alive
<1>3. BeforeHalts'
  BY <1>1, <1>2 DEF BeforeHalts, Alive, MayStart
<1>4. OneHalt'
  BY <1>1, <1>2 DEF OneHalt, MayStart
<1>5. WithoutExceptions'
  <2> SUFFICES ASSUME faults \subseteq {"silent"}
               PROVE  Alone' \/ \E old \in Thread : Succeeded(old)'
    BY DEF WithoutExceptions
  <2>1. CASE Alone
    <3>1. t = current
      BY <1>2, <2>1 DEF Alone
    <3>2. halter = "idle" /\ ~running => pc[current] = "start"
      BY <2>1, <3>1 DEF Alone
    <3> QED BY <1>1, <1>2, <2>1, <3>1, <3>2 DEF Alone, MayStart
  <2>2. ASSUME NEW old \in Thread, Succeeded(old)
        PROVE  Succeeded(old)'
    <3>1. t = old \/ t = current
      BY <1>2, <2>2 DEF Succeeded
    <3>2. ~running' => ~running /\ t # current
      BY <2>2 DEF Succeeded
    <3>3. pc'[current] \in {"start", "loop", "recv", "reconnect"}
      BY <1>1, <2>2, <3>2 DEF Succeeded, RoomTypes
    <3>4. ~running' => pc'[current] = "start" /\ ~MayStart(old)'
      BY <1>1, <2>2, <3>1, <3>2 DEF Succeeded, MayStart, RoomTypes
    <3> QED BY <1>2, <2>2, <3>3, <3>4 DEF Succeeded
  <2> QED BY <2>1, <2>2 DEF WithoutExceptions
<1> QED BY <1>3, <1>4, <1>5

(* A listener ends: with an exception, or because `running' is cleared.    *)
LEMMA EndKeeps ==
  ASSUME RoomTypes, BeforeHalts, OneHalt, WithoutExceptions, NEW t \in Thread, Alive(t), Goto(t, "dead"),
         UNCHANGED <<faults, current, halter, halts>>,
         running' = running \/ running' = FALSE,
         faults \subseteq {"silent"} => pc[t] = "leave" /\ running' = running
  PROVE  BeforeHalts' /\ OneHalt' /\ WithoutExceptions'
<1>1. /\ pc' \in [Thread -> Place] /\ pc'[t] = "dead"
      /\ \A u \in Thread : u # t => pc'[u] = pc[u]
  BY GoesTo DEF Place
<1>2. Listeners' = Listeners \ {t} /\ t \in Listeners
  BY <1>1 DEF Listeners, Alive
<1>3. BeforeHalts'
  BY <1>1, <1>2 DEF BeforeHalts, Alive
<1>4. OneHalt'
  <2> SUFFICES ASSUME halts <= 1
               PROVE  \E u \in Thread : Listeners' \subseteq {u}
    BY DEF OneHalt
  <2>1. PICK a, b \in Thread : Listeners \subseteq {a, b}
    BY DEF OneHalt
  <2>2. t = a \/ t = b
    BY <1>2, <2>1
  <2> QED BY <1>2, <2>1, <2>2
<1>5. WithoutExceptions'
  <2> SUFFICES ASSUME faults \subseteq {"silent"}
               PROVE  Alone' \/ \E old \in Thread : Succeeded(old)'
    BY DEF WithoutExceptions
  <2>1. CASE Alone
    BY <1>1, <1>2, <2>1 DEF Alone, Alive
  <2>2. ASSUME NEW old \in Thread, Succeeded(old)
        PROVE  Succeeded(old)'
    <3>1. t = old /\ running' = running
      BY <1>2, <2>2 DEF Succeeded
    <3>2. pc'[current] = pc[current] /\ ~MayStart(old)'
      BY <1>1, <2>2, <3>1 DEF Succeeded, MayStart, RoomTypes
    <3>3. Listeners' \subseteq {old, current}
      BY <1>2, <2>2 DEF Succeeded
    <3> QED BY <2>2, <3>1, <3>2, <3>3 DEF Succeeded
  <2> QED BY <2>1, <2>2 DEF WithoutExceptions
<1> QED BY <1>3, <1>4, <1>5

(* A reconnect that finds `running' cleared starts another.                *)
LEMMA StartKeeps ==
  ASSUME RoomTypes, BeforeHalts, OneHalt, WithoutExceptions, NEW t \in Thread, Reconnect(t), ~running
  PROVE  BeforeHalts' /\ OneHalt' /\ WithoutExceptions' /\ pc' \in [Thread -> Place] /\ current' \in Thread
<1>1. /\ pc[t] = "reconnect" /\ New \in Unused /\ current' = New
      /\ pc' = [pc EXCEPT ![t] = "loop", ![New] = "start"]
      /\ UNCHANGED <<faults, running, halter, halts>>
  BY DEF Reconnect, Starts, New
<1>2. PICK n \in Thread : n = New /\ pc[n] = "none" /\ n # t
  BY <1>1 DEF Unused
<1>3. /\ pc' \in [Thread -> Place] /\ pc'[t] = "loop" /\ pc'[n] = "start"
      /\ \A u \in Thread : u # t /\ u # n => pc'[u] = pc[u]
  BY <1>1, <1>2 DEF RoomTypes, Place
<1>4. Listeners' = Listeners \cup {n} /\ t \in Listeners /\ n \notin Listeners
  BY <1>1, <1>2, <1>3 DEF Listeners, Alive
<1>5. BeforeHalts'
  BY <1>1, <1>4 DEF BeforeHalts, Alive, Listeners
<1>6. OneHalt'
  <2> SUFFICES ASSUME halts <= 1
               PROVE  /\ \E a, b \in Thread : Listeners' \subseteq {a, b}
                      /\ \A u \in Thread : ~MayStart(u)'
    BY <1>1 DEF OneHalt
  <2>1. MayStart(t)
    BY <1>1 DEF MayStart
  <2>2. Listeners \subseteq {t}
    BY <1>4, <2>1 DEF OneHalt
  <2>3. \A u \in Thread : u # t => ~MayStart(u)
    BY <2>2 DEF Listeners, Alive, MayStart
  <2> QED BY <1>2, <1>3, <1>4, <2>2, <2>3 DEF MayStart
<1>7. WithoutExceptions'
  <2> SUFFICES ASSUME faults \subseteq {"silent"}
               PROVE  Succeeded(t)'
    BY <1>1 DEF WithoutExceptions
  <2>1. Alone
    <3>1. \A old \in Thread : ~Succeeded(old)
      BY <1>1, <1>4 DEF Succeeded, MayStart
    <3> QED BY <1>1, <3>1 DEF WithoutExceptions
  <2>2. t = current /\ halter \in {"clearing", t}
    BY <1>1, <1>4, <2>1 DEF Alone, Alive
  <2> QED BY <1>1, <1>2, <1>3, <1>4, <2>1, <2>2 DEF Succeeded, Alone, MayStart
<1> QED BY <1>1, <1>2, <1>3, <1>5, <1>6, <1>7

-----------------------------------------------------------------------------
(* The calls of halt *)

(* `running' is cleared, where at most one listener is left.               *)
LEMMA ClearKeeps ==
  ASSUME RoomTypes, BeforeHalts, OneHalt, WithoutExceptions, Clear \/ LeaveAllRooms
  PROVE  BeforeHalts' /\ OneHalt' /\ WithoutExceptions'
<1>1. /\ halter = "idle" /\ halts' = halts + 1 /\ halts \in Nat /\ UNCHANGED <<faults, pc, current>>
      /\ \/ UNCHANGED <<running, halter>>
         \/ running' = FALSE /\ halter' = "clearing"
  BY DEF Clear, LeaveAllRooms, RoomTypes
<1>2. Listeners' = Listeners /\ \A u \in Thread : Alive(u)' <=> Alive(u)
  BY <1>1 DEF Listeners, Alive
<1>3. BeforeHalts'
  BY <1>1 DEF BeforeHalts
<1>4. OneHalt'
  BY <1>1, <1>2, RoomAssumption DEF BeforeHalts, OneHalt
<1>5. WithoutExceptions'
  <2>1. faults \subseteq {"silent"} => Alone
    BY <1>1, RoomAssumption DEF WithoutExceptions, Succeeded, RoomTypes
  <2>2. Alone => Alone'
    BY <1>1, <1>2 DEF Alone, Alive
  <2> QED BY <1>1, <2>1, <2>2 DEF WithoutExceptions
<1> QED BY <1>3, <1>4, <1>5

(* halt joins the last thread that was started, and returns when it ended. *)
LEMMA JoinKeeps ==
  ASSUME RoomTypes, BeforeHalts, OneHalt, WithoutExceptions, Join \/ Joined
  PROVE  BeforeHalts' /\ OneHalt' /\ WithoutExceptions'
<1>1. /\ UNCHANGED <<faults, pc, current, running, halts>> /\ current \in Thread
      /\ \/ halter = "clearing" /\ halter' = current
         \/ halter \in Thread /\ ~Alive(halter) /\ halter' = "idle"
      /\ halter # "idle"
  BY RoomAssumption DEF Join, Joined, RoomTypes
<1>2. Listeners' = Listeners /\ \A u \in Thread : Alive(u)' <=> Alive(u)
  BY <1>1 DEF Listeners, Alive
<1>3. BeforeHalts' /\ OneHalt'
  BY <1>1, <1>2 DEF BeforeHalts, OneHalt, MayStart
<1>4. WithoutExceptions'
  <2> SUFFICES ASSUME faults \subseteq {"silent"}
               PROVE  Alone' \/ \E old \in Thread : Succeeded(old)'
    BY <1>1 DEF WithoutExceptions
  <2>1. CASE Alone
    BY <1>1, <1>2, <2>1, RoomAssumption DEF Alone
  <2>2. ASSUME NEW old \in Thread, Succeeded(old)
        PROVE  Alone' \/ Succeeded(old)'
    <3>1. CASE halter = "clearing" /\ halter' = current
      BY <1>1, <1>2, <2>2, <3>1 DEF Succeeded, MayStart
    <3>2. CASE halter \in Thread /\ ~Alive(halter) /\ halter' = "idle"
      <4>1. halter = old
        BY <2>2, <3>2, RoomAssumption DEF Succeeded, Alive
      <4>2. Listeners \subseteq {current}
        BY <2>2, <3>2, <4>1 DEF Succeeded, Listeners
      <4> QED BY <1>1, <1>2, <2>2, <3>2, <4>2 DEF Succeeded, Alone
    <3> QED BY <1>1, <3>1, <3>2
  <2> QED BY <2>1, <2>2 DEF WithoutExceptions
<1> QED BY <1>3, <1>4

-----------------------------------------------------------------------------
(* All steps *)

(* Every step keeps the type.                                              *)
LEMMA TypeKeeps ==
  ASSUME RoomInv, RoomNext
  PROVE  RoomTypes'
<1>1. RoomTypes /\ RoomAssumption
  BY RoomAssumption DEF RoomInv
<1>2. ASSUME NEW t \in Thread, Run(t)
      PROVE  RoomTypes'
  <2>1. CASE \E l \in Place : Goto(t, l)
    <3>1. pc' \in [Thread -> Place]
      BY <1>1, <2>1, GoesTo
    <3>2. UNCHANGED current \/ Reconnect(t)
      BY <1>2 DEF Run, Begin, Loop, RecvNothing, RecvEvents, RecvEmpty, RecvClosed, RecvError,
         ReconnectFails, Leave
    <3>3. current' \in Thread
      BY <1>1, <3>2 DEF Reconnect, RoomTypes, New, Unused
    <3> QED BY <1>1, <1>2, <3>1, <3>3 DEF Run, Begin, Loop, RecvNothing, RecvEvents, RecvEmpty, RecvClosed,
               RecvError, ReconnectFails, Reconnect, Leave, RoomTypes
  <2>2. CASE Reconnect(t) /\ ~running
    BY <1>1, <2>2, StartKeeps DEF RoomInv, Reconnect, RoomTypes
  <2> QED BY <1>2, <2>1, <2>2 DEF Run, Begin, Loop, RecvNothing, RecvEvents, RecvEmpty, RecvClosed,
             RecvError, ReconnectFails, Reconnect, Starts, Leave, Place
<1>3. CASE Halt
  <2>1. UNCHANGED <<faults, pc, current, socket, stale>>
    BY <1>3 DEF Halt, Clear, LeaveAllRooms, Join, Joined
  <2>2. /\ running' \in BOOLEAN /\ halter' \in Thread \cup {"idle", "clearing"}
        /\ halts' = halts \/ halts' = halts + 1
    BY <1>1, <1>3 DEF Halt, Clear, LeaveAllRooms, Join, Joined, RoomTypes
  <2> QED BY <1>1, <2>1, <2>2 DEF RoomTypes
<1>4. CASE Drop \/ Age
  BY <1>1, <1>4 DEF Drop, Age, RoomTypes
<1> QED BY <1>2, <1>3, <1>4 DEF RoomNext

(* Every step of a thread keeps the listeners few.                         *)
LEMMA RunKeeps ==
  ASSUME RoomInv, NEW t \in Thread, Run(t)
  PROVE  BeforeHalts' /\ OneHalt' /\ WithoutExceptions'
<1>1. RoomTypes /\ BeforeHalts /\ OneHalt /\ WithoutExceptions /\ running \in BOOLEAN
  BY DEF RoomInv, RoomTypes
<1>2. CASE Begin(t)
  BY <1>1, <1>2, MoveKeeps DEF Begin, Alive
<1>3. CASE Loop(t)
  BY <1>1, <1>3, MoveKeeps DEF Loop, Alive
<1>4. CASE RecvNothing(t) \/ RecvEmpty(t) \/ RecvClosed(t) \/ (RecvEvents(t) /\ Goto(t, "loop"))
  <2>1. PICK l \in {"loop", "reconnect"} : Goto(t, l)
    BY <1>4 DEF RecvNothing, RecvEvents, RecvEmpty, RecvClosed
  <2>2. pc[t] = "recv" /\ UNCHANGED <<faults, running, current, halter, halts>>
    BY <1>4 DEF RecvNothing, RecvEvents, RecvEmpty, RecvClosed
  <2> QED BY <1>1, <2>1, <2>2, MoveKeeps DEF Alive, MayStart
<1>5. CASE ReconnectFails(t) /\ Goto(t, "loop")
  BY <1>1, <1>5, MoveKeeps DEF ReconnectFails, Alive
<1>6. CASE Reconnect(t)
  <2>1. CASE running
    BY <1>1, <1>6, <2>1, MoveKeeps DEF Reconnect, Starts, Alive
  <2>2. CASE ~running
    BY <1>1, <1>6, <2>2, StartKeeps
  <2> QED BY <2>1, <2>2
<1>7. CASE (RecvEvents(t) \/ ReconnectFails(t)) /\ Goto(t, "dead")
  <2>1. /\ pc[t] \in {"recv", "reconnect"} /\ Goto(t, "dead")
        /\ UNCHANGED <<faults, running, current, halter, halts>>
    BY <1>7 DEF RecvEvents, ReconnectFails
  <2>2. \A l \in {"loop"} : ~Goto(t, l)
    BY <1>1, <2>1, GoesTo DEF Place
  <2>3. ~(faults \subseteq {"silent"})
    BY <1>7, <2>2 DEF RecvEvents, ReconnectFails
  <2> QED BY <1>1, <2>1, <2>3, EndKeeps DEF Alive
<1>8. CASE RecvError(t)
  BY <1>1, <1>8, EndKeeps DEF RecvError, Alive
<1>9. CASE Leave(t)
  BY <1>1, <1>9, EndKeeps DEF Leave, Alive
<1>10. /\ RecvEvents(t) => Goto(t, "loop") \/ Goto(t, "dead")
       /\ ReconnectFails(t) => Goto(t, "loop") \/ Goto(t, "dead")
  BY DEF RecvEvents, ReconnectFails
<1> QED BY <1>2, <1>3, <1>4, <1>5, <1>6, <1>7, <1>8, <1>9, <1>10 DEF Run

(* Whoever ends, the exceptions that run does not catch aside, has closed  *)
(* the connection; whoever goes on is there to close it.                   *)
LEMMA ClosedKeeps ==
  ASSUME RoomInv, RoomNext
  PROVE  ClosedByLast'
<1>1. RoomTypes /\ ClosedByLast
  BY DEF RoomInv
<1>2. ASSUME NEW t \in Thread, Run(t)
      PROVE  ClosedByLast'
  <2>1. CASE \E l \in {"loop", "recv", "reconnect", "leave"} : Goto(t, l)
    <3>1. t \in Listeners'
      BY <1>1, <2>1, GoesTo DEF Place, Listeners, Alive
    <3> QED BY <3>1 DEF ClosedByLast
  <2>2. CASE Reconnect(t) /\ ~running
    <3>1. PICK n \in Thread : n \in Unused /\ pc' = [pc EXCEPT ![t] = "loop", ![n] = "start"]
      BY <2>2 DEF Reconnect, Starts, New, Unused
    <3>2. n \in Listeners'
      BY <1>1, <3>1 DEF Listeners, Alive, RoomTypes
    <3> QED BY <3>2 DEF ClosedByLast
  <2>3. CASE RecvError(t) \/ Leave(t)
    BY <2>3 DEF RecvError, Leave, ClosedByLast
  <2>4. CASE (RecvEvents(t) \/ ReconnectFails(t)) /\ faults \cap {"refusal", "malformed"} # {}
    BY <2>4 DEF RecvEvents, ReconnectFails, ClosedByLast
  <2> QED BY <1>2, <2>1, <2>2, <2>3, <2>4 DEF Run, Begin, Loop, RecvNothing, RecvEvents, RecvEmpty,
             RecvClosed, ReconnectFails, Reconnect, Starts
<1>3. CASE Halt \/ Age
  BY <1>1, <1>3 DEF Halt, Clear, LeaveAllRooms, Join, Joined, Age, ClosedByLast, Listeners, Alive
<1>4. CASE Drop
  BY <1>1, <1>4 DEF Drop, ClosedByLast, Listeners, Alive
<1> QED BY <1>2, <1>3, <1>4 DEF RoomNext

(* Threads, halt, the network and time keep the invariant.                 *)
LEMMA RoomKeeps == RoomInv /\ [RoomNext]_roomVars => RoomInv'
<1> SUFFICES ASSUME RoomInv, [RoomNext]_roomVars
             PROVE  RoomInv'
  OBVIOUS
<1>1. CASE UNCHANGED <<faults, pc, running, current, halter, halts>>
  <2>1. Listeners' = Listeners /\ \A t \in Thread : (Alive(t)' <=> Alive(t)) /\ (MayStart(t)' <=> MayStart(t))
    BY <1>1 DEF Listeners, Alive, MayStart
  <2>2. BeforeHalts' /\ OneHalt'
    BY <1>1, <2>1 DEF RoomInv, BeforeHalts, OneHalt, Alive
  <2>3. WithoutExceptions'
    BY <1>1, <2>1 DEF RoomInv, WithoutExceptions, Alone, Succeeded, Alive, MayStart
  <2>4. RoomTypes' /\ ClosedByLast'
    BY <1>1, <2>1, TypeKeeps, ClosedKeeps DEF RoomInv, RoomTypes, ClosedByLast, roomVars
  <2> QED BY <2>2, <2>3, <2>4 DEF RoomInv
<1>2. CASE RoomNext
  <2>1. RoomTypes' /\ ClosedByLast'
    BY <1>2, TypeKeeps, ClosedKeeps
  <2>2. CASE Drop \/ Age
    BY <1>1, <2>2 DEF Drop, Age
  <2>3. CASE Halt
    BY <2>1, <2>3, ClearKeeps, JoinKeeps DEF Halt, RoomInv
  <2> QED BY <1>2, <2>1, <2>2, <2>3, RunKeeps DEF RoomNext, RoomInv
<1> QED BY <1>1, <1>2 DEF roomVars

(* joinRoom has started the first listener, over an open connection.       *)
LEMMA RoomStarts == RoomInit => RoomInv
<1> SUFFICES ASSUME RoomInit PROVE RoomInv
  OBVIOUS
<1>1. Listeners = {First} /\ pc[First] = "start" /\ \A t \in Thread : ~MayStart(t)
  BY RoomAssumption DEF RoomInit, Listeners, Alive, MayStart
<1> QED BY <1>1, RoomAssumption DEF RoomInit, RoomInv, RoomTypes, Place, BeforeHalts, OneHalt, WithoutExceptions,
           Alone, ClosedByLast

-----------------------------------------------------------------------------
(* The theorems *)

(* The invariant, for every number of threads and every set of faults.     *)
THEOREM RoomSound == RoomSpec => []RoomInv
BY RoomStarts, RoomKeeps, PTL DEF RoomSpec

(* A set within a pair has no more than two members.                       *)
LEMMA AtMost ==
  ASSUME NEW a, NEW b, NEW S, S \subseteq {a, b}
  PROVE  Cardinality(S) <= 2 /\ (S \subseteq {a} => Cardinality(S) <= 1)
<1>1. IsFiniteSet({a}) /\ Cardinality({a}) = 1
  BY FS_Singleton
<1>2. IsFiniteSet({a, b}) /\ Cardinality({a, b}) <= 2
  <2>1. {a, b} = {a} \cup {b}
    OBVIOUS
  <2> QED BY <1>1, <2>1, FS_AddElement
<1>3. Cardinality(S) \in Nat /\ Cardinality({a, b}) \in Nat /\ Cardinality(S) <= Cardinality({a, b})
  BY <1>2, FS_Subset, FS_CardinalityType
<1> QED BY <1>1, <1>2, <1>3, FS_Subset

(* One listener without a call of halt, two at most with one or without    *)
(* exceptions, and no connection left behind.                              *)
THEOREM FewListeners == RoomSpec => []ListenerPerHalt
<1>1. RoomInv => ListenerPerHalt
  <2> SUFFICES ASSUME RoomInv
               PROVE  ListenerPerHalt
    OBVIOUS
  <2>1. halts = 0 => Cardinality(Listeners) <= 1
    BY AtMost DEF RoomInv, BeforeHalts
  <2>2. halts <= 1 => Cardinality(Listeners) <= 2
    <3>1. halts <= 1 => \E t, u \in Thread : Listeners \subseteq {t, u}
      BY DEF RoomInv, OneHalt
    <3> QED BY <3>1, AtMost
  <2>3. faults \subseteq {"silent"} => Cardinality(Listeners) <= 2
    <3>1. faults \subseteq {"silent"} => \E t, u \in Thread : Listeners \subseteq {t, u}
      BY DEF RoomInv, RoomTypes, WithoutExceptions, Alone, Succeeded
    <3> QED BY <3>1, AtMost
  <2> QED BY <2>1, <2>2, <2>3 DEF ListenerPerHalt, RoomInv, ClosedByLast
<1> QED BY <1>1, RoomSound, PTL

-----------------------------------------------------------------------------
(***************************************************************************)
(* Detect. A processed window has what its tiers make of it; so what is    *)
(* to show is about the operators alone, for windows of any length: no     *)
(* tier loses what an extraction found, and _dedupe loses nothing but to   *)
(* a candidate for the same answer with at least its confidence.           *)
(*                                                                         *)
(* FoldLeft, FlattenSeq and Picked are recursive functions. The proofs     *)
(* about them take the least sequence, or length, for which a claim        *)
(* fails, and show that a shorter one fails too.                           *)
(***************************************************************************)

(* Sums of sequences, as FoldLeft computes them: it takes the last element *)
(* off the set of the positions again and again.                           *)
LEMMA HighestOf ==
  ASSUME NEW n \in Nat \ {0}
  PROVE  Max(1 .. n) = n /\ (1 .. n) \ {n} = 1 .. (n - 1)
<1>1. n \in 1 .. n /\ \A y \in 1 .. n : n >= y
  OBVIOUS
<1>2. Max(1 .. n) \in 1 .. n /\ \A y \in 1 .. n : Max(1 .. n) >= y
  BY <1>1 DEF Max
<1>3. Max(1 .. n) = n
  BY <1>1, <1>2
<1>4. (1 .. n) \ {n} = 1 .. (n - 1)
  OBVIOUS
<1> QED BY <1>3, <1>4

(* A set of positions has the last one as its maximum, if it has that.     *)
LEMMA HighestAdded ==
  ASSUME NEW n \in Nat \ {0}, NEW s \in SUBSET (1 .. n), n \in s
  PROVE  Max(s) = n
<1>1. \A y \in s : y \in Int /\ n >= y
  OBVIOUS
<1>2. Max(s) \in s /\ \A y \in s : Max(s) >= y
  BY <1>1 DEF Max
<1>3. Max(s) \in Int /\ Max(s) >= n /\ n >= Max(s)
  BY <1>1, <1>2
<1> QED BY <1>3

(* The fold is defined for every set of positions.                         *)
SumsOver(f, seq, n) ==
  f = [s \in SUBSET (1 .. n) |-> IF s = {} THEN 0 ELSE f[s \ {Max(s)}] + seq[Max(s)]]

(* There is such a sum for every sequence: one for a shorter sequence is   *)
(* extended by a position.                                                 *)
LEMMA SumsExist ==
  ASSUME NEW seq \in Seq(Int)
  PROVE  \E f : SumsOver(f, seq, Len(seq))
<1> DEFINE Good(n) == \E f : SumsOver(f, seq, n)
           Bad     == {n \in 0 .. Len(seq) : ~Good(n)}
<1>1. Good(0)
  <2>1. SUBSET (1 .. 0) = {{}}
    OBVIOUS
  <2> DEFINE f == [s \in SUBSET (1 .. 0) |-> 0]
  <2>2. f = [s \in SUBSET (1 .. 0) |-> IF s = {} THEN 0 ELSE f[s \ {Max(s)}] + seq[Max(s)]]
    BY <2>1
  <2> QED BY <2>2 DEF SumsOver
<1>2. ASSUME NEW n \in Nat \ {0}, Good(n - 1)
      PROVE  Good(n)
  <2>1. PICK f : f = [s \in SUBSET (1 .. (n - 1)) |->
                        IF s = {} THEN 0 ELSE f[s \ {Max(s)}] + seq[Max(s)]]
    BY <1>2 DEF SumsOver
  <2> DEFINE Low  == SUBSET (1 .. (n - 1))
             High == SUBSET (1 .. n)
             g    == [s \in High |-> IF n \in s THEN f[s \ {n}] + seq[n] ELSE f[s]]
  <2>2. \A s \in High : n \in s => Max(s) = n
    BY HighestAdded
  <2>3. \A s \in High : s \ {n} \in Low /\ s \ {n} \in High /\ n \notin s \ {n}
    BY HighestOf
  <2>4. \A s \in High : n \notin s => s \in Low
    BY HighestOf
  <2>5. \A s \in High : \A x : s \ {x} \in High
    OBVIOUS
  <2> HIDE DEF Low, High
  <2>6. \A s \in High : g[s] = IF s = {} THEN 0 ELSE g[s \ {Max(s)}] + seq[Max(s)]
    <3> TAKE s \in High
    <3>1. CASE n \in s
      <4>1. g[s] = f[s \ {n}] + seq[n] /\ g[s \ {n}] = f[s \ {n}]
        BY <2>3, <3>1
      <4> QED BY <2>2, <3>1, <4>1
    <3>2. CASE n \notin s
      <4>1. g[s] = f[s] /\ \A x : g[s \ {x}] = f[s \ {x}]
        BY <2>5, <3>2
      <4>2. f[s] = IF s = {} THEN 0 ELSE f[s \ {Max(s)}] + seq[Max(s)]
        BY <2>1, <2>4, <3>2 DEF Low
      <4> QED BY <4>1, <4>2
    <3> QED BY <3>1, <3>2
  <2>7. g = [s \in High |-> IF s = {} THEN 0 ELSE g[s \ {Max(s)}] + seq[Max(s)]]
    <3>1. g = [s \in High |-> g[s]]
      OBVIOUS
    <3> HIDE DEF g
    <3> QED BY <2>6, <3>1
  <2> QED BY <2>7 DEF SumsOver, High
<1>3. Bad = {}
  <2> SUFFICES ASSUME Bad # {} PROVE FALSE
    OBVIOUS
  <2>1. PICK n \in Bad : \A k \in Bad : n <= k
    <3>1. Bad \in SUBSET Nat
      OBVIOUS
    <3> HIDE DEF Bad
    <3> QED BY <3>1, LowestExists
  <2>2. n \in 0 .. Len(seq) /\ ~Good(n) /\ Len(seq) \in Nat
    BY <2>1
  <2> HIDE DEF Good
  <2>3. n \in Nat \ {0} /\ n - 1 \in 0 .. Len(seq) /\ ~(n <= n - 1)
    BY <1>1, <2>2
  <2>4. Good(n - 1)
    BY <2>1, <2>3
  <2> QED BY <1>2, <2>2, <2>3, <2>4
<1>4. Len(seq) \in 0 .. Len(seq)
  OBVIOUS
<1> QED BY <1>3, <1>4

(* Hence a sum is the sum of all but the last, and the last.               *)
LEMMA TotalIs ==
  ASSUME NEW seq \in Seq(Int)
  PROVE  \E g : /\ Total(seq) = g[Len(seq)] /\ g[0] = 0
                /\ \A n \in 1 .. Len(seq) : g[n] = g[n - 1] + seq[n]
<1> DEFINE L == Len(seq)
<1>0. DOMAIN seq = 1 .. L /\ L \in Nat
  OBVIOUS
<1>1. \E f : SumsOver(f, seq, L)
  BY SumsExist
<1> HIDE DEF L
<1>2. \E f : SumsOver(f, seq, L) /\ Total(seq) = f[1 .. L]
  BY <1>0, <1>1 DEF SumsOver, Total, FoldLeft, MapThenFoldSet
<1>3. PICK f : SumsOver(f, seq, L) /\ Total(seq) = f[1 .. L]
  BY <1>2
<1> DEFINE g == [n \in 0 .. L |-> f[1 .. n]]
<1>4. \A s \in SUBSET (1 .. L) : f[s] = IF s = {} THEN 0 ELSE f[s \ {Max(s)}] + seq[Max(s)]
  BY <1>3 DEF SumsOver
<1>5. g[0] = 0
  <2>1. 1 .. 0 = {} /\ 0 \in 0 .. L
    BY <1>0
  <2>2. f[{}] = 0
    BY <1>4
  <2> QED BY <2>1, <2>2
<1>6. \A n \in 1 .. L : g[n] = g[n - 1] + seq[n]
  <2> TAKE n \in 1 .. L
  <2>1. n \in Nat \ {0} /\ 1 .. n \in SUBSET (1 .. L) /\ 1 .. n # {} /\ n \in 0 .. L /\ n - 1 \in 0 .. L
    <3>1. n \in Nat /\ 1 <= n /\ n <= L
      BY <1>0
    <3>2. n \in Nat \ {0} /\ n \in 0 .. L /\ n - 1 \in 0 .. L /\ n \in 1 .. n
      BY <1>0, <3>1
    <3>3. \A k \in 1 .. n : k \in 1 .. L
      BY <1>0, <3>1
    <3> QED BY <3>2, <3>3
  <2>2. Max(1 .. n) = n /\ (1 .. n) \ {n} = 1 .. (n - 1)
    BY <2>1, HighestOf
  <2>3. f[1 .. n] = f[1 .. (n - 1)] + seq[n]
    BY <1>4, <2>1, <2>2
  <2> QED BY <2>1, <2>3
<1>7. L \in 0 .. L
  BY <1>0
<1>8. Total(seq) = g[L]
  BY <1>3, <1>7
<1> QED BY <1>5, <1>6, <1>8 DEF L

(* The sum of integers is an integer, of naturals a natural.               *)
LEMMA TotalTyped ==
  ASSUME NEW T \in {Int, Nat}, NEW seq \in Seq(T)
  PROVE  Total(seq) \in T
<1> DEFINE L == Len(seq)
<1>4. seq \in Seq(Int)
  <2>1. Len(seq) \in Nat /\ seq = [i \in 1 .. Len(seq) |-> seq[i]] /\ \A i \in 1 .. Len(seq) : seq[i] \in T
    OBVIOUS
  <2>2. \A x \in T : x \in Int
    OBVIOUS
  <2> QED BY <2>1, <2>2
<1>1. PICK g : /\ Total(seq) = g[L] /\ g[0] = 0
               /\ \A n \in 1 .. L : g[n] = g[n - 1] + seq[n]
  BY <1>4, TotalIs
<1>0. L \in Nat /\ \A n \in 1 .. L : seq[n] \in T
  OBVIOUS
<1> HIDE DEF L
<1> DEFINE Bad == {n \in 0 .. L : g[n] \notin T}
<1>2. Bad = {}
  <2> SUFFICES ASSUME Bad # {} PROVE FALSE
    OBVIOUS
  <2>1. PICK n \in Bad : \A k \in Bad : n <= k
    <3>1. Bad \in SUBSET Nat
      BY <1>0
    <3> HIDE DEF Bad
    <3> QED BY <3>1, LowestExists
  <2>4. 0 \in T /\ \A x, y \in T : x + y \in T
    OBVIOUS
  <2>2. n \in 1 .. L /\ g[n] \notin T /\ n - 1 \in 0 .. L /\ ~(n <= n - 1)
    BY <1>0, <1>1, <2>1, <2>4
  <2>3. g[n - 1] \in T /\ seq[n] \in T
    BY <1>0, <2>1, <2>2
  <2> QED BY <1>1, <2>2, <2>3, <2>4
<1>3. L \in 0 .. L
  BY <1>0
<1> QED BY <1>1, <1>2, <1>3 DEF L

(* The sum of one number again and again.                                  *)
LEMMA TotalOfSame ==
  ASSUME NEW seq \in Seq(Int), NEW c \in Int, \A i \in 1 .. Len(seq) : seq[i] = c
  PROVE  Total(seq) = c * Len(seq)
<1> DEFINE L == Len(seq)
<1>1. PICK g : /\ Total(seq) = g[L] /\ g[0] = 0
               /\ \A n \in 1 .. L : g[n] = g[n - 1] + seq[n]
  BY TotalIs
<1>0. L \in Nat /\ \A n \in 1 .. L : seq[n] = c
  OBVIOUS
<1> HIDE DEF L
<1> DEFINE Bad == {n \in 0 .. L : g[n] # c * n}
<1>2. Bad = {}
  <2> SUFFICES ASSUME Bad # {} PROVE FALSE
    OBVIOUS
  <2>1. PICK n \in Bad : \A k \in Bad : n <= k
    <3>1. Bad \in SUBSET Nat
      BY <1>0
    <3> HIDE DEF Bad
    <3> QED BY <3>1, LowestExists
  <2>2. n \in 0 .. L /\ g[n] # c * n
    BY <2>1
  <2>3. c * 0 = 0
    OBVIOUS
  <2>4. n \in 1 .. L /\ n - 1 \in 0 .. L /\ ~(n <= n - 1) /\ n \in Int
    BY <1>0, <1>1, <2>2, <2>3
  <2>5. g[n - 1] = c * (n - 1) /\ seq[n] = c
    BY <1>0, <2>1, <2>4
  <2>6. c * (n - 1) + c = c * n
    BY <2>4
  <2> QED BY <1>1, <2>2, <2>4, <2>5, <2>6
<1>3. L \in 0 .. L
  BY <1>0
<1> QED BY <1>1, <1>2, <1>3 DEF L

(* The sum of one number.                                                  *)
LEMMA TotalOfOne ==
  ASSUME NEW n \in Int
  PROVE  Total(<<n>>) = n
<1>1. <<n>> \in Seq(Int) /\ Len(<<n>>) = 1 /\ \A i \in 1 .. 1 : <<n>>[i] = n
  OBVIOUS
<1>2. Total(<<n>>) = n * Len(<<n>>)
  BY <1>1, TotalOfSame
<1> QED BY <1>1, <1>2

(* A constant is its own average.                                          *)
LEMMA AverageOfSame ==
  ASSUME NEW c \in Nat, NEW n \in Nat \ {0}
  PROVE  (c * n) \div n = c
<1> DEFINE q == (c * n) \div n
<1>1. c * n \in Nat /\ q \in Int
  OBVIOUS
<1>2. n * q <= c * n /\ c * n < n * (q + 1)
  BY <1>1
<1> HIDE DEF q
<1>3. ~(q <= c - 1)
  <2> SUFFICES ASSUME q <= c - 1 PROVE FALSE
    OBVIOUS
  <2>1. n * (q + 1) <= n * c
    BY <1>1
  <2> QED BY <1>1, <1>2, <2>1
<1>4. ~(q >= c + 1)
  <2> SUFFICES ASSUME q >= c + 1 PROVE FALSE
    OBVIOUS
  <2>1. n * q >= n * (c + 1)
    BY <1>1
  <2> QED BY <1>1, <1>2, <2>1
<1> QED BY <1>1, <1>3, <1>4 DEF q

-----------------------------------------------------------------------------
(* Sequences *)

(* c is in the sequence s                                                  *)
Has(s, c) == \E k \in DOMAIN s : s[k] = c

(* What is in a concatenation.                                             *)
LEMMA HasJoined ==
  ASSUME NEW A, NEW s \in Seq(A), NEW t \in Seq(A)
  PROVE  s \o t \in Seq(A) /\ \A c : Has(s \o t, c) <=> Has(s, c) \/ Has(t, c)
<1> DEFINE u == s \o t
<1>1. /\ u \in Seq(A) /\ DOMAIN s = 1 .. Len(s) /\ DOMAIN t = 1 .. Len(t)
      /\ DOMAIN u = 1 .. Len(s) + Len(t) /\ Len(s) \in Nat /\ Len(t) \in Nat
  OBVIOUS
<1>2. /\ \A i \in 1 .. Len(s) : u[i] = s[i]
      /\ \A i \in 1 .. Len(t) : u[Len(s) + i] = t[i]
  OBVIOUS
<1> HIDE DEF u
<1>3. ASSUME NEW c, Has(u, c)
      PROVE  Has(s, c) \/ Has(t, c)
  <2>1. PICK k \in 1 .. Len(s) + Len(t) : u[k] = c
    BY <1>1, <1>3 DEF Has
  <2>2. CASE k <= Len(s)
    BY <1>1, <1>2, <2>1, <2>2 DEF Has
  <2>3. CASE Len(s) < k
    <3>1. k - Len(s) \in 1 .. Len(t) /\ Len(s) + (k - Len(s)) = k
      BY <1>1, <2>3
    <3> QED BY <1>1, <1>2, <2>1, <3>1 DEF Has
  <2> QED BY <1>1, <2>2, <2>3
<1>4. ASSUME NEW c, Has(s, c)
      PROVE  Has(u, c)
  <2>1. PICK k \in 1 .. Len(s) : s[k] = c
    BY <1>1, <1>4 DEF Has
  <2>2. k \in DOMAIN u
    BY <1>1
  <2> QED BY <1>2, <2>1, <2>2 DEF Has
<1>5. ASSUME NEW c, Has(t, c)
      PROVE  Has(u, c)
  <2>1. PICK k \in 1 .. Len(t) : t[k] = c
    BY <1>1, <1>5 DEF Has
  <2>2. Len(s) + k \in DOMAIN u
    BY <1>1
  <2> QED BY <1>2, <2>1, <2>2 DEF Has
<1> QED BY <1>1, <1>3, <1>4, <1>5 DEF u

(* Flattening loses nothing.                                               *)
LEMMA HasFlattened ==
  ASSUME NEW A, NEW seqs \in Seq(Seq(A))
  PROVE  /\ FlattenSeq(seqs) \in Seq(A)
         /\ \A k \in DOMAIN seqs : \A c : Has(seqs[k], c) => Has(FlattenSeq(seqs), c)
<1> DEFINE L == Len(seqs)
<1>0. L \in Nat /\ DOMAIN seqs = 1 .. L /\ \A n \in 1 .. L : seqs[n] \in Seq(A)
  OBVIOUS
<1>1. CASE L = 0
  <2>1. FlattenSeq(seqs) = seqs /\ seqs = <<>>
    BY <1>1 DEF FlattenSeq
  <2> QED BY <1>0, <1>1, <2>1
<1>2. CASE L # 0
  <2> DEFINE Flat(f, n) == f = [i \in 1 .. n |-> IF i = 1 THEN seqs[i] ELSE f[i - 1] \o seqs[i]]
             Carries(f, n) == /\ Flat(f, n) /\ f[n] \in Seq(A)
                           /\ \A k \in 1 .. n : \A c : Has(seqs[k], c) => Has(f[n], c)
             Good(n)    == \E f : Carries(f, n)
             Bad        == {n \in 1 .. L : ~Good(n)}
  <2>1. Good(1)
    <3> DEFINE f == [i \in 1 .. 1 |-> seqs[1]]
    <3>1. f = [i \in 1 .. 1 |-> IF i = 1 THEN seqs[i] ELSE f[i - 1] \o seqs[i]]
      OBVIOUS
    <3>2. f[1] = seqs[1] /\ 1 \in 1 .. L /\ \A k \in 1 .. 1 : k = 1
      BY <1>0, <1>2
    <3> QED BY <1>0, <3>1, <3>2
  <2>2. ASSUME NEW n \in 2 .. L, Good(n - 1)
        PROVE  Good(n)
    <3>1. PICK f : Carries(f, n - 1)
      BY <2>2
    <3> DEFINE g == [i \in 1 .. n |-> IF i = n THEN f[n - 1] \o seqs[n] ELSE f[i]]
    <3>0. n \in Nat /\ n # 1 /\ n \in 1 .. L /\ n \in 1 .. n /\ n - 1 \in 1 .. (n - 1) /\ n - 1 # n
      BY <1>0
    <3>2. \A i \in 1 .. n : i = n \/ i \in 1 .. (n - 1)
      BY <3>0
    <3>3. \A i \in 1 .. n : i # 1 => i - 1 \in 1 .. n /\ i - 1 # n
      BY <3>0
    <3>4. \A i \in 1 .. (n - 1) : f[i] = IF i = 1 THEN seqs[i] ELSE f[i - 1] \o seqs[i]
      BY <3>1
    <3>5. \A i \in 1 .. n : g[i] = IF i = 1 THEN seqs[i] ELSE g[i - 1] \o seqs[i]
      <4> TAKE i \in 1 .. n
      <4>1. i # 1 => g[i - 1] = f[i - 1]
        BY <3>3
      <4>2. CASE i = n
        BY <3>0, <4>1, <4>2
      <4>3. CASE i # n
        BY <3>2, <3>4, <4>1, <4>3
      <4> QED BY <4>2, <4>3
    <3>6. Flat(g, n)
      <4>1. g = [i \in 1 .. n |-> g[i]]
        OBVIOUS
      <4> HIDE DEF g
      <4> QED BY <3>5, <4>1
    <3>7. g[n] = f[n - 1] \o seqs[n]
      BY <3>0
    <3>8. f[n - 1] \in Seq(A) /\ seqs[n] \in Seq(A)
      BY <1>0, <3>0, <3>1
    <3>9. g[n] \in Seq(A) /\ \A c : Has(g[n], c) <=> Has(f[n - 1], c) \/ Has(seqs[n], c)
      <4>1. /\ f[n - 1] \o seqs[n] \in Seq(A)
            /\ \A c : Has(f[n - 1] \o seqs[n], c) <=> Has(f[n - 1], c) \/ Has(seqs[n], c)
        BY <3>8, HasJoined
      <4> HIDE DEF g, Has
      <4> QED BY <3>7, <4>1
    <3>10. \A k \in 1 .. n : \A c : Has(seqs[k], c) => Has(g[n], c)
      BY <3>1, <3>2, <3>9
    <3> HIDE DEF g, Flat
    <3> QED BY <3>6, <3>9, <3>10
  <2>3. Bad = {}
    <3> SUFFICES ASSUME Bad # {} PROVE FALSE
      OBVIOUS
    <3>1. PICK n \in Bad : \A k \in Bad : n <= k
      <4> HIDE DEF Good
      <4>1. Bad \in SUBSET Nat
        OBVIOUS
      <4> HIDE DEF Bad
      <4> QED BY <4>1, LowestExists
    <3>2. n \in 1 .. L /\ ~Good(n)
      BY <3>1
    <3> HIDE DEF Good
    <3>3. n \in 2 .. L /\ n - 1 \in 1 .. L /\ ~(n <= n - 1)
      BY <1>0, <2>1, <3>2
    <3>4. Good(n - 1)
      BY <3>1, <3>3
    <3> QED BY <2>2, <3>2, <3>3, <3>4
  <2>4. L \in 1 .. L
    BY <1>0, <1>2
  <2>5. \E f : Carries(f, L)
    BY <2>3, <2>4
  <2> HIDE DEF L
  <2>6. \E f : Flat(f, L)
    BY <2>5
  <2>7. \E f : Flat(f, L) /\ FlattenSeq(seqs) = f[L]
    BY <1>2, <2>6 DEF FlattenSeq, L
  <2>8. PICK f : Flat(f, L) /\ FlattenSeq(seqs) = f[L]
    BY <2>7
  <2>9. PICK g : Carries(g, L)
    BY <2>5
  <2>10. f[L] = g[L]
    <3> DEFINE Differ == {n \in 1 .. L : f[n] # g[n]}
    <3> SUFFICES ASSUME f[L] # g[L] PROVE FALSE
      OBVIOUS
    <3>1. Differ # {} /\ Differ \in SUBSET Nat
      BY <2>4
    <3> HIDE DEF Differ
    <3>2. PICK n \in Differ : \A k \in Differ : n <= k
      BY <3>1, LowestExists
    <3>3. n \in 1 .. L /\ f[n] # g[n]
      BY DEF Differ
    <3>4. /\ f[n] = IF n = 1 THEN seqs[n] ELSE f[n - 1] \o seqs[n]
          /\ g[n] = IF n = 1 THEN seqs[n] ELSE g[n - 1] \o seqs[n]
      BY <2>8, <2>9, <3>3
    <3>5. n # 1 /\ f[n - 1] # g[n - 1]
      BY <3>3, <3>4
    <3>6. n - 1 \in Differ /\ ~(n <= n - 1)
      BY <1>0, <3>3, <3>5 DEF Differ
    <3> QED BY <3>2, <3>6
  <2>11. /\ FlattenSeq(seqs) \in Seq(A)
         /\ \A k \in 1 .. L : \A c : Has(seqs[k], c) => Has(FlattenSeq(seqs), c)
    <3>1. g[L] \in Seq(A) /\ \A k \in 1 .. L : \A c : Has(seqs[k], c) => Has(g[L], c)
      BY <2>9
    <3> HIDE DEF Flat
    <3>2. FlattenSeq(seqs) = g[L]
      BY <2>8, <2>10
    <3> QED BY <3>1, <3>2
  <2> QED BY <1>0, <2>11 DEF L
<1> QED BY <1>1, <1>2

(* What is picked from a sequence are the elements at the positions.       *)
LEMMA HasPicked ==
  ASSUME NEW A, NEW s \in Seq(A), NEW positions
  PROVE  /\ Picked(s, positions) \in Seq(A)
         /\ \A k \in (1 .. Len(s)) \cap positions : Has(Picked(s, positions), s[k])
<1> DEFINE L == Len(s)
           Grown(before, i) == IF i \in positions THEN Append(before, s[i]) ELSE before
           UpTo(f, n) == f = [i \in 0 .. n |-> IF i = 0 THEN <<>> ELSE Grown(f[i - 1], i)]
           Carries(f, n) == /\ UpTo(f, n) /\ f[n] \in Seq(A)
                         /\ \A k \in (1 .. n) \cap positions : Has(f[n], s[k])
           Good(n)    == \E f : Carries(f, n)
           Bad        == {n \in 0 .. L : ~Good(n)}
<1>0. L \in Nat /\ DOMAIN s = 1 .. L /\ \A n \in 1 .. L : s[n] \in A
  OBVIOUS
<1>1. Good(0)
  <2> DEFINE f == [i \in 0 .. 0 |-> <<>>]
  <2>1. f = [i \in 0 .. 0 |-> IF i = 0 THEN <<>> ELSE Grown(f[i - 1], i)]
    OBVIOUS
  <2>2. f[0] \in Seq(A) /\ 1 .. 0 = {}
    OBVIOUS
  <2> QED BY <2>1, <2>2
<1>2. ASSUME NEW before \in Seq(A), NEW n \in 1 .. L
      PROVE  /\ Grown(before, n) \in Seq(A)
             /\ \A c : Has(before, c) => Has(Grown(before, n), c)
             /\ n \in positions => Has(Grown(before, n), s[n])
  <2>1. CASE n \notin positions
    BY <2>1
  <2>2. CASE n \in positions
    <3>1. Grown(before, n) = before \o <<s[n]>> /\ <<s[n]>> \in Seq(A)
      BY <1>0, <2>2
    <3>2. Has(<<s[n]>>, s[n])
      <4>1. 1 \in DOMAIN <<s[n]>> /\ <<s[n]>>[1] = s[n]
        OBVIOUS
      <4> QED BY <4>1 DEF Has
    <3>3. /\ before \o <<s[n]>> \in Seq(A)
          /\ \A c : Has(before \o <<s[n]>>, c) <=> Has(before, c) \/ Has(<<s[n]>>, c)
      BY <3>1, HasJoined
    <3> QED BY <3>1, <3>2, <3>3
  <2> QED BY <2>1, <2>2
<1> HIDE DEF Grown
<1>3. ASSUME NEW n \in 1 .. L, Good(n - 1)
      PROVE  Good(n)
  <2>1. PICK f : Carries(f, n - 1)
    BY <1>3
  <2> DEFINE g == [i \in 0 .. n |-> IF i = n THEN Grown(f[n - 1], n) ELSE f[i]]
  <2>2. n \in Nat /\ n # 0 /\ n \in 0 .. n /\ n - 1 \in 0 .. (n - 1) /\ n - 1 # n
    BY <1>0
  <2>3. \A i \in 0 .. n : i = n \/ i \in 0 .. (n - 1)
    BY <2>2
  <2>4. \A i \in 0 .. n : i # 0 => i - 1 \in 0 .. n /\ i - 1 # n
    BY <2>2
  <2>5. \A i \in 0 .. (n - 1) : f[i] = IF i = 0 THEN <<>> ELSE Grown(f[i - 1], i)
    BY <2>1
  <2>6. \A i \in 0 .. n : g[i] = IF i = 0 THEN <<>> ELSE Grown(g[i - 1], i)
    <3> TAKE i \in 0 .. n
    <3>1. i # 0 => g[i - 1] = f[i - 1]
      BY <2>4
    <3>2. CASE i = n
      BY <2>2, <3>1, <3>2
    <3>3. CASE i # n
      BY <2>3, <2>5, <3>1, <3>3
    <3> QED BY <3>2, <3>3
  <2>7. UpTo(g, n)
    <3>1. g = [i \in 0 .. n |-> g[i]]
      OBVIOUS
    <3> HIDE DEF g
    <3> QED BY <2>6, <3>1
  <2>8. g[n] = Grown(f[n - 1], n)
    BY <2>2
  <2>9. f[n - 1] \in Seq(A) /\ \A k \in (1 .. n - 1) \cap positions : Has(f[n - 1], s[k])
    BY <2>1
  <2> HIDE DEF g
  <2>10. /\ g[n] \in Seq(A)
         /\ \A c : Has(f[n - 1], c) => Has(g[n], c)
         /\ n \in positions => Has(g[n], s[n])
    BY <1>2, <2>8, <2>9
  <2>11. \A k \in (1 .. n) \cap positions : Has(g[n], s[k])
    <3>1. \A k \in 1 .. n : k = n \/ k \in 1 .. n - 1
      BY <2>2
    <3> QED BY <2>9, <2>10, <3>1
  <2> HIDE DEF UpTo
  <2> QED BY <2>7, <2>10, <2>11
<1>4. Bad = {}
  <2> SUFFICES ASSUME Bad # {} PROVE FALSE
    OBVIOUS
  <2> HIDE DEF Good
  <2>1. PICK n \in Bad : \A k \in Bad : n <= k
    <3>1. Bad \in SUBSET Nat
      OBVIOUS
    <3> HIDE DEF Bad
    <3> QED BY <3>1, LowestExists
  <2>2. n \in 0 .. L /\ ~Good(n)
    BY <2>1
  <2>3. n \in 1 .. L /\ n - 1 \in 0 .. L /\ ~(n <= n - 1)
    BY <1>0, <1>1, <2>2
  <2>4. Good(n - 1)
    BY <2>1, <2>3
  <2> QED BY <1>3, <2>2, <2>3, <2>4
<1>5. \E f : Carries(f, L)
  <2>1. L \in 0 .. L
    BY <1>0
  <2> QED BY <1>4, <2>1
<1> HIDE DEF L
<1>6. \E f : UpTo(f, L)
  BY <1>5
<1>7. \E f : UpTo(f, L) /\ Picked(s, positions) = f[L]
  <2>1. \E f : f = [i \in 0 .. L |->
                      IF i = 0 THEN <<>>
                      ELSE IF i \in positions THEN Append(f[i - 1], s[i]) ELSE f[i - 1]]
    BY <1>6 DEF Grown
  <2>2. \E f : /\ f = [i \in 0 .. L |->
                      IF i = 0 THEN <<>>
                      ELSE IF i \in positions THEN Append(f[i - 1], s[i]) ELSE f[i - 1]]
               /\ Picked(s, positions) = f[L]
    BY <2>1 DEF Picked, L
  <2> QED BY <2>2 DEF Grown
<1>8. PICK f : UpTo(f, L) /\ Picked(s, positions) = f[L]
  BY <1>7
<1>9. PICK g : Carries(g, L)
  BY <1>5
<1>10. f[L] = g[L]
  <2> DEFINE Differ == {n \in 0 .. L : f[n] # g[n]}
  <2> SUFFICES ASSUME f[L] # g[L] PROVE FALSE
    OBVIOUS
  <2>1. Differ # {} /\ Differ \in SUBSET Nat
    BY <1>0
  <2> HIDE DEF Differ
  <2>2. PICK n \in Differ : \A k \in Differ : n <= k
    BY <2>1, LowestExists
  <2>3. n \in 0 .. L /\ f[n] # g[n]
    BY DEF Differ
  <2>4. /\ f[n] = IF n = 0 THEN <<>> ELSE Grown(f[n - 1], n)
        /\ g[n] = IF n = 0 THEN <<>> ELSE Grown(g[n - 1], n)
    BY <1>8, <1>9, <2>3
  <2>5. n # 0 /\ f[n - 1] # g[n - 1]
    BY <2>3, <2>4
  <2>6. n - 1 \in Differ /\ ~(n <= n - 1)
    BY <1>0, <2>3, <2>5 DEF Differ
  <2> QED BY <2>2, <2>6
<1> QED BY <1>8, <1>9, <1>10 DEF L

-----------------------------------------------------------------------------
(* Scores *)

(* Capitals and letters of a message are counted in natural numbers.       *)
LEMMA SumsTyped ==
  ASSUME NEW words \in Seq(Word)
  PROVE  /\ Lengths(words) \in Seq(Nat) /\ Len(Lengths(words)) = Len(words)
         /\ Capitals(words) \in Nat /\ Letters(words) \in Nat
<1>1. \A i \in 1 .. Len(words) : words[i].up \in Nat /\ words[i].low \in Nat
  <2> TAKE i \in 1 .. Len(words)
  <2>1. words[i] \in Word
    OBVIOUS
  <2> QED BY <2>1 DEF Word
<1>2. Len(words) \in Nat /\ DOMAIN words = 1 .. Len(words)
  OBVIOUS
<1>3. Lengths(words) \in Seq(Nat) /\ Len(Lengths(words)) = Len(words)
  BY <1>1, <1>2 DEF Lengths, Size
<1>4. [i \in DOMAIN words |-> words[i].up] \in Seq(Nat)
  BY <1>1, <1>2
<1> QED BY <1>3, <1>4, TotalTyped DEF Capitals, Letters

(* The enumerations of clues that accept.py takes.                         *)
Enum == [parts : Seq(Nat) \ {<<>>}, hyphen : BOOLEAN]

(* enum_fit is a number for every list of lengths, shorter and longer      *)
(* ones than the enumeration included.                                     *)
LEMMA EnumFitTyped ==
  ASSUME NEW lengths \in Seq(Int), NEW e \in Enum
  PROVE  EnumFit(lengths, e) \in Int
<1> DEFINE parts == Parts(e)
           part(i) == DeltaScore(Abs((IF i <= Len(lengths) THEN lengths[i] ELSE 0) - parts[i]))
<1>1. parts \in Seq(Nat) /\ Len(parts) \in Nat /\ (parts # <<>> => Len(parts) # 0)
  BY DEF Enum, Parts
<1>2. \A n \in Int : DeltaScore(n) \in Int
  BY DEF DeltaScore
<1>3. CASE parts = <<>>
  BY <1>3 DEF EnumFit
<1>4. CASE parts # <<>> /\ (Len(parts) = 1 \/ Len(lengths) = 1)
  <2>1. Total(lengths) \in Int /\ Total(parts) \in Int
    <3>1. parts \in Seq(Int)
      BY <1>1
    <3> QED BY <3>1, TotalTyped
  <2>2. Abs(Total(lengths) - Total(parts)) \in Int
    BY <2>1 DEF Abs
  <2>3. EnumFit(lengths, e) = DeltaScore(Abs(Total(lengths) - Total(parts)))
    BY <1>4 DEF EnumFit
  <2> QED BY <1>2, <2>2, <2>3
<1>5. CASE parts # <<>> /\ Len(parts) # 1 /\ Len(lengths) # 1
  <2> DEFINE scores == [i \in DOMAIN parts |-> part(i)]
  <2>1. EnumFit(lengths, e) = Total(scores) \div Len(parts)
    BY <1>5 DEF EnumFit
  <2>2. \A i \in DOMAIN parts : part(i) \in Int
    <3> TAKE i \in DOMAIN parts
    <3>1. i \in Nat \ {0} /\ parts[i] \in Int /\ Len(lengths) \in Nat
      BY <1>1
    <3>2. (IF i <= Len(lengths) THEN lengths[i] ELSE 0) \in Int
      BY <3>1
    <3>3. Abs((IF i <= Len(lengths) THEN lengths[i] ELSE 0) - parts[i]) \in Int
      BY <3>1, <3>2 DEF Abs
    <3> QED BY <1>2, <3>3
  <2> HIDE DEF part, parts
  <2>3. scores \in Seq(Int)
    <3>1. DOMAIN parts = 1 .. Len(parts) /\ Len(parts) \in Nat
      BY <1>1
    <3>2. \A i \in 1 .. Len(parts) : part(i) \in Int
      BY <2>2, <3>1
    <3>3. [i \in 1 .. Len(parts) |-> part(i)] \in Seq(Int)
      BY <3>1, <3>2
    <3> QED BY <3>1, <3>3
  <2> HIDE DEF scores
  <2>4. Total(scores) \in Int
    BY <2>3, TotalTyped
  <2> QED BY <1>1, <1>5, <2>1, <2>4
<1> QED BY <1>3, <1>4, <1>5

(* Words as long as the parts fit exactly.                                 *)
LEMMA ExactFit ==
  ASSUME NEW e \in Enum, Parts(e) # <<>>
  PROVE  /\ EnumFit(Parts(e), e) = Exact
         /\ \A n \in Int : n = Total(Parts(e)) => EnumFit(<<n>>, e) = Exact
<1> DEFINE parts == Parts(e)
<1>1. parts \in Seq(Nat) /\ parts \in Seq(Int) /\ Len(parts) \in Nat \ {0} /\ Total(parts) \in Int
  <2>1. parts \in Seq(Nat) /\ parts # <<>>
    BY DEF Enum, Parts
  <2> HIDE DEF parts
  <2>2. parts \in Seq(Int) /\ Len(parts) \in Nat \ {0}
    BY <2>1
  <2> QED BY <2>1, <2>2, TotalTyped
<1>2. DeltaScore(Abs(0)) = 120
  BY DEF DeltaScore, Abs
<1>3. EnumFit(parts, e) = Exact
  <2>1. CASE Len(parts) = 1
    <3>1. EnumFit(parts, e) = DeltaScore(Abs(Total(parts) - Total(parts)))
      BY <2>1 DEF EnumFit
    <3> HIDE DEF parts
    <3>2. Total(parts) - Total(parts) = 0
      BY <1>1
    <3> QED BY <1>2, <3>1, <3>2 DEF Exact
  <2>2. CASE Len(parts) # 1
    <3> DEFINE part(i) == DeltaScore(Abs((IF i <= Len(parts) THEN parts[i] ELSE 0) - parts[i]))
               scores  == [i \in DOMAIN parts |-> part(i)]
    <3>1. EnumFit(parts, e) = Total(scores) \div Len(parts)
      BY <2>2 DEF EnumFit
    <3> HIDE DEF parts
    <3>2. \A i \in DOMAIN parts : part(i) = 120
      <4> TAKE i \in DOMAIN parts
      <4>1. i <= Len(parts) /\ parts[i] - parts[i] = 0
        BY <1>1
      <4> QED BY <1>2, <4>1
    <3> HIDE DEF part
    <3>3. scores \in Seq(Int) /\ Len(scores) = Len(parts) /\ \A i \in 1 .. Len(scores) : scores[i] = 120
      BY <1>1, <3>2
    <3> HIDE DEF scores
    <3>4. Total(scores) = 120 * Len(parts)
      <4>1. 120 \in Int
        OBVIOUS
      <4>2. Total(scores) = 120 * Len(scores)
        BY <3>3, <4>1, TotalOfSame, Zenon
      <4> QED BY <3>3, <4>2
    <3>5. (120 * Len(parts)) \div Len(parts) = 120
      BY <1>1, AverageOfSame
    <3> QED BY <3>1, <3>4, <3>5 DEF Exact
  <2> QED BY <2>1, <2>2
<1>4. ASSUME NEW n \in Int, n = Total(parts)
      PROVE  EnumFit(<<n>>, e) = Exact
  <2>1. Total(<<n>>) = n /\ Len(<<n>>) = 1
    BY TotalOfOne
  <2>2. EnumFit(<<n>>, e) = DeltaScore(Abs(Total(<<n>>) - Total(parts)))
    BY <2>1 DEF EnumFit
  <2> HIDE DEF parts
  <2>3. Total(<<n>>) - Total(parts) = 0
    BY <1>1, <1>4, <2>1
  <2> QED BY <1>2, <2>2, <2>3 DEF Exact
<1> QED BY <1>3, <1>4

-----------------------------------------------------------------------------
(* _dedupe *)

(* A candidate as a tier makes it.                                         *)
Candidate == [solution : Seq(Word), solver : User, confidence : Int, source : Int]

(* One candidate per answer stays, and none is lost but to one for the     *)
(* same answer with at least its confidence.                               *)
LEMMA DedupeKeepsBest ==
  ASSUME NEW found \in Seq(Candidate)
  PROVE  /\ \A c, d \in Dedupe(found) : SameAnswer(c, d) => c = d
         /\ \A c : Has(found, c) =>
              \E d \in Dedupe(found) : SameAnswer(d, c) /\ d.confidence >= c.confidence
<1> DEFINE L == Len(found)
           conf(k) == found[k].confidence
           beats(j, k) == /\ SameAnswer(found[j], found[k])
                          /\ conf(j) > conf(k) \/ (conf(j) = conf(k) /\ j < k)
           Kept == {i \in DOMAIN found : \A j \in DOMAIN found : ~beats(j, i)}
<1>0. L \in Nat /\ DOMAIN found = 1 .. L
  OBVIOUS
<1>1. \A k \in 1 .. L : conf(k) \in Int
  <2> TAKE k \in 1 .. L
  <2>1. found[k] \in Candidate
    OBVIOUS
  <2> QED BY <2>1 DEF Candidate
<1>2. Dedupe(found) = {found[k] : k \in Kept}
  BY DEF Dedupe
<1> HIDE DEF L, conf
<1>3. ASSUME NEW j \in Kept, NEW k \in Kept, SameAnswer(found[j], found[k])
      PROVE  j = k
  <2>1. j \in 1 .. L /\ k \in 1 .. L /\ ~beats(j, k) /\ ~beats(k, j)
    BY <1>0
  <2>2. SameAnswer(found[k], found[j])
    BY <1>3 DEF SameAnswer
  <2>3. conf(j) \in Int /\ conf(k) \in Int
    BY <1>1, <2>1
  <2> QED BY <1>3, <2>1, <2>2, <2>3
<1>4. \A c, d \in Dedupe(found) : SameAnswer(c, d) => c = d
  <2> HIDE DEF Kept
  <2> QED BY <1>2, <1>3
<1>5. ASSUME NEW c, Has(found, c)
      PROVE  \E d \in Dedupe(found) : SameAnswer(d, c) /\ d.confidence >= c.confidence
  <2> DEFINE Same(k)    == SameAnswer(found[k], c)
             Best(k, n) == /\ k \in 1 .. n /\ Same(k)
                           /\ \A j \in 1 .. n : Same(j) =>
                                conf(j) < conf(k) \/ (conf(j) = conf(k) /\ k <= j)
             Good(n)    == (\E j \in 1 .. n : Same(j)) => \E k : Best(k, n)
             Bad        == {n \in 0 .. L : ~Good(n)}
  <2>1. Good(0)
    OBVIOUS
  <2> HIDE DEF Same
  <2>2. ASSUME NEW n \in 1 .. L, Good(n - 1)
        PROVE  Good(n)
    <3>0. n \in Nat /\ n \in 1 .. n /\ (\A j \in 1 .. n : j = n \/ j \in 1 .. (n - 1))
                    /\ (\A j \in 1 .. (n - 1) : j \in 1 .. n /\ j \in 1 .. L /\ j < n)
      BY <1>0
    <3>1. CASE ~Same(n)
      <4>1. ASSUME NEW j \in 1 .. n, Same(j)
            PROVE  \E k : Best(k, n)
        <5>1. j \in 1 .. (n - 1)
          BY <3>0, <3>1, <4>1
        <5>2. PICK k : Best(k, n - 1)
          BY <2>2, <4>1, <5>1
        <5>3. Best(k, n)
          BY <3>0, <3>1, <5>2
        <5> QED BY <5>3
      <4> QED BY <4>1
    <3>2. CASE Same(n) /\ ~(\E j \in 1 .. (n - 1) : Same(j))
      <4>1. Best(n, n)
        BY <3>0, <3>2
      <4> QED BY <4>1
    <3>3. CASE Same(n) /\ \E j \in 1 .. (n - 1) : Same(j)
      <4>1. PICK k : Best(k, n - 1)
        BY <2>2, <3>3
      <4>2. conf(k) \in Int /\ conf(n) \in Int /\ k \in 1 .. (n - 1) /\ k < n /\ k \in 1 .. n
        BY <1>1, <3>0, <4>1
      <4>3. CASE conf(n) <= conf(k)
        <5>1. Best(k, n)
          BY <3>0, <4>1, <4>2, <4>3
        <5> QED BY <5>1
      <4>4. CASE conf(k) < conf(n)
        <5>1. ASSUME NEW j \in 1 .. n, Same(j)
              PROVE  conf(j) < conf(n) \/ (conf(j) = conf(n) /\ n <= j)
          <6>1. CASE j = n
            BY <3>0, <6>1
          <6>2. CASE j # n
            <7>1. j \in 1 .. (n - 1) /\ conf(j) \in Int
              BY <1>1, <3>0, <6>2
            <7>2. conf(j) < conf(k) \/ conf(j) = conf(k)
              BY <4>1, <5>1, <7>1
            <7> QED BY <4>2, <4>4, <7>1, <7>2
          <6> QED BY <6>1, <6>2
        <5>2. Best(n, n)
          BY <3>0, <3>3, <5>1
        <5> QED BY <5>2
      <4> QED BY <4>2, <4>3, <4>4
    <3> QED BY <3>1, <3>2, <3>3
  <2>3. Bad = {}
    <3> SUFFICES ASSUME Bad # {} PROVE FALSE
      OBVIOUS
    <3> HIDE DEF Good
    <3>1. PICK n \in Bad : \A k \in Bad : n <= k
      <4>1. Bad \in SUBSET Nat
        BY <1>0
      <4> HIDE DEF Bad
      <4> QED BY <4>1, LowestExists
    <3>2. n \in 0 .. L /\ ~Good(n)
      BY <3>1
    <3>3. n \in 1 .. L /\ n - 1 \in 0 .. L /\ ~(n <= n - 1)
      BY <1>0, <2>1, <3>2
    <3>4. Good(n - 1)
      BY <3>1, <3>3
    <3> QED BY <2>2, <3>2, <3>3, <3>4
  <2>4. PICK m \in 1 .. L : found[m] = c
    BY <1>0, <1>5 DEF Has
  <2>5. Same(m)
    BY <2>4 DEF Same, SameAnswer
  <2>6. L \in 0 .. L
    BY <1>0
  <2>7. PICK k : Best(k, L)
    BY <2>3, <2>4, <2>5, <2>6
  <2>8. k \in Kept
    <3>1. k \in DOMAIN found /\ conf(k) \in Int
      BY <1>0, <1>1, <2>7
    <3>2. ASSUME NEW j \in DOMAIN found, beats(j, k)
          PROVE  FALSE
      <4>1. Same(j)
        BY <2>7, <3>2 DEF Same, SameAnswer
      <4>2. conf(j) \in Int /\ j \in 1 .. L
        BY <1>0, <1>1
      <4>3. conf(j) < conf(k) \/ (conf(j) = conf(k) /\ k <= j)
        BY <2>7, <4>1, <4>2
      <4>4. conf(j) > conf(k) \/ (conf(j) = conf(k) /\ j < k)
        BY <3>2
      <4>5. k \in 1 .. L
        BY <2>7
      <4> QED BY <1>0, <3>1, <4>2, <4>3, <4>4, <4>5
    <3> QED BY <3>1, <3>2
  <2> HIDE DEF Kept
  <2>9. found[k] \in Dedupe(found) /\ SameAnswer(found[k], c)
    BY <1>2, <2>7, <2>8 DEF Same
  <2>10. conf(m) \in Int /\ conf(k) \in Int /\ (conf(m) < conf(k) \/ conf(m) = conf(k))
    BY <1>1, <2>4, <2>5, <2>7
  <2>11. found[k].confidence >= c.confidence
    BY <2>4, <2>10 DEF conf
  <2> QED BY <2>9, <2>11
<1> QED BY <1>4, <1>5

-----------------------------------------------------------------------------
(* The tiers *)

(* A message as the window holds it.                                       *)
WindowMessage == [words : Seq(Word), confirms : {"no", "in", "whole"}, digest : Nat,
            user : User, parent : Int \cup {None}]

DetectTyped == /\ window \in Seq(WindowMessage)
               /\ enumeration \in Enumeration
               /\ solver \in User \cup {None}
               /\ phase \in {"open", "closed", "processed"}

(* A message of the window, and the answer in it.                          *)
LEMMA MessageTyped ==
  ASSUME DetectTyped, NEW i \in DOMAIN window
  PROVE  /\ window[i] \in WindowMessage /\ window[i].words \in Seq(Word) /\ i \in Int
         /\ ExtractAnswer(window[i]) \in Seq(Word)
         /\ enumeration \in Enum
<1>1. window[i] \in WindowMessage /\ i \in Int
  BY DEF DetectTyped
<1>2. window[i].words \in Seq(Word)
  BY <1>1 DEF WindowMessage
<1>3. enumeration \in Enum
  BY DetectAssumption DEF DetectTyped, Enum
<1> QED BY <1>1, <1>2, <1>3 DEF ExtractAnswer

(* What a tier makes of a message is a candidate.                          *)
LEMMA FoundTyped ==
  ASSUME DetectTyped, NEW i \in DOMAIN window, NEW s \in Seq(Word), NEW c \in Int
  PROVE  Found(i, s, c) \in Candidate
<1>1. window[i].user \in User /\ i \in Int
  BY MessageTyped DEF WindowMessage
<1> QED BY <1>1 DEF Found, Candidate

(* A list of one candidate, or of none.                                    *)
LEMMA WhenHas ==
  ASSUME NEW A, NEW p, NEW c, c \in A
  PROVE  When(p, c) \in Seq(A) /\ (p => Has(When(p, c), c))
<1>1. CASE p
  <2>1. When(p, c) = <<c>>
    BY <1>1 DEF When
  <2>2. <<c>> \in Seq(A) /\ 1 \in DOMAIN <<c>> /\ <<c>>[1] = c
    OBVIOUS
  <2> QED BY <2>1, <2>2 DEF Has
<1>2. CASE ~p
  BY <1>2 DEF When
<1> QED BY <1>1, <1>2

(* The words in capitals are words.                                        *)
LEMMA CapsWordsTyped ==
  ASSUME NEW words \in Seq(Word)
  PROVE  CapsWords(words) \in Seq(Word)
BY HasPicked DEF CapsWords

(* the four extractions of a message *)
ConcatOf(i)  == Found(i, Spelt(Capitals(window[i].words)), ExtractWeight * ConcatFit(i))
CapsOf(i)    == Found(i, CapsWords(window[i].words), ExtractWeight * CapsFit(i))
LettersOf(i) == Found(i, Spelt(Letters(window[i].words)), ExtractWeight * LettersFit(i))
FullOf(i)    == Found(i, ExtractAnswer(window[i]), FullMessageWeight * FullFit(i))

(* Every extraction whose guard a message passes is in its list.           *)
LEMMA ExtractionsHave ==
  ASSUME DetectTyped, NEW i \in DOMAIN window
  PROVE  /\ Extractions(i) \in Seq(Candidate)
         /\ TakesConcat(i) => Has(Extractions(i), ConcatOf(i))
         /\ TakesCaps(i) => Has(Extractions(i), CapsOf(i))
         /\ TakesLetters(i) => Has(Extractions(i), LettersOf(i))
         /\ TakesFull(i) => Has(Extractions(i), FullOf(i))
<1> DEFINE words == window[i].words
           a == When(TakesConcat(i), ConcatOf(i))
           b == When(TakesCaps(i), CapsOf(i))
           c == When(TakesLetters(i), LettersOf(i))
           d == When(TakesFull(i), FullOf(i))
<1>1. /\ words \in Seq(Word) /\ ExtractAnswer(window[i]) \in Seq(Word) /\ enumeration \in Enum
  BY MessageTyped
<1>2. /\ Lengths(words) \in Seq(Nat) /\ Capitals(words) \in Nat /\ Letters(words) \in Nat
      /\ CapsWords(words) \in Seq(Word) /\ Lengths(CapsWords(words)) \in Seq(Nat)
      /\ Lengths(ExtractAnswer(window[i])) \in Seq(Nat)
  BY <1>1, SumsTyped, CapsWordsTyped
<1>3. \A n \in Nat : Spelt(n) \in Seq(Word) /\ <<n>> \in Seq(Int)
  <2> TAKE n \in Nat
  <2>1. [up |-> n, low |-> 0] \in Word
    BY DEF Word
  <2> QED BY <2>1 DEF Spelt
<1>4. \A s \in Seq(Nat) : s \in Seq(Int)
  OBVIOUS
<1>5. /\ ConcatFit(i) \in Int /\ CapsFit(i) \in Int /\ LettersFit(i) \in Int /\ FullFit(i) \in Int
  <2>1. \A s \in Seq(Int) : EnumFit(s, enumeration) \in Int
    BY <1>1, EnumFitTyped
  <2> QED BY <1>2, <1>3, <1>4, <2>1 DEF ConcatFit, CapsFit, LettersFit, FullFit
<1>6. /\ ExtractWeight * ConcatFit(i) \in Int /\ ExtractWeight * CapsFit(i) \in Int
      /\ ExtractWeight * LettersFit(i) \in Int /\ FullMessageWeight * FullFit(i) \in Int
  BY <1>5 DEF ExtractWeight, FullMessageWeight
<1>7. /\ ConcatOf(i) \in Candidate /\ CapsOf(i) \in Candidate
      /\ LettersOf(i) \in Candidate /\ FullOf(i) \in Candidate
  BY <1>1, <1>2, <1>3, <1>6, FoundTyped DEF ConcatOf, CapsOf, LettersOf, FullOf
<1>8. /\ a \in Seq(Candidate) /\ (TakesConcat(i) => Has(a, ConcatOf(i)))
      /\ b \in Seq(Candidate) /\ (TakesCaps(i) => Has(b, CapsOf(i)))
      /\ c \in Seq(Candidate) /\ (TakesLetters(i) => Has(c, LettersOf(i)))
      /\ d \in Seq(Candidate) /\ (TakesFull(i) => Has(d, FullOf(i)))
  BY <1>7, WhenHas
<1>9. Extractions(i) = ((a \o b) \o c) \o d
  BY DEF Extractions, ConcatOf, CapsOf, LettersOf, FullOf
<1> HIDE DEF a, b, c, d
<1> DEFINE ab  == a \o b
           abc == ab \o c
<1>10. /\ ab \in Seq(Candidate)
       /\ \A x : Has(ab, x) <=> Has(a, x) \/ Has(b, x)
  BY <1>8, HasJoined
<1> HIDE DEF ab
<1>11. /\ abc \in Seq(Candidate)
       /\ \A x : Has(abc, x) <=> Has(ab, x) \/ Has(c, x)
  BY <1>8, <1>10, HasJoined
<1> HIDE DEF abc
<1>12. /\ abc \o d \in Seq(Candidate)
       /\ \A x : Has(abc \o d, x) <=> Has(abc, x) \/ Has(d, x)
  BY <1>8, <1>11, HasJoined
<1>13. /\ Extractions(i) \in Seq(Candidate)
       /\ \A x : Has(Extractions(i), x) <=> Has(a, x) \/ Has(b, x) \/ Has(c, x) \/ Has(d, x)
  BY <1>9, <1>10, <1>11, <1>12 DEF ab, abc
<1> QED BY <1>8, <1>13

(* The messages of the solver are searched.                                *)
LEMMA SearchedIs ==
  ASSUME DetectTyped
  PROVE  /\ All \in Seq(DOMAIN window)
         /\ \A i \in DOMAIN window : Has(All, i)
         /\ Searched \in Seq(DOMAIN window)
         /\ \A i \in DOMAIN window : window[i].user = solver => Has(Searched, i)
<1> DEFINE theirs == Picked(All, {i \in DOMAIN window : window[i].user = solver})
<1>1. /\ DOMAIN window = 1 .. Len(window) /\ Len(window) \in Nat
      /\ All \in Seq(DOMAIN window) /\ Len(All) = Len(window)
      /\ \A i \in DOMAIN window : All[i] = i
  <2>1. DOMAIN window = 1 .. Len(window) /\ Len(window) \in Nat
    BY DEF DetectTyped
  <2> QED BY <2>1 DEF All
<1>2. \A i \in DOMAIN window : Has(All, i)
  BY <1>1 DEF Has
<1>3. /\ theirs \in Seq(DOMAIN window)
      /\ \A i \in DOMAIN window : window[i].user = solver => Has(theirs, i)
  <2> DEFINE P == {i \in DOMAIN window : window[i].user = solver}
  <2>1. /\ Picked(All, P) \in Seq(DOMAIN window)
        /\ \A k \in (1 .. Len(All)) \cap P : Has(Picked(All, P), All[k])
    BY <1>1, HasPicked
  <2>2. \A i \in DOMAIN window : window[i].user = solver => i \in (1 .. Len(All)) \cap P
    BY <1>1
  <2> QED BY <1>1, <2>1, <2>2
<1>4. Searched = IF theirs = <<>> THEN All ELSE theirs
  BY DEF Searched
<1> HIDE DEF theirs
<1>5. \A i \in DOMAIN window : window[i].user = solver => Has(Searched, i)
  <2> SUFFICES ASSUME NEW i \in DOMAIN window, window[i].user = solver
               PROVE  Has(Searched, i)
    OBVIOUS
  <2>1. Has(theirs, i)
    BY <1>3
  <2>2. theirs # <<>>
    BY <2>1 DEF Has
  <2> QED BY <1>4, <2>1, <2>2
<1> QED BY <1>1, <1>2, <1>3, <1>4, <1>5

(* what the evidence of tiers 2 to 4 finds *)
LEMMA EvidenceHas ==
  ASSUME DetectTyped, NEW h \in DOMAIN window
  PROVE  /\ Proven(h) \in Seq(Candidate)
         /\ \A i \in DOMAIN window :
              ExtractAnswer(window[i]) # <<>> /\ Verifies(ExtractAnswer(window[i]), window[h].digest)
                => Has(Proven(h), Found(i, ExtractAnswer(window[i]), Sure))
         /\ Confirmed(h) \in Seq(Candidate)
         /\ Confirms(h) => Has(Confirmed(h), Found(window[h].parent,
                                  ExtractAnswer(window[window[h].parent]), AuthorReply))
         /\ Replied(h) \in Seq(Candidate)
         /\ window[h].parent = Clue =>
              Has(Replied(h), Found(h, ExtractAnswer(window[h]), ReplyToClue))
<1>1. \A i \in DOMAIN window : /\ Found(i, ExtractAnswer(window[i]), Sure) \in Candidate
                               /\ Found(i, ExtractAnswer(window[i]), AuthorReply) \in Candidate
                               /\ Found(i, ExtractAnswer(window[i]), ReplyToClue) \in Candidate
  BY MessageTyped, FoundTyped DEF Sure, AuthorReply, ReplyToClue
<1>2. /\ Proven(h) \in Seq(Candidate)
      /\ \A i \in DOMAIN window :
           ExtractAnswer(window[i]) # <<>> /\ Verifies(ExtractAnswer(window[i]), window[h].digest)
             => Has(Proven(h), Found(i, ExtractAnswer(window[i]), Sure))
  <2> DEFINE P == {i \in DOMAIN window : /\ ExtractAnswer(window[i]) # <<>>
                                         /\ Verifies(ExtractAnswer(window[i]), window[h].digest)}
             answers == Picked(All, P)
             Of(i) == Found(i, ExtractAnswer(window[i]), Sure)
  <2>1. Proven(h) = [k \in DOMAIN answers |-> Of(answers[k])]
    BY DEF Proven
  <2>2. All \in Seq(DOMAIN window) /\ Len(All) = Len(window) /\ \A i \in DOMAIN window : All[i] = i
    <3>1. DOMAIN window = 1 .. Len(window) /\ Len(window) \in Nat
      BY DEF DetectTyped
    <3> QED BY <3>1, SearchedIs DEF All
  <2>3. answers \in Seq(DOMAIN window) /\ \A k \in (1 .. Len(All)) \cap P : Has(answers, All[k])
    BY <2>2, HasPicked
  <2>4. \A i \in P : i \in 1 .. Len(All) /\ All[i] = i
    BY <2>2 DEF DetectTyped
  <2>5. \A i \in P : Has(answers, i)
    BY <2>3, <2>4
  <2>6. \A i \in DOMAIN window : Of(i) \in Candidate
    BY <1>1
  <2> HIDE DEF answers, Of
  <2>7. Proven(h) \in Seq(Candidate)
    BY <2>1, <2>3, <2>6
  <2>8. \A i \in P : Has(Proven(h), Of(i))
    <3> TAKE i \in P
    <3>1. PICK k \in DOMAIN answers : answers[k] = i
      BY <2>5 DEF Has
    <3> HIDE DEF P
    <3> QED BY <2>1, <3>1 DEF Has
  <2> QED BY <2>7, <2>8 DEF Of
<1>3. /\ Confirmed(h) \in Seq(Candidate)
      /\ Confirms(h) => Has(Confirmed(h), Found(window[h].parent,
                               ExtractAnswer(window[window[h].parent]), AuthorReply))
  <2> DEFINE c == Found(window[h].parent, ExtractAnswer(window[window[h].parent]), AuthorReply)
  <2>1. Confirmed(h) = When(Confirms(h), c)
    BY DEF Confirmed
  <2>2. CASE Confirms(h)
    <3>1. c \in Candidate
      BY <1>1, <2>2 DEF Confirms
    <3> HIDE DEF c
    <3> QED BY <2>1, <3>1, WhenHas DEF c
  <2>3. CASE ~Confirms(h)
    BY <2>1, <2>3 DEF When
  <2> QED BY <2>2, <2>3
<1>4. /\ Replied(h) \in Seq(Candidate)
      /\ window[h].parent = Clue =>
           Has(Replied(h), Found(h, ExtractAnswer(window[h]), ReplyToClue))
  <2> DEFINE c == Found(h, ExtractAnswer(window[h]), ReplyToClue)
             p == window[h].parent = Clue
  <2>1. c \in Candidate
    BY <1>1
  <2>2. Replied(h) = When(p, c)
    BY DEF Replied
  <2> HIDE DEF c, p
  <2>3. When(p, c) \in Seq(Candidate) /\ (p => Has(When(p, c), c))
    BY <2>1, WhenHas
  <2> QED BY <2>2, <2>3 DEF c, p
<1> QED BY <1>2, <1>3, <1>4

(* A tier that is run over positions finds what it finds at each of them.  *)
LEMMA EachHas ==
  ASSUME NEW D, NEW A, NEW F \in [D -> Seq(A)], NEW positions \in Seq(D),
         NEW seqs, seqs = [k \in 1 .. Len(positions) |-> seqs[k]],
         \A k \in 1 .. Len(positions) : seqs[k] = F[positions[k]]
  PROVE  /\ FlattenSeq(seqs) \in Seq(A)
         /\ \A i \in D : \A c : Has(positions, i) /\ Has(F[i], c) => Has(FlattenSeq(seqs), c)
<1>0. Len(positions) \in Nat /\ DOMAIN positions = 1 .. Len(positions) /\ DOMAIN seqs = 1 .. Len(positions)
  OBVIOUS
<1>1. \A k \in 1 .. Len(positions) : positions[k] \in D /\ seqs[k] \in Seq(A)
  OBVIOUS
<1>2. [k \in 1 .. Len(positions) |-> seqs[k]] \in Seq(Seq(A))
  BY <1>0, <1>1
<1>3. /\ FlattenSeq(seqs) \in Seq(A)
      /\ \A k \in DOMAIN seqs : \A c : Has(seqs[k], c) => Has(FlattenSeq(seqs), c)
  BY <1>2, HasFlattened
<1>4. ASSUME NEW i \in D, NEW c, Has(positions, i), Has(F[i], c)
      PROVE  Has(FlattenSeq(seqs), c)
  <2>1. PICK k \in 1 .. Len(positions) : positions[k] = i
    BY <1>0, <1>4 DEF Has
  <2>2. Has(seqs[k], c)
    BY <1>4, <2>1
  <2> QED BY <1>0, <1>3, <2>1, <2>2
<1> QED BY <1>3, <1>4

(* Nothing that a tier found is lost when the tiers are joined.            *)
LEMMA TiersHave ==
  ASSUME DetectTyped
  PROVE  /\ Tiers \in Seq(Candidate)
         /\ \A i \in DOMAIN window : \A c :
              Has(Searched, i) /\ Has(Extractions(i), c) => Has(Tiers, c)
         /\ \A h \in DOMAIN window : \A c :
              Has(Proven(h), c) \/ Has(Confirmed(h), c) \/ Has(Replied(h), c) => Has(Tiers, c)
<1> DEFINE D == DOMAIN window
           a == Each(Extractions, Searched)
           b == Each(Proven, All)
           c == Each(Confirmed, All)
           d == Each(Replied, All)
<1>1. All \in Seq(D) /\ Searched \in Seq(D) /\ \A i \in D : Has(All, i)
  BY SearchedIs
<1>2. \A i \in D : /\ Extractions(i) \in Seq(Candidate) /\ Proven(i) \in Seq(Candidate)
                   /\ Confirmed(i) \in Seq(Candidate) /\ Replied(i) \in Seq(Candidate)
  BY ExtractionsHave, EvidenceHas
<1>3. /\ a \in Seq(Candidate)
      /\ \A i \in D : \A x : Has(Searched, i) /\ Has(Extractions(i), x) => Has(a, x)
  <2> DEFINE F    == [i \in D |-> Extractions(i)]
             seqs == [k \in DOMAIN Searched |-> Extractions(Searched[k])]
  <2>1. F \in [D -> Seq(Candidate)] /\ \A i \in D : F[i] = Extractions(i)
    BY <1>2
  <2>2. DOMAIN Searched = 1 .. Len(Searched) /\ \A k \in 1 .. Len(Searched) : Searched[k] \in D
    BY <1>1
  <2>3. \A k \in 1 .. Len(Searched) : seqs[k] = F[Searched[k]]
    BY <2>2
  <2>4. seqs = [k \in 1 .. Len(Searched) |-> seqs[k]]
    BY <2>2
  <2>5. a = FlattenSeq(seqs)
    BY DEF Each
  <2> HIDE DEF F, seqs, a, D
  <2>6. /\ FlattenSeq(seqs) \in Seq(Candidate)
        /\ \A i \in D : \A x : Has(Searched, i) /\ Has(F[i], x) => Has(FlattenSeq(seqs), x)
    BY <1>1, <2>1, <2>3, <2>4, EachHas
  <2> QED BY <1>1, <2>1, <2>5, <2>6
<1>4. /\ b \in Seq(Candidate)
      /\ \A i \in D : \A x : Has(Proven(i), x) => Has(b, x)
  <2> DEFINE F    == [i \in D |-> Proven(i)]
             seqs == [k \in DOMAIN All |-> Proven(All[k])]
  <2>1. F \in [D -> Seq(Candidate)] /\ \A i \in D : F[i] = Proven(i)
    BY <1>2
  <2>2. DOMAIN All = 1 .. Len(All) /\ \A k \in 1 .. Len(All) : All[k] \in D
    BY <1>1
  <2>3. \A k \in 1 .. Len(All) : seqs[k] = F[All[k]]
    BY <2>2
  <2>4. seqs = [k \in 1 .. Len(All) |-> seqs[k]]
    BY <2>2
  <2>5. b = FlattenSeq(seqs)
    BY DEF Each
  <2> HIDE DEF F, seqs, b, D
  <2>6. /\ FlattenSeq(seqs) \in Seq(Candidate)
        /\ \A i \in D : \A x : Has(All, i) /\ Has(F[i], x) => Has(FlattenSeq(seqs), x)
    BY <1>1, <2>1, <2>3, <2>4, EachHas
  <2> QED BY <1>1, <2>1, <2>5, <2>6
<1>5. /\ c \in Seq(Candidate)
      /\ \A i \in D : \A x : Has(Confirmed(i), x) => Has(c, x)
  <2> DEFINE F    == [i \in D |-> Confirmed(i)]
             seqs == [k \in DOMAIN All |-> Confirmed(All[k])]
  <2>1. F \in [D -> Seq(Candidate)] /\ \A i \in D : F[i] = Confirmed(i)
    BY <1>2
  <2>2. DOMAIN All = 1 .. Len(All) /\ \A k \in 1 .. Len(All) : All[k] \in D
    BY <1>1
  <2>3. \A k \in 1 .. Len(All) : seqs[k] = F[All[k]]
    BY <2>2
  <2>4. seqs = [k \in 1 .. Len(All) |-> seqs[k]]
    BY <2>2
  <2>5. c = FlattenSeq(seqs)
    BY DEF Each
  <2> HIDE DEF F, seqs, c, D
  <2>6. /\ FlattenSeq(seqs) \in Seq(Candidate)
        /\ \A i \in D : \A x : Has(All, i) /\ Has(F[i], x) => Has(FlattenSeq(seqs), x)
    BY <1>1, <2>1, <2>3, <2>4, EachHas
  <2> QED BY <1>1, <2>1, <2>5, <2>6
<1>6. /\ d \in Seq(Candidate)
      /\ \A i \in D : \A x : Has(Replied(i), x) => Has(d, x)
  <2> DEFINE F    == [i \in D |-> Replied(i)]
             seqs == [k \in DOMAIN All |-> Replied(All[k])]
  <2>1. F \in [D -> Seq(Candidate)] /\ \A i \in D : F[i] = Replied(i)
    BY <1>2
  <2>2. DOMAIN All = 1 .. Len(All) /\ \A k \in 1 .. Len(All) : All[k] \in D
    BY <1>1
  <2>3. \A k \in 1 .. Len(All) : seqs[k] = F[All[k]]
    BY <2>2
  <2>4. seqs = [k \in 1 .. Len(All) |-> seqs[k]]
    BY <2>2
  <2>5. d = FlattenSeq(seqs)
    BY DEF Each
  <2> HIDE DEF F, seqs, d, D
  <2>6. /\ FlattenSeq(seqs) \in Seq(Candidate)
        /\ \A i \in D : \A x : Has(All, i) /\ Has(F[i], x) => Has(FlattenSeq(seqs), x)
    BY <1>1, <2>1, <2>3, <2>4, EachHas
  <2> QED BY <1>1, <2>1, <2>5, <2>6
<1>7. Tiers = ((a \o b) \o c) \o d
  BY DEF Tiers
<1> DEFINE ab  == a \o b
           abc == ab \o c
<1> HIDE DEF a, b, c, d
<1>8. /\ ab \in Seq(Candidate)
      /\ \A x : Has(ab, x) <=> Has(a, x) \/ Has(b, x)
  BY <1>3, <1>4, HasJoined
<1> HIDE DEF ab
<1>9. /\ abc \in Seq(Candidate)
      /\ \A x : Has(abc, x) <=> Has(ab, x) \/ Has(c, x)
  BY <1>5, <1>8, HasJoined
<1> HIDE DEF abc
<1>10. /\ abc \o d \in Seq(Candidate)
       /\ \A x : Has(abc \o d, x) <=> Has(abc, x) \/ Has(d, x)
  BY <1>6, <1>9, HasJoined
<1>11. /\ Tiers \in Seq(Candidate)
       /\ \A x : Has(Tiers, x) <=> Has(a, x) \/ Has(b, x) \/ Has(c, x) \/ Has(d, x)
  BY <1>7, <1>8, <1>9, <1>10 DEF ab, abc
<1> QED BY <1>3, <1>4, <1>5, <1>6, <1>11

-----------------------------------------------------------------------------
(* What the steps keep: a processed window has exactly the candidates and  *)
(* the work that its tiers make of it.                                     *)
Outcome == <<Dedupe(Tiers), {i \in ToSet(Searched) : ~Trusted(i) /\ Wordplay(i)}>>

(* The invariant.                                                          *)
DetectInv ==
  /\ DetectTyped
  /\ phase = "processed" => <<candidates, llmWork>> = Outcome

(* It depends on the window, its clue and the solver alone.                *)
LEMMA OutcomeSame ==
  ASSUME UNCHANGED <<window, enumeration, solver>>
  PROVE  Outcome' = Outcome
<1>1. All' = All /\ Searched' = Searched
  BY DEF All, Searched
<1>2. Tiers' = Tiers
  BY <1>1 DEF Tiers, Each, Extractions, Proven, Confirmed, Replied, Confirms, Found, When,
     TakesConcat, TakesCaps, TakesLetters, TakesFull, ConcatFit, CapsFit, LettersFit, FullFit
<1>3. {i \in ToSet(Searched) : ~Trusted(i) /\ Wordplay(i)}' =
        {i \in ToSet(Searched) : ~Trusted(i) /\ Wordplay(i)}
  BY <1>1 DEF Trusted, Wordplay, ToSet,
     TakesConcat, TakesCaps, TakesLetters, TakesFull, ConcatFit, CapsFit, LettersFit, FullFit
<1> QED BY <1>2, <1>3 DEF Outcome

(* Every action keeps the invariant: messages are posted to an open        *)
(* window only, and only process_window writes candidates.                 *)
LEMMA DetectKeeps ==
  ASSUME DetectInv, [DetectNext]_detectVars
  PROVE  DetectInv'
<1>1. DetectTyped
  BY DEF DetectInv
<1>2. ASSUME NEW content \in Content, NEW user \in User,
             NEW parent \in {None, Clue} \cup DOMAIN window, Post(content, user, parent)
      PROVE  DetectInv'
  <2>1. content \in [words : Seq(Word), confirms : {"no", "in", "whole"}, digest : Nat]
    BY DetectAssumption
  <2>2. parent \in Int \cup {None}
    BY <1>1 DEF DetectTyped, Clue
  <2>3. [words |-> content.words, confirms |-> content.confirms, digest |-> content.digest,
         user |-> user, parent |-> parent] \in WindowMessage
    BY <2>1, <2>2 DEF WindowMessage
  <2>4. /\ window' \in Seq(WindowMessage) /\ enumeration' = enumeration /\ solver' = solver
        /\ phase' = phase /\ phase = "open"
    BY <1>1, <1>2, <2>3 DEF Post, DetectTyped
  <2> QED BY <1>1, <2>4 DEF DetectInv, DetectTyped
<1>3. ASSUME NEW user \in User \cup {None}, Close(user)
      PROVE  DetectInv'
  BY <1>1, <1>3 DEF Close, DetectInv, DetectTyped
<1>4. CASE Process
  <2>1. DetectTyped' /\ UNCHANGED <<window, enumeration, solver>>
    BY <1>1, <1>4 DEF Process, DetectTyped
  <2>2. <<candidates', llmWork'>> = Outcome
    BY <1>4 DEF Process, Outcome
  <2>3. Outcome' = Outcome
    BY <2>1, OutcomeSame
  <2> QED BY <2>1, <2>2, <2>3 DEF DetectInv
<1>5. CASE UNCHANGED detectVars
  <2>1. UNCHANGED <<window, enumeration, solver, phase, candidates, llmWork>>
    BY <1>5 DEF detectVars
  <2>2. Outcome' = Outcome
    BY <2>1, OutcomeSame
  <2> QED BY <2>1, <2>2 DEF DetectInv, DetectTyped
<1> QED BY <1>2, <1>3, <1>4, <1>5 DEF DetectNext

(* A processed window has what its tiers make of it, whatever it holds.    *)
THEOREM DetectSound == DetectSpec => []DetectInv
<1>1. DetectInit => DetectInv
  <2>1. DetectInit => DetectTyped
    <3>1. <<>> \in Seq(WindowMessage)
      OBVIOUS
    <3> QED BY <3>1 DEF DetectInit, DetectTyped
  <2> QED BY <2>1 DEF DetectInit, DetectInv
<1> QED BY <1>1, DetectKeeps, PTL DEF DetectSpec

(* What a tier found is listed, with at least its confidence.              *)
LEMMA FoundListed ==
  ASSUME DetectInv, phase = "processed", NEW i \in DOMAIN window, NEW s, NEW n \in Int, NEW k \in Int,
         k <= n, Has(Tiers, Found(i, s, n))
  PROVE  Listed(i, s, k)
<1> DEFINE c == Found(i, s, n)
<1>1. candidates = Dedupe(Tiers) /\ Tiers \in Seq(Candidate)
  BY TiersHave DEF DetectInv, Outcome
<1>2. c.solution = s /\ c.solver = window[i].user /\ c.confidence = n
  BY DEF Found
<1> HIDE DEF c
<1>3. PICK d \in Dedupe(Tiers) : SameAnswer(d, c) /\ d.confidence >= c.confidence
  BY <1>1, DedupeKeepsBest DEF c
<1>4. d.confidence \in Int
  <2>1. \E m \in DOMAIN Tiers : d = Tiers[m]
    BY DEF Dedupe
  <2>2. \A m \in DOMAIN Tiers : Tiers[m] \in Candidate
    BY <1>1
  <2>3. d \in Candidate
    BY <2>1, <2>2
  <2> QED BY <2>3 DEF Candidate
<1>5. d.confidence >= k
  BY <1>2, <1>3, <1>4
<1> QED BY <1>1, <1>2, <1>3, <1>5 DEF Listed, SameAnswer

(* The evidence of digests, confirmations and replies is never lost to a   *)
(* weaker reading of the same answer: _dedupe keeps the strongest, and     *)
(* each tier finds what it should, in windows of any messages.             *)
THEOREM EvidenceIsKept == DetectSpec => []EvidenceCounts
<1>1. DetectInv => EvidenceCounts
  <2> SUFFICES ASSUME DetectInv, phase = "processed"
               PROVE  /\ \A c, d \in candidates : SameAnswer(c, d) => c = d
                      /\ \A i \in DOMAIN window : ExtractAnswer(window[i]) # <<>> =>
                           /\ (\E h \in DOMAIN window : Verifies(window[i].words, window[h].digest)) =>
                                Listed(i, window[i].words, Sure)
                           /\ (\E h \in DOMAIN window : Confirms(h) /\ window[h].parent = i) =>
                                Listed(i, window[i].words, AuthorReply)
                           /\ window[i].parent = Clue => Listed(i, window[i].words, ReplyToClue)
    BY DEF EvidenceCounts
  <2>1. DetectTyped /\ candidates = Dedupe(Tiers) /\ Tiers \in Seq(Candidate)
    BY TiersHave DEF DetectInv, Outcome
  <2>2. \A c, d \in candidates : SameAnswer(c, d) => c = d
    BY <2>1, DedupeKeepsBest
  <2>3. ASSUME NEW i \in DOMAIN window, ExtractAnswer(window[i]) # <<>>
        PROVE  /\ (\E h \in DOMAIN window : Verifies(window[i].words, window[h].digest)) =>
                    Listed(i, window[i].words, Sure)
               /\ (\E h \in DOMAIN window : Confirms(h) /\ window[h].parent = i) =>
                    Listed(i, window[i].words, AuthorReply)
               /\ window[i].parent = Clue => Listed(i, window[i].words, ReplyToClue)
    <3>1. ExtractAnswer(window[i]) = window[i].words
      BY <2>3 DEF ExtractAnswer
    <3>2. \A h \in DOMAIN window : \A c :
            Has(Proven(h), c) \/ Has(Confirmed(h), c) \/ Has(Replied(h), c) => Has(Tiers, c)
      BY <2>1, TiersHave
    <3>3. Sure \in Int /\ AuthorReply \in Int /\ ReplyToClue \in Int
      BY DEF Sure, AuthorReply, ReplyToClue
    <3>4. ASSUME NEW h \in DOMAIN window, Verifies(window[i].words, window[h].digest)
          PROVE  Listed(i, window[i].words, Sure)
      <4>1. Has(Tiers, Found(i, window[i].words, Sure))
        BY <2>1, <2>3, <3>1, <3>2, <3>4, EvidenceHas
      <4> QED BY <3>3, <4>1, FoundListed
    <3>5. ASSUME NEW h \in DOMAIN window, Confirms(h), window[h].parent = i
          PROVE  Listed(i, window[i].words, AuthorReply)
      <4>1. Has(Tiers, Found(i, window[i].words, AuthorReply))
        BY <2>1, <3>1, <3>2, <3>5, EvidenceHas
      <4> QED BY <3>3, <4>1, FoundListed
    <3>6. ASSUME window[i].parent = Clue
          PROVE  Listed(i, window[i].words, ReplyToClue)
      <4>1. Has(Tiers, Found(i, window[i].words, ReplyToClue))
        BY <2>1, <3>1, <3>2, <3>6, EvidenceHas
      <4> QED BY <3>3, <4>1, FoundListed
    <3> QED BY <3>4, <3>5, <3>6
  <2> QED BY <2>2, <2>3
<1> QED BY <1>1, DetectSound, PTL

(* An extraction from a message of the solver that fits the enumeration    *)
(* exactly is listed: those of the capitals and letters with full          *)
(* confidence, the whole message with 0.6.                                 *)
LEMMA ExactListed ==
  ASSUME DetectInv, phase = "processed", NEW i \in DOMAIN window, window[i].user = solver
  PROVE  /\ TakesConcat(i) /\ ConcatFit(i) = Exact =>
              \A k \in {Sure, ReplyToClue} : Listed(i, Spelt(Capitals(window[i].words)), k)
         /\ TakesCaps(i) /\ CapsFit(i) = Exact =>
              \A k \in {Sure, ReplyToClue} : Listed(i, CapsWords(window[i].words), k)
         /\ TakesLetters(i) /\ LettersFit(i) = Exact =>
              \A k \in {Sure, ReplyToClue} : Listed(i, Spelt(Letters(window[i].words)), k)
         /\ TakesFull(i) /\ FullFit(i) = Exact =>
              Listed(i, ExtractAnswer(window[i]), ReplyToClue)
<1>1. DetectTyped
  BY DEF DetectInv
<1>2. \A c : Has(Extractions(i), c) => Has(Tiers, c)
  <2>1. Has(Searched, i)
    BY <1>1, SearchedIs
  <2> QED BY <1>1, <2>1, TiersHave
<1>3. /\ Sure \in Int /\ ReplyToClue \in Int /\ ReplyToClue <= Sure /\ Sure <= Sure
      /\ ReplyToClue <= ReplyToClue
      /\ ExtractWeight * Exact = Sure /\ FullMessageWeight * Exact = ReplyToClue
  BY DEF Sure, ReplyToClue, ExtractWeight, FullMessageWeight, Exact
<1>4. ASSUME NEW s, Has(Tiers, Found(i, s, Sure)), NEW k \in {Sure, ReplyToClue}
      PROVE  Listed(i, s, k)
  <2>1. k \in Int /\ k <= Sure
    BY <1>3
  <2> QED BY <1>3, <1>4, <2>1, FoundListed
<1>5. ASSUME TakesConcat(i), ConcatFit(i) = Exact
      PROVE  Has(Tiers, Found(i, Spelt(Capitals(window[i].words)), Sure))
  BY <1>1, <1>2, <1>3, <1>5, ExtractionsHave DEF ConcatOf
<1>6. ASSUME TakesCaps(i), CapsFit(i) = Exact
      PROVE  Has(Tiers, Found(i, CapsWords(window[i].words), Sure))
  BY <1>1, <1>2, <1>3, <1>6, ExtractionsHave DEF CapsOf
<1>7. ASSUME TakesLetters(i), LettersFit(i) = Exact
      PROVE  Has(Tiers, Found(i, Spelt(Letters(window[i].words)), Sure))
  BY <1>1, <1>2, <1>3, <1>7, ExtractionsHave DEF LettersOf
<1>8. ASSUME TakesFull(i), FullFit(i) = Exact
      PROVE  Listed(i, ExtractAnswer(window[i]), ReplyToClue)
  <2>1. Has(Tiers, Found(i, ExtractAnswer(window[i]), ReplyToClue))
    BY <1>1, <1>2, <1>3, <1>8, ExtractionsHave DEF FullOf
  <2> QED BY <1>3, <2>1, FoundListed
<1> QED BY <1>4, <1>5, <1>6, <1>7, <1>8

(* Capitals that fit the enumeration are listed with full confidence,      *)
(* whatever else is in the window and whatever the enumeration is.         *)
THEOREM CapitalsAreSure == DetectSpec => []ExactCapitalsAreSure
<1>1. DetectInv => ExactCapitalsAreSure
  <2> SUFFICES ASSUME DetectInv, phase = "processed", NEW i \in DOMAIN window,
                      window[i].user = solver, Capitals(window[i].words) >= 2,
                      Capitals(window[i].words) = Total(enumeration.parts), ~enumeration.hyphen
               PROVE  Listed(i, Spelt(Capitals(window[i].words)), Sure)
    BY DEF ExactCapitalsAreSure
  <2>1. /\ DetectTyped /\ enumeration \in Enum /\ window[i].words \in Seq(Word)
        /\ Capitals(window[i].words) \in Int
    <3>1. DetectTyped
      BY DEF DetectInv
    <3>2. enumeration \in Enum /\ window[i].words \in Seq(Word)
      BY <3>1, MessageTyped
    <3>3. Capitals(window[i].words) \in Nat
      BY <3>2, SumsTyped
    <3> QED BY <3>1, <3>2, <3>3
  <2>2. Parts(enumeration) = enumeration.parts /\ Parts(enumeration) # <<>>
    BY <2>1 DEF Parts, Enum
  <2>3. ConcatFit(i) = Exact
    BY <2>1, <2>2, ExactFit DEF ConcatFit
  <2> QED BY <2>3, ExactListed DEF TakesConcat
<1> QED BY <1>1, DetectSound, PTL

(* Every message of the solver, but a bare confirmation or a long one, is  *)
(* read by the LLM or has a reading listed at 0.6 or more: the guards of   *)
(* the extractions and of _looks_like_wordplay leave no gap.               *)
THEOREM NoMessageOverlooked == DetectSpec => []NothingOverlooked
<1>1. DetectInv => NothingOverlooked
  <2> SUFFICES ASSUME DetectInv, phase = "processed", NEW i \in DOMAIN window,
                      window[i].user = solver, window[i].confirms # "whole",
                      Len(window[i].words) \in 1 .. ShortMessage, i \notin llmWork
               PROVE  \E r \in Readings(i) : Listed(i, r, FullMessageWeight * Exact)
    BY DEF NothingOverlooked
  <2> DEFINE words == window[i].words
  <2>1. DetectTyped /\ llmWork = {j \in ToSet(Searched) : ~Trusted(j) /\ Wordplay(j)}
    BY DEF DetectInv, Outcome
  <2>2. i \in ToSet(Searched)
    <3>1. Has(Searched, i)
      BY <2>1, SearchedIs
    <3> QED BY <3>1 DEF Has, ToSet
  <2>3. Trusted(i) \/ ~Wordplay(i)
    BY <2>1, <2>2
  <2>4. FullMessageWeight * Exact = ReplyToClue
    BY DEF FullMessageWeight, Exact, ReplyToClue
  <2>5. words # <<>> /\ Len(words) <= ShortMessage /\ ExtractAnswer(window[i]) = words
    <3>1. words \in Seq(Word)
      BY <2>1, MessageTyped
    <3> QED BY <3>1, DetectAssumption DEF ExtractAnswer
  <2>6. CASE Trusted(i)
    <3>1. \/ Listed(i, Spelt(Capitals(words)), ReplyToClue)
          \/ Listed(i, CapsWords(words), ReplyToClue)
          \/ Listed(i, Spelt(Letters(words)), ReplyToClue)
      BY <2>6, ExactListed DEF Trusted
    <3> QED BY <2>4, <3>1 DEF Readings
  <2>7. CASE ~Wordplay(i)
    <3>1. Matches(words, enumeration)
      BY <2>5, <2>7 DEF Wordplay
    <3>2. Parts(enumeration) # <<>> /\ Lengths(words) = Parts(enumeration)
      BY <3>1 DEF Matches
    <3>3. FullFit(i) = Exact
      <4>1. enumeration \in Enum
        BY <2>1, MessageTyped
      <4>2. EnumFit(Parts(enumeration), enumeration) = Exact
        BY <3>2, <4>1, ExactFit
      <4> QED BY <2>5, <3>2, <4>2 DEF FullFit
    <3>4. TakesFull(i)
      BY <2>5, <3>3 DEF TakesFull, Exact, Plausible
    <3>5. Listed(i, words, ReplyToClue)
      BY <2>5, <3>3, <3>4, ExactListed
    <3> QED BY <2>4, <3>5 DEF Readings
  <2> QED BY <2>3, <2>6, <2>7
<1> QED BY <1>1, DetectSound, PTL

=============================================================================
