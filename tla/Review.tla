------------------------------- MODULE Review -------------------------------
(***************************************************************************)
(* Editors resolve the candidate solutions of one clue (app/api/review.py) *)
(* while the ingest daemon proposes more.  An approval is two transactions *)
(* on one session: update_clue writes the clue and commits, then the       *)
(* candidate is marked and the others are pruned.  A session writes what   *)
(* it loaded earlier, without a version check: ORM objects are not         *)
(* refreshed, and only the attributes that differ from the loaded ones     *)
(* are written.                                                            *)
(*                                                                         *)
(* A candidate stands for its own solution and solver; a manual solution   *)
(* names no solver.  The explanation goes the way of the solution.         *)
(***************************************************************************)
EXTENDS Integers, FiniteSets

CONSTANTS
  Editor,      \* editors' requests, each handled by a session of its own
  Candidate,   \* clue_candidates of the clue
  Confidence,  \* their confidence, a function
  Proposed,    \* those that are there at the start
  Manual,      \* a solution typed in by an editor
  None         \* SQL NULL

ASSUME ReviewAssumption == /\ IsFiniteSet(Candidate)
                           /\ Confidence \in [Candidate -> Int]
                           /\ Proposed \subseteq Candidate
                           /\ Candidate \cap {Manual, None} = {}

VARIABLES
  apart,        \* whether the editors never work at the same time
  reliable,     \* whether no request is ever cut off and no process dies
  clue,         \* the row of clues: [solution, solver]
  deleted,      \* the clue was deleted, its candidates with it
  status,       \* status of every candidate; "absent" before it is proposed
  session       \* what each request has loaded

work == <<apart, reliable>>   \* fixed in every behaviour
vars == <<work, clue, deleted, status, session>>

Written(c) == IF c = Manual THEN [solution |-> Manual, solver |-> None]
                            ELSE [solution |-> c, solver |-> c]

Unsolved == [solution |-> None, solver |-> None]

Idle == [pc |-> "idle", cand |-> None, loaded |-> Unsolved, stale |-> {}]

End(e) == session' = [session EXCEPT ![e] = Idle]

(* the row locks of a session that has flushed its candidate's UPDATE *)
Locked(c, e) == \E f \in Editor \ {e} : session[f].pc = "flushed" /\ session[f].cand = c

(* whether a request of e may begin *)
May(e) == session[e].pc = "idle" /\ (apart => \A f \in Editor : session[f].pc = "idle")

-----------------------------------------------------------------------------
(* The daemon *)

(* process_window or the LLM worker commits a candidate *)
Propose(c) ==
  /\ status[c] = "absent" /\ ~deleted
  /\ status' = [status EXCEPT ![c] = "pending"]
  /\ UNCHANGED <<work, clue, deleted, session>>

-----------------------------------------------------------------------------
(* Approve *)

(* Mutant: a resolved candidate is not refused *)
LoadResolved(e, c, pc) ==
  /\ May(e) /\ status[c] # "absent"
  /\ session' = [session EXCEPT ![e] = [Idle EXCEPT !.pc = pc, !.cand = c]]
  /\ UNCHANGED <<work, clue, deleted, status>>

(* approve and reject load the candidate and refuse a resolved one (409) *)
Load(e, c, pc) ==
  /\ May(e) /\ status[c] = "pending"
  /\ session' = [session EXCEPT ![e] = [Idle EXCEPT !.pc = pc, !.cand = c]]
  /\ UNCHANGED <<work, clue, deleted, status>>

(* Mutant: a missing clue does not end the request *)
LoadClueWaiting(e) ==
  /\ session[e].pc = "approving" /\ ~deleted
  /\ session' = [session EXCEPT ![e] = [@ EXCEPT !.pc = "editing", !.loaded = clue]]
  /\ UNCHANGED <<work, clue, deleted, status>>

(* update_clue's SELECT; for a manual solution, manual_solve's own         *)
LoadClue(e) ==
  /\ session[e].pc = "approving"
  /\ session' = [session EXCEPT ![e] = IF deleted THEN Idle
                                       ELSE [@ EXCEPT !.pc = "editing", !.loaded = clue]]
  /\ UNCHANGED <<work, clue, deleted, status>>

(* Mutant: a solver once written stays *)
MergedKeeping(now, loaded, new) ==
  [solution |-> IF new.solution = loaded.solution THEN now.solution ELSE new.solution,
   solver   |-> IF new.solver \in {None, loaded.solver} THEN now.solver ELSE new.solver]

(* the row after a flush: an attribute equal to the loaded one is not written *)
Merged(now, loaded, new) ==
  [solution |-> IF new.solution = loaded.solution THEN now.solution ELSE new.solution,
   solver   |-> IF new.solver = loaded.solver THEN now.solver ELSE new.solver]

(* update_clue commits the clue; a manual solution ends here.  What was    *)
(* loaded is not looked at again.                                          *)
CommitClue(e) ==
  /\ session[e].pc = "editing"
  /\ IF deleted
     THEN End(e) /\ UNCHANGED clue
     ELSE /\ clue' = Merged(clue, session[e].loaded, Written(session[e].cand))
          /\ IF session[e].cand = Manual
             THEN End(e)
             ELSE session' = [session EXCEPT ![e].pc = "written", ![e].loaded = Unsolved]
  /\ UNCHANGED <<work, deleted, status>>

Pending == {c \in Candidate : status[c] = "pending"}

(* Mutant: the two weakest are kept *)
StaleWeakest(others) ==
  {others \ kept : kept \in {k \in SUBSET others :
     /\ Cardinality(k) = 2 \/ (k = others /\ Cardinality(others) < 2)
     /\ \A c \in k, d \in others \ k : Confidence[c] <= Confidence[d]}}

(* what others[2:] may be, by descending confidence *)
Stale(others) ==
  {others \ kept : kept \in {k \in SUBSET others :
     /\ Cardinality(k) = 2 \/ (k = others /\ Cardinality(others) < 2)
     /\ \A c \in k, d \in others \ k : Confidence[c] >= Confidence[d]}}

(* flush the approval, then SELECT the other pending candidates *)
Flush(e) ==
  /\ session[e].pc = "written"
  /\ ~Locked(session[e].cand, e)
  /\ IF deleted
     THEN End(e)
     ELSE \E stale \in Stale(Pending \ {session[e].cand}) :
            session' = [session EXCEPT ![e].pc = "flushed", ![e].stale = stale]
  /\ UNCHANGED <<work, clue, deleted, status>>

(* Mutant: the pruning is committed without the approval *)
CommitPrunedOnly(e) ==
  /\ session[e].pc = "flushed"
  /\ \A c \in session[e].stale : ~Locked(c, e)
  /\ status' = [c \in Candidate |-> IF c \in session[e].stale THEN "rejected" ELSE status[c]]
  /\ End(e)
  /\ UNCHANGED <<work, clue, deleted>>

(* COMMIT: the candidate approved, the stale ones rejected *)
CommitApproval(e) ==
  /\ session[e].pc = "flushed"
  /\ \A c \in session[e].stale : ~Locked(c, e)
  /\ status' = [c \in Candidate |-> IF c = session[e].cand THEN "approved"
                                    ELSE IF c \in session[e].stale THEN "rejected"
                                    ELSE status[c]]
  /\ End(e)
  /\ UNCHANGED <<work, clue, deleted>>

-----------------------------------------------------------------------------
(* Reject, manual solve, delete *)

CommitReject(e) ==
  /\ session[e].pc = "rejecting"
  /\ ~Locked(session[e].cand, e)
  /\ status' = IF deleted THEN status ELSE [status EXCEPT ![session[e].cand] = "rejected"]
  /\ End(e)
  /\ UNCHANGED <<work, clue, deleted>>

(* manual_solve loads the clue; update_clue finds it in the session *)
LoadForManual(e) ==
  /\ May(e) /\ ~deleted
  /\ session' = [session EXCEPT
       ![e] = [Idle EXCEPT !.pc = "editing", !.cand = Manual, !.loaded = clue]]
  /\ UNCHANGED <<work, clue, deleted, status>>

(* DELETE /api/clues/{id} cascades, and waits for locked candidates *)
DeleteClue ==
  /\ ~deleted
  /\ \A e \in Editor : session[e].pc # "flushed"
  /\ deleted' = TRUE /\ clue' = Unsolved
  /\ status' = [c \in Candidate |-> "absent"]
  /\ UNCHANGED <<work, session>>

(* the request ends here: what it has not committed is rolled back *)
Abort(e) ==
  /\ ~reliable /\ session[e].pc # "idle"
  /\ End(e)
  /\ UNCHANGED <<work, clue, deleted, status>>

(* Two approvals that each prune the other's candidate wait for each other *)
(* and PostgreSQL rolls one of them back.                                  *)
DeadlockDetected(e) ==
  /\ session[e].pc = "flushed"
  /\ \E f \in Editor \ {e} : /\ session[f].pc = "flushed"
                             /\ session[f].cand \in session[e].stale
                             /\ session[e].cand \in session[f].stale
  /\ End(e)
  /\ UNCHANGED <<work, clue, deleted, status>>

-----------------------------------------------------------------------------

Init ==
  /\ clue = Unsolved /\ deleted = FALSE
  /\ status = [c \in Candidate |-> IF c \in Proposed THEN "pending" ELSE "absent"]
  /\ apart \in BOOLEAN /\ reliable \in BOOLEAN
  /\ apart \/ reliable   \* one difficulty at a time
  /\ session = [e \in Editor |-> Idle]

Step(e) == \/ LoadClue(e) \/ CommitClue(e) \/ Flush(e) \/ CommitApproval(e)
           \/ CommitReject(e)

Request(e) == \/ \E c \in Candidate, pc \in {"approving", "rejecting"} : Load(e, c, pc)
              \/ LoadForManual(e)
              \/ Step(e) \/ Abort(e) \/ DeadlockDetected(e)

Next == \/ \E c \in Candidate : Propose(c)
        \/ \E e \in Editor : Request(e)
        \/ DeleteClue

(* A request once begun goes on, and the deadlock detector runs.  Strong   *)
(* fairness, for PostgreSQL queues those who wait for a row: whoever waits *)
(* is served before the holder can lock the row again.                     *)
Fairness == \A e \in Editor : SF_vars(Step(e)) /\ WF_vars(DeadlockDetected(e))

Spec == Init /\ [][Next]_vars /\ Fairness

-----------------------------------------------------------------------------
(* Correctness *)

(* The clue never shows one proposal's solution under another's solver,    *)
(* whatever was approved or typed in before, as long as two editors do not *)
(* write it at the same time: an attribute equal to the one that was       *)
(* loaded is not written, so two overlapping approvals can mix.            *)
WholeSolution ==
  apart => clue \in {Unsolved} \cup {Written(c) : c \in Candidate \cup {Manual}}

(* "Candidate already resolved": an approved or rejected candidate keeps   *)
(* its status as long as the clue exists, if the editors work apart.       *)
ResolvedOnce ==
  [][\A c \in Candidate : apart /\ status[c] \in {"approved", "rejected"} =>
       status'[c] = status[c] \/ deleted']_vars

(* An approval marks the candidate whose solution the clue then carries:   *)
(* between requests, the solution shown is an approved one.  It is not     *)
(* when the request ends between its two commits.                          *)
ApprovalComplete ==
  apart /\ reliable /\ (\A e \in Editor : session[e].pc = "idle") =>
    \A c \in Candidate : clue.solution = c => status[c] = "approved"

(* A candidate that an approval prunes leaves two pending ones behind that *)
(* are at least as good, although new candidates arrive between the SELECT *)
(* and the commit.                                                         *)
PruneKeepsBest ==
  [][\A e \in Editor : apart /\ session[e].pc = "flushed" /\ session'[e].pc = "idle" =>
       \A c \in Candidate : status[c] = "pending" /\ status'[c] = "rejected" =>
         Cardinality({d \in Candidate : status'[d] = "pending" /\ Confidence[d] >= Confidence[c]})
           >= 2]_vars

(* Every request ends, also when the clue is deleted under it or it waits  *)
(* for a candidate another request has locked.                             *)
EveryRequestEnds == \A e \in Editor : session[e].pc # "idle" ~> session[e].pc = "idle"

=============================================================================
