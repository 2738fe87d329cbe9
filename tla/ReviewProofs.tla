---------------------------- MODULE ReviewProofs ----------------------------
(***************************************************************************)
(* Proofs about Review, for every number of editors and candidates.        *)
(*                                                                         *)
(* What editors who work apart can rely on is what their one session has   *)
(* loaded: the clue it will merge its own values into is still the one it  *)
(* loaded, the candidate it was asked about is still pending, and of the   *)
(* candidates it is about to prune two better ones are left.  The daemon   *)
(* only adds candidates, and a deletion is what every step looks for.      *)
(***************************************************************************)
EXTENDS Review, FiniteSetTheorems, TLAPS

-----------------------------------------------------------------------------
(* The invariant *)

Solution == Candidate \cup {Manual, None}
Row      == [solution : Solution, solver : Solution]
Control  == {"idle", "approving", "editing", "written", "flushed", "rejecting"}
Session  == [pc : Control, cand : Solution, loaded : Row, stale : SUBSET Candidate]
Status   == {"absent", "pending", "approved", "rejected"}

TypeOK ==
  /\ apart \in BOOLEAN /\ reliable \in BOOLEAN /\ deleted \in BOOLEAN
  /\ clue \in Row
  /\ status \in [Candidate -> Status]
  /\ session \in [Editor -> Session]

AtWork(e) == session[e].pc # "idle"

(* A request is about a candidate, or, where the clue is written, about a  *)
(* manual solution.  A clue whose candidates are locked is not deleted,    *)
(* and a deleted one shows nothing.                                        *)
SessionsSound ==
  /\ \A e \in Editor :
       /\ session[e].pc = "editing" => session[e].cand \in Candidate \cup {Manual}
       /\ session[e].pc \in {"approving", "rejecting", "written", "flushed"} =>
            session[e].cand \in Candidate
       /\ session[e].pc = "flushed" => ~deleted
  /\ deleted => clue = Unsolved

(* Editors who work apart have one session, and what it has loaded is what *)
(* the tables hold, unless the clue was deleted.                           *)
OneAtATime == apart => \A e, f \in Editor : AtWork(e) /\ AtWork(f) => e = f

NothingStale ==
  apart /\ ~deleted => \A e \in Editor : AtWork(e) =>
    /\ session[e].pc = "editing" => session[e].loaded = clue
    /\ session[e].cand \in Candidate => status[session[e].cand] = "pending"

(* Two candidates that are spared, better than all that are pruned. *)
Spared(x, y, e) ==
  /\ x # y /\ x # session[e].cand /\ y # session[e].cand
  /\ \A c \in {x, y} : c \notin session[e].stale /\ status[c] = "pending"
  /\ \A d \in session[e].stale : Confidence[x] >= Confidence[d] /\ Confidence[y] >= Confidence[d]

PruneSound ==
  apart => \A e \in Editor : session[e].pc = "flushed" =>
    /\ session[e].cand \notin session[e].stale
    /\ \A c \in session[e].stale : status[c] = "pending"
    /\ session[e].stale # {} => \E x, y \in Candidate : Spared(x, y, e)

(* The solution shown is an approved one, or about to be.                  *)
ShownApproved ==
  apart /\ reliable => \A c \in Candidate : clue.solution = c =>
    \/ status[c] = "approved"
    \/ \E e \in Editor : session[e].pc \in {"written", "flushed"} /\ session[e].cand = c

IInv == /\ TypeOK /\ SessionsSound /\ OneAtATime
        /\ NothingStale /\ PruneSound /\ ShownApproved /\ WholeSolution

-----------------------------------------------------------------------------
(* One session changes                                                     *)

(* A session that has nothing loaded is one. *)
LEMMA IdleIsSession == Idle \in Session /\ Unsolved \in Row
BY DEF Idle, Session, Control, Unsolved, Row, Solution

(* What a step of one session leaves alone.                                *)
LEMMA OneChanges ==
  ASSUME TypeOK, NEW e \in Editor, NEW s \in Session,
         session' = [session EXCEPT ![e] = s]
  PROVE  /\ session' \in [Editor -> Session] /\ session'[e] = s
         /\ \A f \in Editor : f # e => session'[f] = session[f]
BY DEF TypeOK

(* There is still one session at most, where the step is of one that was   *)
(* at work, or of one that may begin.                                      *)
LEMMA StaysOne ==
  ASSUME TypeOK, OneAtATime, UNCHANGED apart, NEW e \in Editor, NEW s \in Session,
         session' = [session EXCEPT ![e] = s], AtWork(e) \/ May(e)
  PROVE  OneAtATime' /\ (apart => \A f \in Editor : f # e => session'[f].pc = "idle")
<1>1. /\ session'[e] = s
      /\ \A f \in Editor : f # e => session'[f] = session[f]
  BY OneChanges
<1> QED BY <1>1 DEF OneAtATime, AtWork, May

(* A session ends with its approval complete, or where nobody watches.     *)
LEMMA EndKeeps ==
  ASSUME IInv, NEW e \in Editor, AtWork(e), End(e), UNCHANGED <<work, clue, deleted, status>>,
         deleted \/ ~reliable \/ ~apart \/ session[e].pc \in {"approving", "editing", "rejecting"}
  PROVE  IInv'
<1>1. /\ TypeOK /\ OneAtATime /\ SessionsSound /\ UNCHANGED apart
      /\ session' = [session EXCEPT ![e] = Idle] /\ Idle \in Session
  BY IdleIsSession DEF IInv, End, work
<1>2. /\ session' \in [Editor -> Session] /\ session'[e] = Idle
      /\ \A f \in Editor : f # e => session'[f] = session[f]
  BY <1>1, OneChanges
<1>3. OneAtATime' /\ (apart => \A f \in Editor : f # e => session'[f].pc = "idle")
  BY <1>1, StaysOne
<1>4. Idle.pc = "idle"
  BY DEF Idle
<1>5. TypeOK' /\ SessionsSound' /\ WholeSolution'
  BY <1>1, <1>2, <1>4 DEF IInv, TypeOK, SessionsSound, WholeSolution, work
<1>6. NothingStale' /\ PruneSound'
  BY <1>2, <1>3, <1>4 DEF IInv, NothingStale, PruneSound, AtWork, work
<1>7. ShownApproved'
  <2> SUFFICES ASSUME apart, reliable, NEW c \in Candidate, clue.solution = c
               PROVE  \/ status[c] = "approved"
                      \/ \E f \in Editor : session'[f].pc \in {"written", "flushed"} /\ session'[f].cand = c
    BY <1>1 DEF ShownApproved, work
  <2>1. ~deleted
    BY <1>1, ReviewAssumption DEF SessionsSound, Unsolved
  <2>2. session[e].pc \in {"approving", "editing", "rejecting"}
    BY <2>1
  <2> QED BY <1>2, <2>2 DEF IInv, ShownApproved
<1> QED BY <1>3, <1>5, <1>6, <1>7 DEF IInv

-----------------------------------------------------------------------------
(* Each step *)

(* A candidate more: it is neither the one a session is about nor pruned.  *)
LEMMA ProposeKeeps ==
  ASSUME IInv, NEW c \in Candidate, Propose(c)
  PROVE  IInv'
<1>1. /\ status' \in [Candidate -> Status] /\ status[c] = "absent" /\ status'[c] = "pending"
      /\ \A d \in Candidate : d # c => status'[d] = status[d]
  BY DEF IInv, TypeOK, Propose, Status
<1>2. TypeOK' /\ SessionsSound' /\ OneAtATime' /\ WholeSolution'
  BY <1>1 DEF IInv, TypeOK, SessionsSound, OneAtATime, AtWork, WholeSolution, Propose, work
<1>3. NothingStale'
  BY <1>1 DEF IInv, NothingStale, AtWork, Propose, work
<1>4. PruneSound'
  <2> SUFFICES ASSUME apart, NEW e \in Editor, session[e].pc = "flushed"
               PROVE  /\ session[e].cand \notin session[e].stale
                      /\ \A d \in session[e].stale : status'[d] = "pending"
                      /\ session[e].stale # {} => \E x, y \in Candidate : Spared(x, y, e)'
    BY DEF PruneSound, Propose, work
  <2>1. session[e].stale \subseteq Candidate
    BY DEF IInv, TypeOK, Session
  <2>2. /\ session[e].cand \notin session[e].stale
        /\ \A d \in session[e].stale : status[d] = "pending"
        /\ session[e].stale # {} => \E x, y \in Candidate : Spared(x, y, e)
    BY DEF IInv, PruneSound
  <2>3. ASSUME NEW x \in Candidate, NEW y \in Candidate, Spared(x, y, e)
        PROVE  Spared(x, y, e)'
    BY <1>1, <2>3 DEF Spared, Propose
  <2> QED BY <1>1, <2>1, <2>2, <2>3
<1>5. ShownApproved'
  BY <1>1 DEF IInv, ShownApproved, Propose, work
<1> QED BY <1>2, <1>3, <1>4, <1>5 DEF IInv

(* A request begins: what it loads is what there is.                       *)
LEMMA BeginKeeps ==
  ASSUME IInv, NEW e \in Editor, NEW s \in Session, May(e),
         session' = [session EXCEPT ![e] = s], UNCHANGED <<work, clue, deleted, status>>,
         \/ s.pc = "editing" /\ s.cand = Manual /\ s.loaded = clue
         \/ s.pc \in {"approving", "rejecting"} /\ s.cand \in Candidate /\ status[s.cand] = "pending"
  PROVE  IInv'
<1>1. /\ session' \in [Editor -> Session] /\ session'[e] = s /\ session[e].pc = "idle"
      /\ \A f \in Editor : f # e => session'[f] = session[f]
  BY OneChanges DEF IInv, May
<1>2. OneAtATime' /\ (apart => \A f \in Editor : f # e => session'[f].pc = "idle")
  BY StaysOne DEF IInv, work
<1>3. TypeOK' /\ WholeSolution'
  BY <1>1 DEF IInv, TypeOK, WholeSolution, work
<1>4. SessionsSound'
  BY <1>1 DEF IInv, SessionsSound
<1>5. NothingStale' /\ PruneSound'
  BY <1>1, <1>2, ReviewAssumption DEF IInv, NothingStale, PruneSound, AtWork, work
<1>6. ShownApproved'
  BY <1>1 DEF IInv, ShownApproved, work
<1> QED BY <1>2, <1>3, <1>4, <1>5, <1>6 DEF IInv

(* approve, reject and manual_solve begin.                                 *)
LEMMA RequestsBegin ==
  ASSUME IInv, NEW e \in Editor,
         LoadForManual(e) \/ \E c \in Candidate, pc \in {"approving", "rejecting"} : Load(e, c, pc)
  PROVE  IInv'
<1>1. TypeOK /\ clue \in Row
  BY DEF IInv, TypeOK
<1>2. CASE LoadForManual(e)
  <2> DEFINE s == [Idle EXCEPT !.pc = "editing", !.cand = Manual, !.loaded = clue]
  <2>1. s \in Session /\ s.pc = "editing" /\ s.cand = Manual /\ s.loaded = clue
    BY <1>1 DEF Idle, Session, Control, Solution
  <2>2. May(e) /\ session' = [session EXCEPT ![e] = s] /\ UNCHANGED <<work, clue, deleted, status>>
    BY <1>2 DEF LoadForManual
  <2> HIDE DEF s
  <2> QED BY <2>1, <2>2, BeginKeeps
<1>3. ASSUME NEW c \in Candidate, NEW pc \in {"approving", "rejecting"}, Load(e, c, pc)
      PROVE  IInv'
  <2> DEFINE s == [Idle EXCEPT !.pc = pc, !.cand = c]
  <2>1. s \in Session /\ s.pc = pc /\ s.cand = c
    BY IdleIsSession DEF Idle, Session, Control, Solution
  <2>2. /\ May(e) /\ session' = [session EXCEPT ![e] = s] /\ status[c] = "pending"
        /\ UNCHANGED <<work, clue, deleted, status>>
    BY <1>3 DEF Load
  <2> HIDE DEF s
  <2> QED BY <2>1, <2>2, BeginKeeps
<1> QED BY <1>2, <1>3

(* update_clue loads the clue, or finds it gone.                           *)
LEMMA LoadClueKeeps ==
  ASSUME IInv, NEW e \in Editor, LoadClue(e)
  PROVE  IInv'
<1>1. AtWork(e) /\ session[e].pc = "approving" /\ UNCHANGED <<work, clue, deleted, status>>
  BY DEF LoadClue, AtWork
<1>2. CASE deleted
  <2>1. End(e)
    BY <1>2 DEF LoadClue, End
  <2> QED BY <1>1, <1>2, <2>1, EndKeeps
<1>3. CASE ~deleted
  <2> DEFINE s == [session[e] EXCEPT !.pc = "editing", !.loaded = clue]
  <2>1. session[e] \in Session /\ clue \in Row
    BY DEF IInv, TypeOK
  <2>2. s \in Session /\ s.pc = "editing" /\ s.cand = session[e].cand /\ s.loaded = clue
    BY <2>1 DEF Session, Control
  <2>3. session' = [session EXCEPT ![e] = s]
    BY <1>3 DEF LoadClue
  <2> HIDE DEF s
  <2>4. /\ session' \in [Editor -> Session] /\ session'[e] = s
        /\ \A f \in Editor : f # e => session'[f] = session[f]
    BY <2>2, <2>3, OneChanges DEF IInv
  <2>5. OneAtATime' /\ (apart => \A f \in Editor : f # e => session'[f].pc = "idle")
    BY <1>1, <2>2, <2>3, StaysOne DEF IInv, work
  <2>6. TypeOK' /\ SessionsSound' /\ WholeSolution'
    BY <1>1, <2>2, <2>4 DEF IInv, TypeOK, SessionsSound, WholeSolution, work
  <2>7. NothingStale' /\ PruneSound'
    BY <1>1, <2>2, <2>4, <2>5 DEF IInv, NothingStale, PruneSound, AtWork, work
  <2>8. ShownApproved'
    BY <1>1, <2>2, <2>4 DEF IInv, ShownApproved, work
  <2> QED BY <2>5, <2>6, <2>7, <2>8 DEF IInv
<1> QED BY <1>2, <1>3

(* What a session writes into the clue it has just loaded is all its own.  *)
LEMMA MergedIsWritten ==
  ASSUME NEW row \in Row, NEW new \in Row
  PROVE  Merged(row, row, new) = new
BY DEF Merged, Row

(* Whoever overlaps may mix the rows, but the result is a row.             *)
LEMMA MergedIsRow ==
  ASSUME NEW now \in Row, NEW loaded \in Row, NEW new \in Row
  PROVE  Merged(now, loaded, new) \in Row
BY DEF Merged, Row

(* update_clue commits.                                                    *)
LEMMA CommitClueKeeps ==
  ASSUME IInv, NEW e \in Editor, CommitClue(e)
  PROVE  IInv'
<1>1. /\ TypeOK /\ AtWork(e) /\ session[e].pc = "editing" /\ UNCHANGED <<work, deleted, status>>
      /\ session[e] \in Session /\ session[e].cand \in Candidate \cup {Manual}
  BY DEF CommitClue, AtWork, IInv, TypeOK, SessionsSound
<1>2. CASE deleted
  <2>1. End(e) /\ UNCHANGED clue
    BY <1>2 DEF CommitClue
  <2> QED BY <1>1, <1>2, <2>1, EndKeeps
<1>3. CASE ~deleted
  <2> DEFINE new == Written(session[e].cand)
             s   == IF session[e].cand = Manual THEN Idle
                    ELSE [session[e] EXCEPT !.pc = "written", !.loaded = Unsolved]
  <2>1. /\ new \in Row /\ new.solution = session[e].cand
    BY <1>1 DEF Written, Row, Solution
  <2>2. clue' = Merged(clue, session[e].loaded, new)
    BY <1>3 DEF CommitClue
  <2>3. clue' \in Row
    BY <1>1, <2>1, <2>2, MergedIsRow DEF TypeOK, Session
  <2>4. apart => clue' = new
    BY <1>1, <1>3, <2>1, <2>2, MergedIsWritten DEF IInv, NothingStale, TypeOK
  <2>5. session' = [session EXCEPT ![e] = s]
    BY <1>1, <1>3 DEF CommitClue, End, TypeOK, Session
  <2>6. /\ s \in Session
        /\ session[e].cand = Manual => s.pc = "idle"
        /\ session[e].cand # Manual => s.pc = "written" /\ s.cand = session[e].cand
    BY <1>1, IdleIsSession DEF Session, Control, Idle
  <2> HIDE DEF s
  <2>7. /\ session' \in [Editor -> Session] /\ session'[e] = s
        /\ \A f \in Editor : f # e => session'[f] = session[f]
    BY <1>1, <2>5, <2>6, OneChanges
  <2>8. OneAtATime' /\ (apart => \A f \in Editor : f # e => session'[f].pc = "idle")
    BY <1>1, <2>5, <2>6, StaysOne DEF IInv, work
  <2>9. TypeOK' /\ SessionsSound'
    BY <1>1, <1>3, <2>3, <2>6, <2>7 DEF IInv, TypeOK, SessionsSound, work
  <2>10. WholeSolution'
    BY <1>1, <2>4 DEF WholeSolution, work
  <2> HIDE DEF new
  <2>11. NothingStale' /\ PruneSound'
    BY <1>1, <1>3, <2>6, <2>7, <2>8 DEF IInv, NothingStale, PruneSound, AtWork, work
  <2>12. ShownApproved'
    <3> SUFFICES ASSUME apart, reliable, NEW c \in Candidate, clue'.solution = c
                 PROVE  \E f \in Editor : session'[f].pc \in {"written", "flushed"} /\ session'[f].cand = c
      BY <1>1 DEF ShownApproved, work
    <3>1. session[e].cand = c /\ c # Manual
      BY <2>1, <2>4, ReviewAssumption
    <3> QED BY <2>6, <2>7, <3>1
  <2> QED BY <2>8, <2>9, <2>10, <2>11, <2>12 DEF IInv
<1> QED BY <1>2, <1>3

(* A finite set with two members in it has at least two. *)
LEMMA TwoMembers ==
  ASSUME NEW S, IsFiniteSet(S), NEW x \in S, NEW y \in S, x # y
  PROVE  Cardinality(S) >= 2
<1>1. /\ IsFiniteSet(S \ {x}) /\ Cardinality(S \ {x}) = Cardinality(S) - 1
      /\ Cardinality(S) \in Nat /\ Cardinality(S \ {x}) \in Nat
  BY FS_RemoveElement, FS_CardinalityType
<1>2. Cardinality(S \ {x}) # 0
  BY <1>1, FS_EmptySet
<1> QED BY <1>1, <1>2

(* others[2:] spares two of the others, if it prunes any. *)
LEMMA StaleSpares ==
  ASSUME NEW others \in SUBSET Candidate, NEW stale \in Stale(others)
  PROVE  /\ stale \subseteq others
         /\ stale # {} => \E x, y \in others \ stale :
              /\ x # y
              /\ \A d \in stale : Confidence[x] >= Confidence[d] /\ Confidence[y] >= Confidence[d]
<1>1. PICK k \in SUBSET others :
        /\ stale = others \ k
        /\ Cardinality(k) = 2 \/ (k = others /\ Cardinality(others) < 2)
        /\ \A c \in k, d \in others \ k : Confidence[c] >= Confidence[d]
  BY DEF Stale
<1>2. ASSUME stale # {}
      PROVE  \E x, y \in others \ stale :
               /\ x # y
               /\ \A d \in stale : Confidence[x] >= Confidence[d] /\ Confidence[y] >= Confidence[d]
  <2>1. IsFiniteSet(k) /\ Cardinality(k) = 2
    BY <1>1, <1>2, FS_Subset, ReviewAssumption
  <2>2. k # {}
    BY <2>1, FS_EmptySet
  <2>3. PICK x \in k : TRUE
    BY <2>2
  <2>4. IsFiniteSet(k \ {x}) /\ Cardinality(k \ {x}) = 1
    BY <2>1, <2>3, FS_RemoveElement
  <2>5. k \ {x} # {}
    BY <2>4, FS_EmptySet
  <2>6. PICK y \in k \ {x} : TRUE
    BY <2>5
  <2> QED BY <1>1, <2>3, <2>6
<1> QED BY <1>1, <1>2

(* The approval is flushed and the others are read: it prunes what is      *)
(* pending, and spares two.                                                *)
LEMMA FlushKeeps ==
  ASSUME IInv, NEW e \in Editor, Flush(e)
  PROVE  IInv'
<1>1. /\ TypeOK /\ AtWork(e) /\ session[e].pc = "written" /\ UNCHANGED <<work, clue, deleted, status>>
      /\ session[e] \in Session /\ session[e].cand \in Candidate
  BY DEF Flush, AtWork, IInv, TypeOK, SessionsSound
<1>2. CASE deleted
  BY <1>1, <1>2, EndKeeps DEF Flush
<1>3. CASE ~deleted
  <2> DEFINE others == Pending \ {session[e].cand}
  <2>1. PICK stale \in Stale(others) :
          session' = [session EXCEPT ![e].pc = "flushed", ![e].stale = stale]
    BY <1>3 DEF Flush
  <2>2. /\ others \in SUBSET Candidate /\ session[e].cand \notin others
        /\ \A c \in others : status[c] = "pending"
    BY DEF Pending
  <2> HIDE DEF others
  <2>3. /\ stale \subseteq others
        /\ stale # {} => \E x, y \in others \ stale :
             /\ x # y
             /\ \A d \in stale : Confidence[x] >= Confidence[d] /\ Confidence[y] >= Confidence[d]
    BY <2>2, StaleSpares
  <2> DEFINE s == [session[e] EXCEPT !.pc = "flushed", !.stale = stale]
  <2>4. /\ s \in Session /\ s.pc = "flushed" /\ s.cand = session[e].cand /\ s.stale = stale
    BY <1>1, <2>2, <2>3 DEF Session, Control
  <2>5. session' = [session EXCEPT ![e] = s]
    BY <1>1, <2>1 DEF TypeOK, Session
  <2> HIDE DEF s
  <2>6. /\ session' \in [Editor -> Session] /\ session'[e] = s
        /\ \A f \in Editor : f # e => session'[f] = session[f]
    BY <1>1, <2>4, <2>5, OneChanges
  <2>7. OneAtATime' /\ (apart => \A f \in Editor : f # e => session'[f].pc = "idle")
    BY <1>1, <2>4, <2>5, StaysOne DEF IInv, work
  <2>8. TypeOK' /\ SessionsSound' /\ WholeSolution'
    BY <1>1, <1>3, <2>4, <2>6 DEF IInv, TypeOK, SessionsSound, WholeSolution, work
  <2>9. NothingStale'
    BY <1>1, <2>4, <2>6, <2>7 DEF IInv, NothingStale, AtWork, work
  <2>10. PruneSound'
    <3> SUFFICES ASSUME apart, NEW f \in Editor, session'[f].pc = "flushed"
                 PROVE  /\ session'[f].cand \notin session'[f].stale
                        /\ \A c \in session'[f].stale : status[c] = "pending"
                        /\ session'[f].stale # {} => \E x, y \in Candidate : Spared(x, y, f)'
      BY <1>1 DEF PruneSound, work
    <3>1. f = e /\ session'[f].cand = session[e].cand /\ session'[f].stale = stale
      BY <2>4, <2>6, <2>7
    <3>2. ASSUME NEW x \in others \ stale, NEW y \in others \ stale, x # y,
                 \A d \in stale : Confidence[x] >= Confidence[d] /\ Confidence[y] >= Confidence[d]
          PROVE  x \in Candidate /\ y \in Candidate /\ Spared(x, y, f)'
      BY <1>1, <2>2, <3>1, <3>2 DEF Spared
    <3> QED BY <2>2, <2>3, <3>1, <3>2
  <2>11. ShownApproved'
    BY <1>1, <2>4, <2>6 DEF IInv, ShownApproved, work
  <2> QED BY <2>7, <2>8, <2>9, <2>10, <2>11 DEF IInv
<1> QED BY <1>2, <1>3

(* The candidate is marked, and the others with it or not at all.          *)
LEMMA CommitApprovalKeeps ==
  ASSUME IInv, NEW e \in Editor, CommitApproval(e)
  PROVE  IInv'
<1>1. /\ TypeOK /\ AtWork(e) /\ session[e].pc = "flushed" /\ UNCHANGED <<work, clue, deleted>>
      /\ session[e] \in Session /\ session[e].cand \in Candidate /\ session[e].stale \subseteq Candidate
      /\ session' = [session EXCEPT ![e] = Idle] /\ Idle \in Session /\ Idle.pc = "idle"
  BY IdleIsSession DEF CommitApproval, End, AtWork, IInv, TypeOK, SessionsSound, Session, Idle
<1>2. /\ session' \in [Editor -> Session] /\ session'[e] = Idle
      /\ \A f \in Editor : f # e => session'[f] = session[f]
  BY <1>1, OneChanges
<1>3. OneAtATime' /\ (apart => \A f \in Editor : f # e => session'[f].pc = "idle")
  BY <1>1, StaysOne DEF IInv, work
<1>4. /\ status' \in [Candidate -> Status]
      /\ status'[session[e].cand] = "approved"
      /\ \A c \in Candidate : c # session[e].cand /\ c \notin session[e].stale => status'[c] = status[c]
  BY <1>1 DEF CommitApproval, TypeOK, Status
<1>5. TypeOK' /\ SessionsSound' /\ WholeSolution'
  BY <1>1, <1>2, <1>4 DEF IInv, TypeOK, SessionsSound, WholeSolution, work
<1>6. NothingStale' /\ PruneSound'
  BY <1>1, <1>2, <1>3 DEF NothingStale, PruneSound, AtWork, work
<1>7. ShownApproved'
  <2> SUFFICES ASSUME apart, reliable, NEW c \in Candidate, clue.solution = c
               PROVE  status'[c] = "approved"
    BY <1>1 DEF ShownApproved, work
  <2>1. status[c] = "approved" \/ c = session[e].cand
    BY <1>1, <1>2, <1>3 DEF IInv, ShownApproved
  <2>2. c \in session[e].stale => status[c] = "pending"
    BY <1>1 DEF IInv, PruneSound
  <2> QED BY <1>4, <2>1, <2>2
<1> QED BY <1>3, <1>5, <1>6, <1>7 DEF IInv

(* A rejection is of a candidate that was not approved.                    *)
LEMMA CommitRejectKeeps ==
  ASSUME IInv, NEW e \in Editor, CommitReject(e)
  PROVE  IInv'
<1>1. /\ TypeOK /\ AtWork(e) /\ session[e].pc = "rejecting" /\ UNCHANGED <<work, clue, deleted>>
      /\ session[e] \in Session /\ session[e].cand \in Candidate
      /\ session' = [session EXCEPT ![e] = Idle] /\ Idle \in Session /\ Idle.pc = "idle"
  BY IdleIsSession DEF CommitReject, End, AtWork, IInv, TypeOK, SessionsSound, Idle
<1>2. CASE deleted
  BY <1>1, <1>2, EndKeeps DEF CommitReject, End
<1>3. CASE ~deleted
  <2>1. /\ session' \in [Editor -> Session] /\ session'[e] = Idle
        /\ \A f \in Editor : f # e => session'[f] = session[f]
    BY <1>1, OneChanges
  <2>2. OneAtATime' /\ (apart => \A f \in Editor : f # e => session'[f].pc = "idle")
    BY <1>1, StaysOne DEF IInv, work
  <2>3. /\ status' \in [Candidate -> Status]
        /\ \A c \in Candidate : c # session[e].cand => status'[c] = status[c]
    BY <1>1, <1>3 DEF CommitReject, TypeOK, Status
  <2>4. TypeOK' /\ SessionsSound' /\ WholeSolution'
    BY <1>1, <2>1, <2>3 DEF IInv, TypeOK, SessionsSound, WholeSolution, work
  <2>5. NothingStale' /\ PruneSound'
    BY <1>1, <2>1, <2>2 DEF NothingStale, PruneSound, AtWork, work
  <2>6. ShownApproved'
    <3> SUFFICES ASSUME apart, reliable, NEW c \in Candidate, clue.solution = c
                 PROVE  status'[c] = "approved"
      BY <1>1 DEF ShownApproved, work
    <3>1. status[c] = "approved"
      BY <1>1, <2>1, <2>2 DEF IInv, ShownApproved
    <3>2. status[session[e].cand] = "pending"
      BY <1>1, <1>3 DEF IInv, NothingStale
    <3> QED BY <2>3, <3>1, <3>2
  <2> QED BY <2>2, <2>4, <2>5, <2>6 DEF IInv
<1> QED BY <1>2, <1>3

(* The clue goes, and with it all that was to be said of it.               *)
LEMMA DeleteKeeps ==
  ASSUME IInv, DeleteClue
  PROVE  IInv'
<1>1. clue' = Unsolved /\ Unsolved \in Row /\ Unsolved.solution = None /\ None \notin Candidate
  BY IdleIsSession, ReviewAssumption DEF DeleteClue, Unsolved
<1>2. TypeOK' /\ SessionsSound' /\ OneAtATime' /\ WholeSolution'
  BY <1>1 DEF IInv, DeleteClue, TypeOK, SessionsSound, OneAtATime, AtWork, WholeSolution, Status, work
<1>3. NothingStale' /\ PruneSound' /\ ShownApproved'
  BY <1>1 DEF DeleteClue, NothingStale, PruneSound, ShownApproved, work
<1> QED BY <1>2, <1>3 DEF IInv

(* A request is cut off only where requests may be, and no two wait for    *)
(* each other where there is one.                                          *)
LEMMA BreaksKeep ==
  ASSUME IInv, NEW e \in Editor, Abort(e) \/ DeadlockDetected(e)
  PROVE  IInv'
<1>1. AtWork(e) /\ End(e) /\ UNCHANGED <<work, clue, deleted, status>>
  BY DEF Abort, DeadlockDetected, AtWork
<1>2. ~reliable \/ ~apart
  BY DEF Abort, DeadlockDetected, IInv, OneAtATime, AtWork
<1> QED BY <1>1, <1>2, EndKeeps

(* Every step keeps the invariant.                                         *)
LEMMA NextKeeps == IInv /\ [Next]_vars => IInv'
<1> SUFFICES ASSUME IInv, [Next]_vars
             PROVE  IInv'
  OBVIOUS
<1>1. CASE UNCHANGED vars
  BY <1>1 DEF IInv, TypeOK, SessionsSound, OneAtATime, NothingStale, PruneSound, Spared, ShownApproved,
             WholeSolution, AtWork, vars, work
<1>2. CASE Next
  BY <1>2, ProposeKeeps, RequestsBegin, LoadClueKeeps, CommitClueKeeps, FlushKeeps, CommitApprovalKeeps,
     CommitRejectKeeps, DeleteKeeps, BreaksKeep DEF Next, Request, Step
<1> QED BY <1>1, <1>2

(* At the start there is a clue without a solution, and nobody is at work. *)
LEMMA InitKeeps == Init => IInv
<1> SUFFICES ASSUME Init PROVE IInv
  OBVIOUS
<1>1. /\ Idle \in Session /\ Idle.pc = "idle" /\ Unsolved \in Row
      /\ Unsolved.solution = None /\ None \notin Candidate
  BY IdleIsSession, ReviewAssumption DEF Idle, Unsolved
<1>2. TypeOK
  BY <1>1 DEF Init, TypeOK, Status
<1>3. \A e \in Editor : session[e].pc = "idle"
  BY <1>1 DEF Init
<1> QED BY <1>1, <1>2, <1>3 DEF Init, IInv, SessionsSound, OneAtATime, NothingStale, PruneSound,
                                ShownApproved, WholeSolution, AtWork

-----------------------------------------------------------------------------
(* The theorems *)

(* The invariant, for every number of editors.                             *)
THEOREM ReviewSound == Spec => []IInv
BY InitKeeps, NextKeeps, PTL DEF Spec

(* The clue shows the solution and the solver of one proposal, as long as  *)
(* editors do not write it at the same time.                               *)
THEOREM SolutionIsWhole == Spec => []WholeSolution
<1>1. IInv => WholeSolution
  BY DEF IInv
<1> QED BY <1>1, ReviewSound, PTL

(* Between requests that were not cut off, the solution shown is approved. *)
THEOREM ApprovalIsComplete == Spec => []ApprovalComplete
<1>1. IInv => ApprovalComplete
  BY DEF IInv, ShownApproved, ApprovalComplete
<1> QED BY <1>1, ReviewSound, PTL

(* A resolved candidate stays resolved: the answer 409 to a second attempt *)
(* is given in time, where editors work apart.                             *)
THEOREM ResolvedStays == Spec => ResolvedOnce
<1> DEFINE Stays == \A c \in Candidate : apart /\ status[c] \in {"approved", "rejected"} =>
                      status'[c] = status[c] \/ deleted'
<1>1. IInv /\ [Next]_vars => Stays
  <2> SUFFICES ASSUME IInv, [Next]_vars, NEW c \in Candidate, apart,
                      status[c] \in {"approved", "rejected"}, ~UNCHANGED status, ~DeleteClue
               PROVE  status'[c] = status[c]
    BY DEF DeleteClue
  <2>1. TypeOK
    BY DEF IInv
  <2>2. ASSUME NEW d \in Candidate, Propose(d)
        PROVE  status'[c] = status[c]
    BY <2>1, <2>2 DEF Propose, TypeOK
  <2>3. ASSUME NEW e \in Editor, CommitApproval(e)
        PROVE  status'[c] = status[c]
    <3>1. session[e].pc = "flushed" /\ session[e].cand \in Candidate /\ ~deleted
      BY <2>3 DEF CommitApproval, IInv, SessionsSound
    <3>2. /\ status[session[e].cand] = "pending"
          /\ \A d \in session[e].stale : status[d] = "pending"
      BY <3>1 DEF IInv, NothingStale, PruneSound, AtWork
    <3> QED BY <2>3, <3>2 DEF CommitApproval
  <2>4. ASSUME NEW e \in Editor, CommitReject(e)
        PROVE  status'[c] = status[c]
    <3>1. session[e].pc = "rejecting" /\ session[e].cand \in Candidate /\ ~deleted
      BY <2>4 DEF CommitReject, IInv, SessionsSound
    <3>2. status[session[e].cand] = "pending"
      BY <3>1 DEF IInv, NothingStale, AtWork
    <3> QED BY <2>1, <2>4, <3>1, <3>2 DEF CommitReject, TypeOK
  <2> QED BY <2>2, <2>3, <2>4 DEF Next, Request, Step, Load, LoadForManual, LoadClue, CommitClue, Flush,
             Abort, DeadlockDetected, vars
<1>2. Spec => [][Stays]_vars
  BY <1>1, ReviewSound, PTL DEF Spec
<1> QED BY <1>2 DEF ResolvedOnce

(* Pruning leaves two pending candidates behind that are at least as good. *)
THEOREM PruneSparesBest == Spec => PruneKeepsBest
<1> DEFINE Better(c)  == {d \in Candidate : status'[d] = "pending" /\ Confidence[d] >= Confidence[c]}
           Spares == \A e \in Editor : apart /\ session[e].pc = "flushed" /\ session'[e].pc = "idle" =>
                       \A c \in Candidate : status[c] = "pending" /\ status'[c] = "rejected" =>
                         Cardinality(Better(c)) >= 2
<1>1. IInv /\ [Next]_vars => Spares
  <2> SUFFICES ASSUME IInv, [Next]_vars, NEW e \in Editor, apart,
                      session[e].pc = "flushed", session'[e].pc = "idle",
                      NEW c \in Candidate, status[c] = "pending", status'[c] = "rejected"
               PROVE  Cardinality(Better(c)) >= 2
    OBVIOUS
  <2>1. CommitApproval(e)
    <3>1. TypeOK /\ Idle.pc = "idle" /\ e \in Editor /\ c \in Candidate
      BY DEF IInv, Idle
    <3>2. ASSUME NEW f \in Editor, CommitApproval(f)
          PROVE  f = e
      <4>1. session' = [session EXCEPT ![f] = Idle] /\ Idle \in Session
        BY <3>2, IdleIsSession DEF CommitApproval, End
      <4> QED BY <3>1, <4>1, OneChanges
    <3>3. ~UNCHANGED status /\ ~DeleteClue
      BY DEF DeleteClue
    <3>4. \A d \in Candidate : ~Propose(d)
      BY <3>1 DEF Propose, TypeOK
    <3>5. \A f \in Editor : ~CommitReject(f)
      <4> SUFFICES ASSUME NEW f \in Editor, CommitReject(f) PROVE FALSE
        OBVIOUS
      <4>1. session' = [session EXCEPT ![f] = Idle] /\ Idle \in Session /\ session[f].pc = "rejecting"
        BY IdleIsSession DEF CommitReject, End
      <4>2. f # e
        BY <4>1
      <4>3. session'[e] = session[e]
        BY <3>1, <4>1, <4>2, OneChanges
      <4> QED BY <4>3
    <3> QED BY <3>2, <3>3, <3>4, <3>5 DEF Next, Request, Step, Load, LoadForManual, LoadClue, CommitClue,
               Flush, Abort, DeadlockDetected, vars
  <2>2. c \in session[e].stale
    BY <2>1 DEF CommitApproval
  <2>3. PICK x, y \in Candidate : Spared(x, y, e)
    BY <2>2 DEF IInv, PruneSound
  <2>4. x \in Better(c) /\ y \in Better(c) /\ x # y
    BY <2>1, <2>2, <2>3 DEF CommitApproval, Spared
  <2>5. IsFiniteSet(Better(c)) /\ Better(c) \subseteq Candidate
    BY FS_Subset, ReviewAssumption
  <2> HIDE DEF Better
  <2> QED BY <2>4, <2>5, TwoMembers
<1>2. Spec => [][Spares]_vars
  BY <1>1, ReviewSound, PTL DEF Spec
<1> QED BY <1>2 DEF PruneKeepsBest

=============================================================================
