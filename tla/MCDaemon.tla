------------------------------ MODULE MCDaemon ------------------------------
(* Three parts of the daemon on small instances: the listener of the room, *)
(* the detection of answers in a closed window, and the queue for the LLM. *)
(* They share no variable, and no property speaks of two of them, so each  *)
(* is explored while the others rest in one initial state: the sum of the  *)
(* three, not the product.                                                 *)
(*                                                                         *)
(* Room: up to four listener threads, any faults.  Detect: the author of   *)
(* the clue and a solver, windows of up to two messages, and one message   *)
(* of every sort that detect tells apart where the enumeration is (4),     *)
(* (2, 2), (2-2) or (1).  LlmQueue: two windows, which may overlap, two    *)
(* messages, one of them poison, batches of two.                           *)
EXTENDS LlmQueue, Room, Detect

Text(words) == [words |-> words, confirms |-> "no", digest |-> 0]

Contents ==
  {Text(<<[up |-> 4, low |-> 0]>>),                        \* FROG
   Text(<<[up |-> 0, low |-> 4]>>),                        \* frog
   Text(<<[up |-> 3, low |-> 0]>>),                        \* FRO
   Text(<<[up |-> 1, low |-> 0]>>),                        \* A
   Text(<<[up |-> 1, low |-> 0], [up |-> 4, low |-> 0]>>), \* I FROG
   Text(<<[up |-> 2, low |-> 1], [up |-> 0, low |-> 1]>>), \* FRo g
   Text(<<[up |-> 0, low |-> 2], [up |-> 0, low |-> 2]>>), \* fr og
   Text(<<[up |-> 0, low |-> 5], [up |-> 0, low |-> 1], [up |-> 0, low |-> 1]>>),
   [words |-> <<[up |-> 0, low |-> 4]>>, confirms |-> "whole", digest |-> 0],   \* nice
   [words |-> <<[up |-> 0, low |-> 3], [up |-> 4, low |-> 0]>>,
    confirms |-> "in", digest |-> 0],                                           \* yes FROG
   [words |-> <<[up |-> 4, low |-> 1]>>, confirms |-> "no", digest |-> 4]}      \* CCCCa md5 ...

Plain  == {[parts |-> p, hyphen |-> FALSE] : p \in {<<4>>, <<2, 2>>, <<1>>}}
Hyphen == [parts |-> <<2, 2>>, hyphen |-> TRUE]

Enumerations == Plain \cup {Hyphen}

-----------------------------------------------------------------------------
DetectRests == DetectInit /\ enumeration = CHOOSE e \in Enumeration : TRUE

(* a room whose listener was halted, and none of whose threads is left *)
RoomRests ==
  /\ faults = {} /\ pc = [t \in Thread |-> IF t = First THEN "dead" ELSE "none"]
  /\ running = FALSE /\ current = First
  /\ socket = "closed" /\ stale = FALSE
  /\ halter = "idle" /\ halts = Halts + 1

DaemonInit == \/ Init /\ RoomRests /\ DetectRests
              \/ Init /\ RoomInit /\ DetectRests
              \/ Init /\ RoomRests /\ DetectInit

QueueStep  == RoomRests /\ DetectRests /\ UNCHANGED <<roomVars, detectVars>>
RoomStep   == Init /\ DetectRests /\ UNCHANGED <<vars, detectVars>>
DetectStep == Init /\ RoomRests /\ UNCHANGED <<vars, roomVars>>

(* the disjuncts of Next, RoomNext and DetectNext, one by one *)
DaemonNext ==
  \/ QueueStep /\ Drain
  \/ QueueStep /\ Answer
  \/ QueueStep /\ Unavailable
  \/ QueueStep /\ Error
  \/ QueueStep /\ Commit
  \/ QueueStep /\ Probe
  \/ QueueStep /\ \E msgs \in SUBSET Message : StartWindow(msgs)
  \/ QueueStep /\ \E w \in Window : SelectCandidates(w)
  \/ QueueStep /\ \E w \in Window : SelectTasks(w)
  \/ QueueStep /\ \E w \in Window : Enqueue(w)
  \/ QueueStep /\ \E i \in DOMAIN tasks : DeleteClue(i)
  \/ QueueStep /\ Crash
  \/ RoomStep /\ \E t \in Thread : Begin(t)
  \/ RoomStep /\ \E t \in Thread : Loop(t)
  \/ RoomStep /\ \E t \in Thread : RecvNothing(t)
  \/ RoomStep /\ \E t \in Thread : RecvEvents(t)
  \/ RoomStep /\ \E t \in Thread : RecvEmpty(t)
  \/ RoomStep /\ \E t \in Thread : RecvClosed(t)
  \/ RoomStep /\ \E t \in Thread : RecvError(t)
  \/ RoomStep /\ \E t \in Thread : ReconnectFails(t)
  \/ RoomStep /\ \E t \in Thread : Reconnect(t)
  \/ RoomStep /\ \E t \in Thread : Leave(t)
  \/ RoomStep /\ Clear
  \/ RoomStep /\ LeaveAllRooms
  \/ RoomStep /\ Join
  \/ RoomStep /\ Joined
  \/ RoomStep /\ Drop
  \/ RoomStep /\ Age
  \/ DetectStep /\ \E content \in Content, user \in User,
                       parent \in {None, Clue} \cup DOMAIN window :
                     Post(content, user, parent)
  \/ DetectStep /\ \E user \in User \cup {None} : Close(user)
  \/ DetectStep /\ Process

(* At rest no action that either fairness is about is enabled. *)
DaemonSpec == /\ DaemonInit /\ [][DaemonNext]_<<vars, roomVars, detectVars>>
              /\ Fairness /\ RoomFairness
=============================================================================
