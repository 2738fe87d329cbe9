-------------------------------- MODULE Room --------------------------------
(***************************************************************************)
(* The listener of a chat room: class Room of the vendored sechat library. *)
(* A thread receives from the websocket, reconnects when the connection is *)
(* lost, and stops when halt clears `running'.  connect starts a thread of *)
(* its own unless `running' is set.  The daemon calls halt at shutdown,    *)
(* and when its process exits, leaveAllRooms of class Bot stops the room   *)
(* once more.  The threads, the caller of halt, and the network interleave *)
(* between any two of these steps.                                         *)
(***************************************************************************)
EXTENDS Integers, FiniteSets

CONSTANTS
  Thread,    \* listener threads that may come to be started
  First,     \* the one that joinRoom starts
  Halts      \* how often halt is called before the process exits

ASSUME RoomAssumption ==
  /\ First \in Thread /\ Halts \in Nat
  /\ Thread \cap {"idle", "clearing"} = {}

(* ws-auth answers without a url; an event has no type; recv fails in some *)
(* other way than by a closed connection; a connection dies without being  *)
(* closed                                                                  *)
Fault == {"refusal", "malformed", "error", "silent"}

VARIABLES
  faults,    \* the faults that may occur, fixed in every behaviour
  pc,        \* where each thread is; "none": not started
  running,   \* Room.running
  current,   \* Room.thread, the last one started
  socket,    \* "open", "lost" (closed by the peer), "silent" or "closed" (by us)
  stale,     \* more than 60 s since lastPing
  halter,    \* the caller of halt: "idle", "clearing", or the thread it joins
  halts      \* calls of halt so far, that of leaveAllRooms included

roomVars == <<faults, pc, running, current, socket, stale, halter, halts>>

Goto(t, l) == pc' = [pc EXCEPT ![t] = l]

Alive(t) == pc[t] \notin {"none", "dead"}

-----------------------------------------------------------------------------
(* Room.run *)

Begin(t) ==
  /\ pc[t] = "start"
  /\ running' = TRUE
  /\ Goto(t, "loop")
  /\ UNCHANGED <<faults, current, socket, stale, halter, halts>>

(* Mutant: `while True' *)
LoopForever(t) ==
  /\ pc[t] = "loop"
  /\ Goto(t, "recv")
  /\ UNCHANGED <<faults, running, current, socket, stale, halter, halts>>

Loop(t) ==
  /\ pc[t] = "loop"
  /\ Goto(t, IF running THEN "recv" ELSE "leave")
  /\ UNCHANGED <<faults, running, current, socket, stale, halter, halts>>

(* nothing for two seconds, or a frame that is no JSON: `continue', past   *)
(* the check of lastPing                                                   *)
RecvNothing(t) ==
  /\ pc[t] = "recv" /\ socket \in {"open", "silent"}
  /\ Goto(t, "loop")
  /\ UNCHANGED <<faults, running, current, socket, stale, halter, halts>>

(* a frame with events: they are handled, unless one has no type           *)
RecvEvents(t) ==
  /\ pc[t] = "recv" /\ socket = "open"
  /\ stale' = FALSE
  /\ \/ Goto(t, "loop")
     \/ "malformed" \in faults /\ Goto(t, "dead")
  /\ UNCHANGED <<faults, running, current, socket, halter, halts>>

(* an empty frame: only here can lastPing be found too old *)
RecvEmpty(t) ==
  /\ pc[t] = "recv" /\ socket = "open"
  /\ IF stale THEN socket' = "closed" /\ Goto(t, "reconnect")
              ELSE UNCHANGED socket /\ Goto(t, "loop")
  /\ UNCHANGED <<faults, running, current, stale, halter, halts>>

RecvClosed(t) ==
  /\ pc[t] = "recv" /\ socket \in {"lost", "closed"}
  /\ socket' = "closed"
  /\ Goto(t, "reconnect")
  /\ UNCHANGED <<faults, running, current, stale, halter, halts>>

(* any other exception ends the thread, this time with `running' cleared,  *)
(* unless the request to leave the room raises before that                 *)
RecvError(t) ==
  /\ pc[t] = "recv" /\ "error" \in faults /\ socket \in {"open", "silent"}
  /\ socket' = "closed" /\ running' \in {FALSE, running}
  /\ Goto(t, "dead")
  /\ UNCHANGED <<faults, current, stale, halter, halts>>

(* Mutant: upstream's bare connect, whose ConnectionError ends the thread *)
ReconnectFailsBare(t) ==
  /\ pc[t] = "reconnect"
  /\ Goto(t, "dead")
  /\ UNCHANGED <<faults, running, current, socket, stale, halter, halts>>

(* ConnectionError is caught and retried; the KeyError of a ws-auth answer *)
(* without url is not                                                      *)
ReconnectFails(t) ==
  /\ pc[t] = "reconnect"
  /\ \/ Goto(t, "loop")
     \/ "refusal" \in faults /\ Goto(t, "dead")
  /\ UNCHANGED <<faults, running, current, socket, stale, halter, halts>>

(* Mutant: every connect starts a thread *)
StartsAlways == TRUE

(* whether connect starts a thread *)
Starts == ~running

Unused == {t \in Thread : pc[t] = "none"}
New    == CHOOSE t \in Unused : TRUE

Reconnect(t) ==
  /\ pc[t] = "reconnect"
  /\ socket' = "open" /\ stale' = FALSE
  /\ IF Starts
     THEN /\ Unused # {}
          /\ pc' = [pc EXCEPT ![t] = "loop", ![New] = "start"]
          /\ current' = New
     ELSE Goto(t, "loop") /\ UNCHANGED current
  /\ UNCHANGED <<faults, running, halter, halts>>

(* leave the room and close the socket, whoever uses it *)
Leave(t) ==
  /\ pc[t] = "leave"
  /\ socket' = "closed"
  /\ Goto(t, "dead")
  /\ UNCHANGED <<faults, running, current, stale, halter, halts>>

Run(t) == \/ Begin(t) \/ Loop(t) \/ RecvNothing(t) \/ RecvEvents(t) \/ RecvEmpty(t)
          \/ RecvClosed(t) \/ RecvError(t) \/ ReconnectFails(t) \/ Reconnect(t) \/ Leave(t)

-----------------------------------------------------------------------------
(* Room.halt *)

(* `if self.running: self.running = False'; otherwise nothing is done *)
Clear ==
  /\ halter = "idle" /\ halts < Halts
  /\ halts' = halts + 1
  /\ IF running THEN running' = FALSE /\ halter' = "clearing"
                ELSE UNCHANGED <<running, halter>>
  /\ UNCHANGED <<faults, pc, current, socket, stale>>

(* leaveAllRooms, registered with atexit: halt(False), and then a join     *)
(* whether or not `running' was set                                        *)
LeaveAllRooms ==
  /\ halter = "idle" /\ halts = Halts
  /\ halts' = halts + 1
  /\ running' = FALSE /\ halter' = "clearing"
  /\ UNCHANGED <<faults, pc, current, socket, stale>>

(* self.thread.join() *)
Join ==
  /\ halter = "clearing"
  /\ halter' = current
  /\ UNCHANGED <<faults, pc, running, current, socket, stale, halts>>

Joined ==
  /\ halter \in Thread /\ ~Alive(halter)
  /\ halter' = "idle"
  /\ UNCHANGED <<faults, pc, running, current, socket, stale, halts>>

Halt == Clear \/ LeaveAllRooms \/ Join \/ Joined

-----------------------------------------------------------------------------
(* The network, and time *)

Drop ==
  /\ socket = "open"
  /\ socket' \in {"lost"} \cup ({"silent"} \cap faults)
  /\ UNCHANGED <<faults, pc, running, current, stale, halter, halts>>

Age ==
  /\ ~stale
  /\ stale' = TRUE
  /\ UNCHANGED <<faults, pc, running, current, socket, halter, halts>>

RoomInit ==
  /\ faults \in SUBSET Fault
  /\ pc = [t \in Thread |-> IF t = First THEN "start" ELSE "none"]
  /\ running = FALSE
  /\ current = First
  /\ socket = "open" /\ stale = FALSE
  /\ halter = "idle" /\ halts = 0

RoomNext == (\E t \in Thread : Run(t)) \/ Halt \/ Drop \/ Age

(* The threads are scheduled, halt's caller too; an attempt to connect     *)
(* that is repeated for ever succeeds some time, and a socket is read      *)
(* to the end.                                                             *)
RoomFairness == /\ \A t \in Thread : WF_roomVars(Run(t))
                /\ SF_roomVars(\E t \in Thread : Reconnect(t))
                /\ WF_roomVars(Join \/ Joined)

RoomSpec == RoomInit /\ [][RoomNext]_roomVars /\ RoomFairness

-----------------------------------------------------------------------------
(* Correctness *)

Listeners == {t \in Thread : Alive(t)}

(* Without a call of halt a room never has two listeners.  A call may      *)
(* leave a second one, where a reconnect finds `running' cleared, but no   *)
(* third; nor do more calls, unless an exception ends a listener and lets  *)
(* halt return while two are left.  They share the socket, and would       *)
(* handle events concurrently.  And unless an exception that run does not  *)
(* catch ends it, the last one to end leaves no connection behind.         *)
ListenerPerHalt ==
  /\ halts = 0 => Cardinality(Listeners) <= 1
  /\ halts <= 1 \/ faults \subseteq {"silent"} => Cardinality(Listeners) <= 2
  /\ Listeners = {} /\ faults \cap {"refusal", "malformed"} = {} => socket = "closed"

(* "A failed reconnect must NOT kill the listener thread": a room whose    *)
(* connection is closed gets a new one, however many attempts fail, unless *)
(* it is halted.  Not so when an unexpected error of recv ends the thread; *)
(* when ws-auth answers without a url, which connect reads outside its     *)
(* try; and a connection that dies silently is not replaced, for the       *)
(* `continue' after a timeout skips the check of lastPing.                 *)
Reconnects == faults = {} => []<>(socket = "open" \/ ~running)

(* "Shut down the room": halt returns, the listener having ended, unless a *)
(* reconnect finds `running' cleared and starts a thread that sets it      *)
(* again; then it may wait for ever.  So does the process at its exit, if  *)
(* the thread it joins had not begun when `running' was cleared.           *)
HaltReturns == []<>(halter = "idle" \/ running)

=============================================================================
