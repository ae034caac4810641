------------------------- MODULE ResyncCoordinator -------------------------
(***************************************************************************)
(* DisconnectResyncCoordinator (integration): notices of the link open and *)
(* shut the gate isInputAllowed.                                           *)
(*                                                                         *)
(* The transport calls the handler from the application's thread and from  *)
(* its receive thread, and holds handlerMutex_ meanwhile: one notice is    *)
(* handled at a time.  A thread changes the link before it asks for the    *)
(* mutex, so notices may be handled in another order than the changes they *)
(* tell of.  The steps of a handler are the accesses to state_, which the  *)
(* input path reads at any time.  The functions the coordinator is given   *)
(* (release, trigger, confirm) are external; the counters and the observer *)
(* are left out.  So is onReconnecting: the transport never sends          *)
(* Connecting, and no notice finds the gate at Disconnected.               *)
(***************************************************************************)
EXTENDS Integers

CONSTANT NoticeThreads   \* the threads that deliver notices

VARIABLES
    gate,         \* state_
    gateStarted,  \* started_
    link,         \* linkUp_ of the transport, as "up" or "down"
    due,          \* per thread: the state it has to tell of until its handler has ended, or "none"
    handling,     \* per thread: "idle", or where its handler is
    believed,     \* history: the state the last notice that was handled told of
    confirmed,    \* history: the last recovery was confirmed, or there was none
    settled       \* history: the last notice was heard, and the link was as it said

gateVars == <<gate, gateStarted, link, due, handling, believed, confirmed, settled>>

GateInit ==
    /\ gate = "Connected" /\ gateStarted = FALSE
    /\ link = "down" /\ due = [t \in NoticeThreads |-> "none"]
    /\ handling = [t \in NoticeThreads |-> "idle"]
    /\ believed = "none" /\ confirmed = TRUE /\ settled = FALSE

isInputAllowed == gate = "Connected"

HandlerMutexFree == \A t \in NoticeThreads : handling[t] = "idle"
NothingDue == \A t \in NoticeThreads : due[t] = "none"
At(t, place) == handling' = [handling EXCEPT ![t] = place]
Told(t) == due' = [due EXCEPT ![t] = "none"]
Hears(t) == believed' = due[t] /\ settled' = (due[t] = link)

(* onLinkState, which start calls, takes the mutex as well. *)
GateStart ==
    /\ ~gateStarted /\ HandlerMutexFree /\ gateStarted' = TRUE
    /\ UNCHANGED <<gate, link, due, handling, believed, confirmed, settled>>

GateStop ==
    /\ gateStarted /\ gateStarted' = FALSE
    /\ UNCHANGED <<gate, link, due, handling, believed, confirmed, settled>>

(* The transport: a thread sets linkUp_ and goes on to notifyLinkState. *)
LinkChanges(t, state) ==
    /\ due[t] = "none"
    /\ link' = state /\ due' = [due EXCEPT ![t] = state]
    /\ UNCHANGED <<gate, gateStarted, handling, believed, confirmed, settled>>

(* handleLinkState of a coordinator that is not started. *)
NoticeIgnored(t) ==
    /\ due[t] # "none" /\ HandlerMutexFree /\ ~gateStarted
    /\ Told(t) /\ settled' = FALSE
    /\ UNCHANGED <<gate, gateStarted, link, handling, believed, confirmed>>

(* onDisconnected, for Disconnected and for Lost. *)
onDisconnected(t) ==
    /\ due[t] = "down" /\ HandlerMutexFree /\ gateStarted
    /\ gate' = "Disconnected" /\ At(t, "down") /\ Hears(t)
    /\ UNCHANGED <<gateStarted, link, due, confirmed>>

(* It has released what is pressed and triggered a resync. *)
DownEnds(t) ==
    /\ handling[t] = "down"
    /\ gate' = "Reconnecting" /\ At(t, "idle") /\ Told(t)
    /\ UNCHANGED <<gateStarted, link, believed, confirmed, settled>>

(* onConnected; with the gate open it returns at once. *)
onConnected(t) ==
    /\ due[t] = "up" /\ HandlerMutexFree /\ gateStarted
    /\ Hears(t)
    /\ \/ isInputAllowed /\ Told(t) /\ UNCHANGED handling
       \/ ~isInputAllowed /\ At(t, "up") /\ UNCHANGED due
    /\ UNCHANGED <<gate, gateStarted, link, confirmed>>

UpResyncs(t) ==
    /\ handling[t] = "up"
    /\ gate' = "Resync" /\ At(t, "resync")
    /\ UNCHANGED <<gateStarted, link, due, believed, confirmed, settled>>

(* Mutant: the answer of confirmRecovery is not looked at. *)
UpEndsAnyway(t, ok) ==
    /\ handling[t] = "resync"
    /\ gate' = "Connected" /\ At(t, "idle") /\ Told(t)
    /\ confirmed' = ok
    /\ UNCHANGED <<gateStarted, link, believed, settled>>

(* confirmRecovery has answered. *)
UpEnds(t, ok) ==
    /\ handling[t] = "resync"
    /\ gate' = (IF ok THEN "Connected" ELSE "Recovery") /\ At(t, "idle") /\ Told(t)
    /\ confirmed' = ok
    /\ UNCHANGED <<gateStarted, link, believed, settled>>

GateNext ==
    \/ GateStart \/ GateStop
    \/ \E t \in NoticeThreads :
          \/ \E state \in {"up", "down"} : LinkChanges(t, state)
          \/ NoticeIgnored(t) \/ onDisconnected(t) \/ DownEnds(t) \/ onConnected(t) \/ UpResyncs(t)
          \/ \E ok \in BOOLEAN : UpEnds(t, ok)

GateSpec == GateInit /\ [][GateNext]_gateVars

(* Between two notices, input is allowed just when the last one told of a  *)
(* connection, or there was none, and the last recovery was confirmed:     *)
(* whatever was missed while the coordinator was stopped.  And once every  *)
(* change has been told, that is how the link is, unless the notice heard  *)
(* last was overtaken by a later one.                                      *)
GateHonest ==
    HandlerMutexFree =>
        /\ isInputAllowed <=> believed # "down" /\ confirmed
        /\ NothingDue /\ settled => (isInputAllowed <=> link = "up" /\ confirmed)

=============================================================================
