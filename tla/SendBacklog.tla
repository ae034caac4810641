---------------------------- MODULE SendBacklog ----------------------------
(***************************************************************************)
(* The sending path of input events: E2EPipelineOrchestrator::processEvent *)
(* (integration) and TransportImpl::send (core/s05_transport), called by   *)
(* any number of threads while the link comes and goes.                    *)
(*                                                                         *)
(* backlog_ is not a queue length: a failed send adds one, a successful    *)
(* one takes one away.  It is updated without sendMutex_ when the link is  *)
(* known to be down and under it otherwise, and read again by the          *)
(* pipeline's back-pressure test, so the steps below are the accesses to   *)
(* it.  Events carry no data here; they are sent or they are not.          *)
(***************************************************************************)
EXTENDS Integers, FiniteSets

CONSTANTS
    Senders,       \* the threads that call processEvent
    NoSender,      \* the owner of a free mutex
    Threshold,     \* config_.backpressureThreshold
    CountModulus   \* bound: totalDroppedOldest_ is counted modulo this

ASSUME BacklogAssumption ==
    /\ IsFiniteSet(Senders)
    /\ NoSender \notin Senders
    /\ Threshold \in Nat
    /\ CountModulus \in Nat \ {0}

VARIABLES
    running,             \* E2EPipelineOrchestrator::running_
    connected,           \* TransportImpl::connected_
    sockOk,              \* the input socket takes data
    backlog,             \* TransportImpl::backlog_
    totalDroppedOldest,  \* events refused by the back-pressure test
    sendMutex,           \* its owner, or NoSender
    pc                   \* per sender: its place in processEvent / send

backlogVars == <<running, connected, sockOk, backlog, totalDroppedOldest, sendMutex, pc>>

BacklogInit ==
    /\ running = FALSE
    /\ connected = FALSE /\ sockOk = FALSE
    /\ backlog = 0 /\ totalDroppedOldest = 0
    /\ sendMutex = NoSender
    /\ pc = [s \in Senders |-> "idle"]

-----------------------------------------------------------------------------
(* The environment: the pipeline is started and stopped, the link changes. *)

PipelineStart ==
    /\ ~running
    /\ running' = TRUE
    /\ UNCHANGED <<connected, sockOk, backlog, totalDroppedOldest, sendMutex, pc>>

PipelineStop ==
    /\ running
    /\ running' = FALSE
    /\ UNCHANGED <<connected, sockOk, backlog, totalDroppedOldest, sendMutex, pc>>

LinkUp ==
    /\ ~(connected /\ sockOk)
    /\ connected' = TRUE /\ sockOk' = TRUE
    /\ UNCHANGED <<running, backlog, totalDroppedOldest, sendMutex, pc>>

(* The peer is gone: sends fail although connected_ still holds. *)
PeerGone ==
    /\ sockOk
    /\ sockOk' = FALSE
    /\ UNCHANGED <<running, connected, backlog, totalDroppedOldest, sendMutex, pc>>

Disconnect ==
    /\ connected
    /\ connected' = FALSE /\ sockOk' = FALSE
    /\ UNCHANGED <<running, backlog, totalDroppedOldest, sendMutex, pc>>

-----------------------------------------------------------------------------
(* E2EPipelineOrchestrator::processEvent.                                  *)

(* Back pressure: the new event is dropped and counted. *)
ProcessDrop(s) ==
    /\ pc[s] = "idle" /\ running
    /\ backlog > Threshold
    /\ totalDroppedOldest' = (totalDroppedOldest + 1) % CountModulus
    /\ UNCHANGED <<running, connected, sockOk, backlog, sendMutex, pc>>

(* Mutant: no back-pressure test. *)
ProcessSendAlways(s) ==
    /\ pc[s] = "idle" /\ running
    /\ pc' = [pc EXCEPT ![s] = "send"]
    /\ UNCHANGED <<running, connected, sockOk, backlog, totalDroppedOldest, sendMutex>>

ProcessSend(s) ==
    /\ pc[s] = "idle" /\ running
    /\ backlog <= Threshold
    /\ pc' = [pc EXCEPT ![s] = "send"]
    /\ UNCHANGED <<running, connected, sockOk, backlog, totalDroppedOldest, sendMutex>>

-----------------------------------------------------------------------------
(* TransportImpl::send(event).                                             *)

SendNotConnected(s) ==
    /\ pc[s] = "send" /\ ~connected
    /\ backlog' = backlog + 1
    /\ pc' = [pc EXCEPT ![s] = "idle"]
    /\ UNCHANGED <<running, connected, sockOk, totalDroppedOldest, sendMutex>>

(* connected_ was read as true; the event is serialised and the lock taken. *)
SendLock(s) ==
    /\ pc[s] = "send" /\ connected
    /\ sendMutex = NoSender
    /\ sendMutex' = s
    /\ pc' = [pc EXCEPT ![s] = "locked"]
    /\ UNCHANGED <<running, connected, sockOk, backlog, totalDroppedOldest>>

SendFails(s) ==
    /\ pc[s] = "locked" /\ ~sockOk
    /\ backlog' = backlog + 1
    /\ sendMutex' = NoSender
    /\ pc' = [pc EXCEPT ![s] = "idle"]
    /\ UNCHANGED <<running, connected, sockOk, totalDroppedOldest>>

SendDone(s) ==
    /\ pc[s] = "locked" /\ sockOk
    /\ pc' = [pc EXCEPT ![s] = "sent"]
    /\ UNCHANGED <<running, connected, sockOk, backlog, totalDroppedOldest, sendMutex>>

(* bl = backlog_.load(): with nothing to take away, send returns. *)
LoadZero(s) ==
    /\ pc[s] = "sent" /\ backlog = 0
    /\ sendMutex' = NoSender
    /\ pc' = [pc EXCEPT ![s] = "idle"]
    /\ UNCHANGED <<running, connected, sockOk, backlog, totalDroppedOldest>>

LoadPositive(s) ==
    /\ pc[s] = "sent" /\ backlog > 0
    /\ pc' = [pc EXCEPT ![s] = "sub"]
    /\ UNCHANGED <<running, connected, sockOk, backlog, totalDroppedOldest, sendMutex>>

(* backlog_.fetch_sub(1), some time after the load. *)
Subtract(s) ==
    /\ pc[s] = "sub"
    /\ backlog' = backlog - 1
    /\ sendMutex' = NoSender
    /\ pc' = [pc EXCEPT ![s] = "idle"]
    /\ UNCHANGED <<running, connected, sockOk, totalDroppedOldest>>

SendStep(s) == \/ SendNotConnected(s) \/ SendLock(s) \/ SendFails(s) \/ SendDone(s)
               \/ LoadZero(s) \/ LoadPositive(s) \/ Subtract(s)

Sender(s) == ProcessDrop(s) \/ ProcessSend(s) \/ SendStep(s)

Environment == PipelineStart \/ PipelineStop \/ LinkUp \/ PeerGone \/ Disconnect

BacklogNext == Environment \/ \E s \in Senders : Sender(s)

BacklogSpec == BacklogInit /\ [][BacklogNext]_backlogVars

(* Input goes on arriving at a running pipeline and a send that is not     *)
(* blocked proceeds.                                                       *)
BacklogFairSpec == BacklogSpec /\ \A s \in Senders : WF_backlogVars(Sender(s))

-----------------------------------------------------------------------------
(* Properties.                                                             *)

(* The senders that have passed the back-pressure test and may still fail. *)
InFlight == {s \in Senders : pc[s] \in {"send", "locked"}}

(* Every variable has its type; backlog_ in particular never wraps below 0. *)
BacklogTypeOK ==
    /\ running \in BOOLEAN /\ connected \in BOOLEAN /\ sockOk \in BOOLEAN
    /\ backlog \in Nat
    /\ totalDroppedOldest \in 0 .. CountModulus - 1
    /\ sendMutex \in Senders \cup {NoSender}
    /\ pc \in [Senders -> {"idle", "send", "locked", "sent", "sub"}]

(* sendMutex_ is held by the one sender between its lock and its return. *)
MutexInv ==
    \A s \in Senders : pc[s] \in {"locked", "sent", "sub"} => sendMutex = s

(* backlog_ is an unsigned count that is loaded, tested and then reduced   *)
(* in separate steps: it is still positive when it is reduced, however     *)
(* many threads send, so it never wraps.                                   *)
NoUnderflow == \A s \in Senders : pc[s] = "sub" => backlog > 0

(* Each sender in flight may add one more failure. *)
FlightInv == backlog + Cardinality(InFlight) <= Threshold + Cardinality(Senders)

(* The test and the send are not atomic, so back pressure sets in late,    *)
(* but by no more than one event per sending thread.                       *)
BacklogBounded == backlog <= Threshold + Cardinality(Senders)

(* The inductive invariant: one thread at a time is between lock and       *)
(* return, so no reduction meets an empty counter, and the backlog with    *)
(* the threads that may still add to it stays within its bound, however    *)
(* many threads pass the test of processEvent on the same old value.       *)
BacklogInv == BacklogTypeOK /\ MutexInv /\ NoUnderflow /\ FlightInv

(* Specification of a congested input plane: frames may be dropped but the *)
(* flow does not get stuck.  A backlog above the threshold goes down again *)
(* while the link is up and the pipeline runs.                             *)
BackPressureEnds ==
    (backlog > Threshold) ~> (backlog <= Threshold \/ ~(running /\ connected /\ sockOk))

=============================================================================
