----------------------------- MODULE CaptureTap -----------------------------
(***************************************************************************)
(* platform/mac: MacEventTap with its DualChannelSpsc, AuthoritativeResync *)
(* and CaptureHandleManager.  Three threads: the control thread calls      *)
(* start and stop, the main run loop calls the event-tap callback, and the *)
(* capture thread drains the two rings and repairs saturation.             *)
(*                                                                         *)
(* The rings are used through ChannelContract: the state ring is a FIFO    *)
(* that refuses when full, the data ring a FIFO that gives up its oldest   *)
(* item when full.  tryPop of the data ring may also fail while a push is  *)
(* rewriting the oldest slot (an odd or changed version in SpscRing); the  *)
(* state ring never rewrites an unread slot, so its tryPop fails only when *)
(* it is empty.                                                            *)
(***************************************************************************)
EXTENDS Integers, Sequences, SequencesExt

CONSTANTS
    StateCapacity,   \* SPSC_STATE_CAPACITY
    DataCapacity,    \* SPSC_DATA_CAPACITY
    CountModulus,    \* 2^32: activeCount_ is a u32
    MaxEvents,       \* bound: events the callback delivers
    MaxSessions      \* bound: calls of start

ASSUME CaptureAssumption ==
    /\ StateCapacity \in Nat \ {0}
    /\ DataCapacity \in Nat \ {0}
    /\ CountModulus \in Nat \ {0, 1}
    /\ MaxEvents \in Nat
    /\ MaxSessions \in Nat

VARIABLES
    tap,            \* state_: TapState
    installed,      \* eventTap_ and runLoopSource_ are set
    running,        \* captureThreadRunning_
    ctl,            \* control thread: "idle", or inside start / stop
    handle,         \* the caller's CaptureHandle: 0 or the id of an active one
    nextId, activeCount,          \* CaptureHandleManager
    cb,             \* callback: "idle", "flag" (push refused), "data" (pushing)
    stateQ, dataQ,  \* the rings, as sequences of event numbers
    saturated,      \* stateChannelSaturated_
    cap,            \* capture thread: its place in captureThreadLoop
    rs, bitmapStale,              \* AuthoritativeResync
    events,         \* number of events the callback has seen
    unsynced,       \* history: a state event was lost after the last ground-truth query
    episodeSynced,  \* history: ground truth was queried since saturated was raised
    due             \* history: state events in the ring when an active tap was stopped

ctlVars == <<tap, installed, running, ctl, handle, nextId, activeCount, due>>
ringVars == <<stateQ, dataQ>>
resyncVars == <<rs, bitmapStale>>
vars == <<ctlVars, cb, ringVars, saturated, cap, resyncVars, events, unsynced, episodeSynced>>

Init ==
    /\ tap = "Inactive" /\ installed = FALSE /\ running = FALSE /\ ctl = "idle"
    /\ handle = 0 /\ nextId = 1 /\ activeCount = 0
    /\ cb = "idle" /\ stateQ = <<>> /\ dataQ = <<>> /\ saturated = FALSE
    /\ cap = "off"
    /\ rs = "Idle" /\ bitmapStale = FALSE
    /\ events = 0 /\ unsynced = FALSE /\ episodeSynced = TRUE /\ due = {}

-----------------------------------------------------------------------------
(* Control thread.                                                         *)

(* start on a tap that is not Inactive returns an inactive handle and      *)
(* changes nothing: it is not an action.                                   *)

(* Permission refused, or the tap cannot be created: Degraded. *)
StartDegraded ==
    /\ ctl = "idle" /\ nextId <= MaxSessions
    /\ tap = "Inactive"
    /\ tap' = "Degraded"
    /\ handle' = 0
    /\ UNCHANGED <<installed, running, ctl, nextId, activeCount, due, cb, ringVars,
                   saturated, cap, resyncVars, events, unsynced, episodeSynced>>

(* Permission granted: the tap is live before the capture thread exists. *)
StartInstall ==
    /\ ctl = "idle" /\ nextId <= MaxSessions
    /\ tap = "Inactive"
    /\ installed' = TRUE
    /\ ctl' = "starting"
    /\ due' = {}
    /\ UNCHANGED <<tap, running, handle, nextId, activeCount, cb, ringVars,
                   saturated, cap, resyncVars, events, unsynced, episodeSynced>>

StartThread ==
    /\ ctl = "starting"
    /\ running' = TRUE
    /\ cap' = "loop"
    /\ ctl' = "started"
    /\ UNCHANGED <<tap, installed, handle, nextId, activeCount, due, cb, ringVars,
                   saturated, resyncVars, events, unsynced, episodeSynced>>

(* state_ = Active and CaptureHandleManager::acquire. *)
StartReturn ==
    /\ ctl = "started"
    /\ tap' = "Active"
    /\ handle' = nextId
    /\ nextId' = nextId + 1
    /\ activeCount' = (activeCount + 1) % CountModulus
    /\ ctl' = "idle"
    /\ UNCHANGED <<installed, running, due, cb, ringVars,
                   saturated, cap, resyncVars, events, unsynced, episodeSynced>>

(* CaptureHandleManager::release on stop's by-value copy of the handle:    *)
(* the caller's own handle is not touched and stays active.                *)
ReleaseHandle ==
    /\ activeCount' = IF handle # 0 THEN (activeCount - 1) % CountModulus ELSE activeCount
    /\ handle' = handle

(* stop on an Inactive tap only releases the handle. *)
StopInactive ==
    /\ ctl = "idle" /\ tap = "Inactive" /\ handle # 0
    /\ ReleaseHandle
    /\ UNCHANGED <<tap, installed, running, ctl, nextId, due, cb, ringVars,
                   saturated, cap, resyncVars, events, unsynced, episodeSynced>>

(* stop: release the handle, then ask the capture thread to end. *)
StopRequest ==
    /\ ctl = "idle" /\ tap # "Inactive"
    /\ ReleaseHandle
    /\ running' = FALSE
    /\ ctl' = "join"
    /\ due' = IF tap = "Active" THEN ToSet(stateQ) ELSE {}
    /\ UNCHANGED <<tap, installed, nextId, cb, ringVars,
                   saturated, cap, resyncVars, events, unsynced, episodeSynced>>

(* Mutant: the capture thread is detached instead of joined. *)
StopDetaches ==
    /\ ctl = "join"
    /\ ctl' = "uninstall"
    /\ UNCHANGED <<tap, installed, running, handle, nextId, activeCount, due, cb, ringVars,
                   saturated, cap, resyncVars, events, unsynced, episodeSynced>>

(* captureThread_.join() returns at once if no thread was started. *)
StopJoin ==
    /\ ctl = "join" /\ cap \in {"off", "exit"}
    /\ cap' = "off"
    /\ ctl' = "uninstall"
    /\ UNCHANGED <<tap, installed, running, handle, nextId, activeCount, due, cb, ringVars,
                   saturated, resyncVars, events, unsynced, episodeSynced>>

StopUninstall ==
    /\ ctl = "uninstall"
    /\ installed' = FALSE
    /\ tap' = "Inactive"
    /\ ctl' = "idle"
    /\ UNCHANGED <<running, handle, nextId, activeCount, due, cb, ringVars,
                   saturated, cap, resyncVars, events, unsynced, episodeSynced>>

Control == \/ StartDegraded \/ StartInstall \/ StartThread \/ StartReturn
           \/ StopInactive \/ StopRequest \/ StopJoin \/ StopUninstall

-----------------------------------------------------------------------------
(* Event-tap callback: cgEventCallback and DualChannelSpsc::enqueue.       *)

(* A key or button event that the state ring accepts. *)
CallbackState ==
    /\ installed /\ cb = "idle" /\ events < MaxEvents
    /\ Len(stateQ) < StateCapacity
    /\ stateQ' = Append(stateQ, events + 1)
    /\ events' = events + 1
    /\ UNCHANGED <<ctlVars, cb, dataQ, saturated, cap, resyncVars, unsynced, episodeSynced>>

(* ... that it refuses: the event is lost. *)
CallbackStateFull ==
    /\ installed /\ cb = "idle" /\ events < MaxEvents
    /\ Len(stateQ) = StateCapacity
    /\ events' = events + 1
    /\ unsynced' = TRUE
    /\ cb' = "flag"
    /\ UNCHANGED <<ctlVars, ringVars, saturated, cap, resyncVars, episodeSynced>>

(* ... and is marked, a moment later, for the capture thread. *)
CallbackFlag ==
    /\ cb = "flag"
    /\ saturated' = TRUE
    /\ episodeSynced' = (saturated /\ episodeSynced)
    /\ cb' = "idle"
    /\ UNCHANGED <<ctlVars, ringVars, cap, resyncVars, events, unsynced>>

(* A move or wheel event: tryPushDropOldest begins ... *)
CallbackData ==
    /\ installed /\ cb = "idle" /\ events < MaxEvents
    /\ events' = events + 1
    /\ cb' = "data"
    /\ UNCHANGED <<ctlVars, ringVars, saturated, cap, resyncVars, unsynced, episodeSynced>>

(* Mutant: a full ring keeps its oldest item. *)
CallbackDataKeeps ==
    /\ cb = "data"
    /\ dataQ' = Append(dataQ, events)
    /\ cb' = "idle"
    /\ UNCHANGED <<ctlVars, stateQ, saturated, cap, resyncVars, events, unsynced, episodeSynced>>

(* ... and publishes; a full ring has lost its oldest item. *)
CallbackDataDone ==
    /\ cb = "data"
    /\ dataQ' = Append(IF Len(dataQ) = DataCapacity THEN Tail(dataQ) ELSE dataQ, events)
    /\ cb' = "idle"
    /\ UNCHANGED <<ctlVars, stateQ, saturated, cap, resyncVars, events, unsynced, episodeSynced>>

Callback == \/ CallbackState \/ CallbackStateFull \/ CallbackFlag
            \/ CallbackData \/ CallbackDataDone

-----------------------------------------------------------------------------
(* Capture thread: captureThreadLoop.  An item popped is processed         *)
(* (normalised and handed to onEvent) before the next step.                *)

(* One tryPopState at place "at"; next is where the thread goes. *)
PopState(at, onItem, onEmpty) ==
    /\ cap = at
    /\ IF stateQ # <<>>
       THEN stateQ' = Tail(stateQ) /\ cap' = onItem
       ELSE stateQ' = stateQ /\ cap' = onEmpty
    /\ UNCHANGED <<ctlVars, cb, dataQ, saturated, resyncVars, events, unsynced, episodeSynced>>

(* One tryPopData. *)
PopData(at, onItem, onNone) ==
    /\ cap = at
    /\ \/ /\ dataQ # <<>>
          /\ dataQ' = Tail(dataQ) /\ cap' = onItem
       \/ /\ dataQ = <<>> \/ (cb = "data" /\ Len(dataQ) = DataCapacity)
          /\ dataQ' = dataQ /\ cap' = onNone
    /\ UNCHANGED <<ctlVars, cb, stateQ, saturated, resyncVars, events, unsynced, episodeSynced>>

(* Mutant: the loop does not look at captureThreadRunning_. *)
LoopForever ==
    /\ cap = "loop"
    /\ cap' = "popState"
    /\ UNCHANGED <<ctlVars, cb, ringVars, saturated, resyncVars, events, unsynced, episodeSynced>>

(* The test of captureThreadRunning_ at the top of the loop. *)
LoopTop ==
    /\ cap = "loop"
    /\ cap' = IF running THEN "popState" ELSE "lastState"
    /\ UNCHANGED <<ctlVars, cb, ringVars, saturated, resyncVars, events, unsynced, episodeSynced>>

LoopState == PopState("popState", "popData", "popData")

LoopData == PopData("popData", "check", "check")

(* Mutant: only the first episode is resynchronized. *)
LoopCheckOnce ==
    /\ cap = "check"
    /\ cap' = IF ~saturated THEN "loop" ELSE IF rs = "Idle" THEN "resync" ELSE "drain"
    /\ UNCHANGED <<ctlVars, cb, ringVars, saturated, resyncVars, events, unsynced, episodeSynced>>

(* isStateChannelSaturated, and whether this episode still needs a query. *)
LoopCheck ==
    /\ cap = "check"
    /\ cap' = IF ~saturated THEN "loop"
              ELSE IF rs \in {"Idle", "Recovered"} THEN "resync" ELSE "drain"
    /\ UNCHANGED <<ctlVars, cb, ringVars, saturated, resyncVars, events, unsynced, episodeSynced>>

(* AuthoritativeResync::resynchronize: Resynchronizing, query of the       *)
(* ground truth, stale bitmap, RecoveryPending.                            *)
Resynchronize ==
    /\ cap = "resync"
    /\ rs' = "RecoveryPending"
    /\ bitmapStale' = TRUE
    /\ unsynced' = FALSE
    /\ episodeSynced' = TRUE
    /\ cap' = "drain"
    /\ UNCHANGED <<ctlVars, cb, ringVars, saturated, events>>

DrainState == PopState("drain", "drain", "empty")

(* stateEmpty() and AuthoritativeResync::confirmRecovery. *)
CheckEmpty ==
    /\ cap = "empty"
    /\ IF stateQ # <<>>
       THEN cap' = "loop" /\ UNCHANGED resyncVars
       ELSE /\ cap' = "clear"
            /\ IF rs = "RecoveryPending"
               THEN rs' = "Recovered" /\ bitmapStale' = FALSE
               ELSE UNCHANGED resyncVars
    /\ UNCHANGED <<ctlVars, cb, ringVars, saturated, events, unsynced, episodeSynced>>

(* Mutant: the mark is not withdrawn. *)
ClearForgotten ==
    /\ cap = "clear"
    /\ cap' = "loop"
    /\ UNCHANGED <<ctlVars, cb, ringVars, saturated, resyncVars, events, unsynced, episodeSynced>>

(* clearStateChannelSaturated(). *)
ClearSaturated ==
    /\ cap = "clear"
    /\ saturated' = FALSE
    /\ cap' = "loop"
    /\ UNCHANGED <<ctlVars, cb, ringVars, resyncVars, events, unsynced, episodeSynced>>

(* Mutant: the last pass takes one state event only. *)
LastStateOne == PopState("lastState", "lastData", "lastData")

(* After the loop: drain the state ring, then the data ring, then end. *)
LastState == PopState("lastState", "lastState", "lastData")

LastData == PopData("lastData", "lastData", "exit")

Capture == \/ LoopTop \/ LoopState \/ LoopData \/ LoopCheck \/ Resynchronize \/ DrainState
           \/ CheckEmpty \/ ClearSaturated \/ LastState \/ LastData

Next == Control \/ Callback \/ Capture

Spec == Init /\ [][Next]_vars

(* A stop or start that was entered goes on, a callback that was entered   *)
(* returns, and the operating system schedules the capture thread.         *)
FairSpec == /\ Spec
            /\ WF_vars(StartThread \/ StartReturn \/ StopJoin \/ StopUninstall)
            /\ WF_vars(CallbackFlag \/ CallbackDataDone)
            /\ WF_vars(Capture)

-----------------------------------------------------------------------------
(* Properties.                                                             *)

(* Every variable holds a value of its C++ type; the rings stay in bounds. *)
TypeOK ==
    /\ tap \in {"Inactive", "Active", "Degraded"}
    /\ installed \in BOOLEAN /\ running \in BOOLEAN
    /\ ctl \in {"idle", "starting", "started", "join", "uninstall"}
    /\ handle \in Nat /\ nextId \in Nat \ {0} /\ activeCount \in 0 .. CountModulus - 1
    /\ cb \in {"idle", "flag", "data"}
    /\ stateQ \in Seq(1 .. MaxEvents) /\ Len(stateQ) <= StateCapacity
    /\ dataQ \in Seq(1 .. MaxEvents) /\ Len(dataQ) <= DataCapacity
    /\ saturated \in BOOLEAN
    /\ cap \in {"off", "loop", "popState", "popData", "check", "resync", "drain",
                "empty", "clear", "lastState", "lastData", "exit"}
    /\ rs \in {"Idle", "RecoveryPending", "Recovered"} /\ bitmapStale \in BOOLEAN
    /\ events \in 0 .. MaxEvents
    /\ unsynced \in BOOLEAN /\ episodeSynced \in BOOLEAN
    /\ due \in SUBSET (1 .. MaxEvents)
    /\ cb = "data" => events # 0

(* What the control thread knows of the tap and of the capture thread at   *)
(* each of its places; a running capture thread is not in its last pass.   *)
PhaseInv ==
    /\ running => cap \notin {"off", "lastState", "lastData", "exit"}
    /\ ctl = "idle" => /\ installed <=> tap = "Active"
                       /\ running <=> tap = "Active"
                       /\ cap # "off" <=> tap = "Active"
    /\ ctl = "starting" => tap = "Inactive" /\ installed /\ ~running /\ cap = "off"
    /\ ctl = "started" => tap = "Inactive" /\ installed /\ running
    /\ ctl = "join" => /\ tap # "Inactive" /\ ~running
                       /\ cap # "off" <=> tap = "Active"
    /\ ctl = "uninstall" => ~running /\ cap = "off"

(* Events are numbered as they come, so those that arrive while stop runs  *)
(* are not due; those that are due leave the ring before the thread is     *)
(* done with its last pass over it.                                        *)
DueInv ==
    /\ ToSet(stateQ) \subseteq 1 .. events /\ due \subseteq 1 .. events
    /\ \/ ctl = "idle" /\ tap = "Inactive"
       \/ ctl = "uninstall"
       \/ ctl = "join" /\ cap \in {"off", "lastData", "exit"}
       => due \cap ToSet(stateQ) = {}
    /\ ctl = "join" /\ tap = "Degraded" => due = {}

(* From the test of the saturation mark to its withdrawal the capture      *)
(* thread has seen the mark raised, and a query pending confirmation was   *)
(* made in the present episode.                                            *)
EpisodeInv ==
    /\ cap \in {"resync", "drain", "empty", "clear"} => saturated
    /\ cap \in {"drain", "empty", "clear"} => episodeSynced
    /\ rs = "RecoveryPending" => saturated /\ episodeSynced
    /\ cap = "clear" => rs # "RecoveryPending"

(* Together these explain the tap: between start and stop, during the last *)
(* pass, and during the repair of a saturation.                            *)
CaptureInv == TypeOK /\ PhaseInv /\ DueInv /\ EpisodeInv

(* Between calls the tap owns its event tap and its thread exactly when it *)
(* is Active: no refused start, repeated stop or restart leaks one of them *)
(* or leaves a capture thread running on a tap that was uninstalled.       *)
NoLeak ==
    ctl = "idle" =>
        /\ installed <=> tap = "Active"
        /\ running <=> tap = "Active"
        /\ cap # "off" <=> tap = "Active"

(* Every key or button event the state ring held when an active tap was   *)
(* stopped has been processed when stop returns, although the callback     *)
(* goes on filling both rings while the capture thread makes its last pass.*)
StopDelivers == ctl = "idle" /\ tap = "Inactive" => due \cap ToSet(stateQ) = {}

(* The saturation mark is withdrawn only after a ground-truth query made   *)
(* since it was raised: no saturation episode ends unrepaired, the second  *)
(* and later ones included.                                                *)
EpisodesAreRepaired == [][saturated /\ ~saturated' => episodeSynced]_vars

(* A saturated tap does not stay saturated: the capture thread gets the    *)
(* ring empty and withdraws the mark, unless the session ends first.       *)
SaturationEnds == saturated ~> (~saturated \/ cap = "off")

(* stop() returns: although the tap is uninstalled only after the join, a  *)
(* bounded stream of events cannot keep the capture thread in its loops.   *)
StopReturns == (ctl = "join") ~> (ctl = "idle")

(* Design: a full state ring leads to an authoritative resynchronization.  *)
(* In state form: while a lost state event has not been made good by a     *)
(* ground-truth query, the mark that asks for one is up (or going up).     *)
NoSilentLoss == unsynced => saturated \/ cb = "flag"

=============================================================================
