-------------------------- MODULE CaptureTapProofs --------------------------
(***************************************************************************)
(* Proofs about CaptureTap, for rings of any capacity and any number of    *)
(* events and sessions: what start and stop own, what stop delivers, and   *)
(* that no saturation episode ends without a ground-truth query.           *)
(***************************************************************************)
EXTENDS CaptureTap, TLAPS

USE CaptureAssumption

-----------------------------------------------------------------------------
(* Operators.                                                              *)

(* A counter of w bits stays in its range when it is increased or          *)
(* decreased, zero and the maximum included.                               *)
LEMMA WrapsInRange ==
    ASSUME NEW a \in Int
    PROVE  a % CountModulus \in 0 .. CountModulus - 1
  OBVIOUS

(* A pop leaves no element that was not there.                             *)
LEMMA TailShrinks ==
    ASSUME NEW S, NEW s \in Seq(S), s # <<>>
    PROVE  /\ Tail(s) \in Seq(S) /\ Len(Tail(s)) = Len(s) - 1
           /\ ToSet(Tail(s)) \subseteq ToSet(s)
  BY DEF ToSet

(* A push adds one element.                                                *)
LEMMA AppendAdds ==
    ASSUME NEW S, NEW s \in Seq(S), NEW e \in S
    PROVE  /\ Append(s, e) \in Seq(S) /\ Len(Append(s, e)) = Len(s) + 1
           /\ ToSet(Append(s, e)) \subseteq ToSet(s) \cup {e}
  BY DEF ToSet

(* The elements of the empty ring.                                         *)
LEMMA EmptyHasNone == ToSet(<<>>) = {}
  BY DEF ToSet

-----------------------------------------------------------------------------
(* The capture thread's places.                                            *)
Places == {"off", "loop", "popState", "popData", "check", "resync", "drain",
           "empty", "clear", "lastState", "lastData", "exit"}

(* A fresh tap.                                                            *)
LEMMA InvInit == Init => CaptureInv
  <1> SUFFICES ASSUME Init PROVE CaptureInv
    OBVIOUS
  <1>1. TypeOK
    <2>1. /\ installed \in BOOLEAN /\ running \in BOOLEAN /\ saturated \in BOOLEAN
          /\ bitmapStale \in BOOLEAN /\ unsynced \in BOOLEAN /\ episodeSynced \in BOOLEAN
      BY DEF Init
    <2>2. /\ handle \in Nat /\ nextId \in Nat \ {0} /\ activeCount \in 0 .. CountModulus - 1
          /\ events \in 0 .. MaxEvents /\ due \in SUBSET (1 .. MaxEvents)
      BY DEF Init
    <2>3. /\ stateQ \in Seq(1 .. MaxEvents) /\ Len(stateQ) <= StateCapacity
          /\ dataQ \in Seq(1 .. MaxEvents) /\ Len(dataQ) <= DataCapacity
      BY DEF Init
    <2> QED
      BY <2>1, <2>2, <2>3 DEF Init, TypeOK
  <1>2. PhaseInv /\ EpisodeInv
    BY DEF Init, PhaseInv, EpisodeInv
  <1>3. DueInv
    BY EmptyHasNone DEF Init, DueInv
  <1> QED
    BY <1>1, <1>2, <1>3 DEF CaptureInv

-----------------------------------------------------------------------------
(* Types.                                                                  *)

(* The type invariant in three parts: what the control thread writes, the  *)
(* rings, and what the callback and the capture thread write besides.      *)
ControlTypes ==
    /\ tap \in {"Inactive", "Active", "Degraded"}
    /\ installed \in BOOLEAN /\ running \in BOOLEAN
    /\ ctl \in {"idle", "starting", "started", "join", "uninstall"}
    /\ handle \in Nat /\ nextId \in Nat \ {0} /\ activeCount \in 0 .. CountModulus - 1
    /\ due \in SUBSET (1 .. MaxEvents)

RingTypes ==
    /\ stateQ \in Seq(1 .. MaxEvents) /\ Len(stateQ) <= StateCapacity
    /\ dataQ \in Seq(1 .. MaxEvents) /\ Len(dataQ) <= DataCapacity

ThreadTypes ==
    /\ cb \in {"idle", "flag", "data"} /\ cap \in Places
    /\ saturated \in BOOLEAN
    /\ rs \in {"Idle", "RecoveryPending", "Recovered"} /\ bitmapStale \in BOOLEAN
    /\ events \in 0 .. MaxEvents
    /\ unsynced \in BOOLEAN /\ episodeSynced \in BOOLEAN
    /\ cb = "data" => events # 0

(* The parts make the whole.                                               *)
LEMMA TypeParts == TypeOK <=> ControlTypes /\ RingTypes /\ ThreadTypes
  BY DEF TypeOK, ControlTypes, RingTypes, ThreadTypes, Places

(* start and stop.                                                         *)
LEMMA ControlTypeStep ==
    ASSUME ControlTypes, RingTypes, ThreadTypes, Control
    PROVE  ControlTypes' /\ RingTypes' /\ ThreadTypes'
  <1>1. RingTypes'
    BY DEF Control, StartDegraded, StartInstall, StartThread, StartReturn, StopInactive,
           StopRequest, StopJoin, StopUninstall, RingTypes, ringVars
  <1>2. ThreadTypes'
    BY DEF Control, StartDegraded, StartInstall, StartThread, StartReturn, StopInactive,
           StopRequest, StopJoin, StopUninstall, ThreadTypes, Places, resyncVars
  <1>3. ReleaseHandle => handle' \in Nat /\ activeCount' \in 0 .. CountModulus - 1
    BY WrapsInRange DEF ReleaseHandle, ControlTypes
  <1>4. CASE StartDegraded \/ StartInstall \/ StartThread
    <2>1. due' \in SUBSET (1 .. MaxEvents)
      BY <1>4 DEF StartDegraded, StartInstall, StartThread, ControlTypes
    <2>2. installed' \in BOOLEAN /\ running' \in BOOLEAN
      BY <1>4 DEF StartDegraded, StartInstall, StartThread, ControlTypes
    <2> QED
      BY <1>1, <1>2, <1>4, <2>1, <2>2 DEF StartDegraded, StartInstall, StartThread, ControlTypes
  <1>5. CASE StartReturn
    <2>1. activeCount' \in 0 .. CountModulus - 1
      BY <1>5, WrapsInRange DEF StartReturn, ControlTypes
    <2> QED
      BY <1>1, <1>2, <1>5, <2>1 DEF StartReturn, ControlTypes
  <1>6. CASE StopInactive
    BY <1>1, <1>2, <1>3, <1>6 DEF StopInactive, ControlTypes
  <1>7. CASE StopRequest
    <2>1. due' \in SUBSET (1 .. MaxEvents)
      BY <1>7 DEF StopRequest, RingTypes, ToSet
    <2> QED
      BY <1>1, <1>2, <1>3, <1>7, <2>1 DEF StopRequest, ControlTypes
  <1>8. CASE StopJoin \/ StopUninstall
    BY <1>1, <1>2, <1>8 DEF StopJoin, StopUninstall, ControlTypes
  <1> QED
    BY <1>4, <1>5, <1>6, <1>7, <1>8 DEF Control

(* The callback: a push is made only where there is room.                  *)
LEMMA CallbackTypeStep ==
    ASSUME ControlTypes, RingTypes, ThreadTypes, Callback
    PROVE  ControlTypes' /\ RingTypes' /\ ThreadTypes'
  <1>1. ControlTypes'
    BY DEF Callback, CallbackState, CallbackStateFull, CallbackFlag, CallbackData,
           CallbackDataDone, ControlTypes, ctlVars
  <1>2. ThreadTypes'
    <2>1. saturated' \in BOOLEAN /\ unsynced' \in BOOLEAN /\ episodeSynced' \in BOOLEAN
      BY DEF Callback, CallbackState, CallbackStateFull, CallbackFlag, CallbackData,
             CallbackDataDone, ThreadTypes
    <2>2. events' \in 0 .. MaxEvents /\ (cb' = "data" => events' # 0)
      BY DEF Callback, CallbackState, CallbackStateFull, CallbackFlag, CallbackData,
             CallbackDataDone, ThreadTypes
    <2> QED
      BY <2>1, <2>2 DEF Callback, CallbackState, CallbackStateFull, CallbackFlag, CallbackData,
             CallbackDataDone, ThreadTypes, resyncVars
  <1>3. CASE CallbackState
    <2>1. events + 1 \in 1 .. MaxEvents
      BY <1>3 DEF CallbackState, ThreadTypes
    <2> QED
      BY <1>1, <1>2, <1>3, <2>1, AppendAdds DEF CallbackState, RingTypes
  <1>4. CASE CallbackStateFull \/ CallbackFlag \/ CallbackData
    BY <1>1, <1>2, <1>4 DEF CallbackStateFull, CallbackFlag, CallbackData, RingTypes, ringVars
  <1>5. CASE CallbackDataDone
    <2>1. events \in 1 .. MaxEvents
      BY <1>5 DEF CallbackDataDone, ThreadTypes
    <2>2. CASE Len(dataQ) = DataCapacity
      <3>1. dataQ # <<>> /\ dataQ' = Append(Tail(dataQ), events)
        BY <1>5, <2>2 DEF CallbackDataDone, RingTypes
      <3>2. Tail(dataQ) \in Seq(1 .. MaxEvents) /\ Len(Tail(dataQ)) = DataCapacity - 1
        BY <2>2, <3>1, TailShrinks DEF RingTypes
      <3> QED
        BY <1>1, <1>2, <1>5, <2>1, <3>1, <3>2, AppendAdds DEF CallbackDataDone, RingTypes
    <2>3. CASE Len(dataQ) # DataCapacity
      BY <1>1, <1>2, <1>5, <2>1, <2>3, AppendAdds DEF CallbackDataDone, RingTypes
    <2> QED
      BY <2>2, <2>3
  <1> QED
    BY <1>3, <1>4, <1>5 DEF Callback

(* The capture thread: what it takes was in the ring.                      *)
LEMMA CaptureTypeStep ==
    ASSUME ControlTypes, RingTypes, ThreadTypes, Capture
    PROVE  ControlTypes' /\ RingTypes' /\ ThreadTypes'
  <1>1. CASE LoopState \/ DrainState \/ LastState
    <2>1. PICK at \in Places, onItem \in Places, onEmpty \in Places : PopState(at, onItem, onEmpty)
      BY <1>1 DEF LoopState, DrainState, LastState, Places
    <2>2. CASE stateQ = <<>>
      BY <2>1, <2>2 DEF PopState, ControlTypes, RingTypes, ThreadTypes, ctlVars, resyncVars
    <2>3. CASE stateQ # <<>>
      <3>1. Tail(stateQ) \in Seq(1 .. MaxEvents) /\ Len(Tail(stateQ)) <= StateCapacity
        BY <2>3, TailShrinks DEF RingTypes
      <3>2. stateQ' = Tail(stateQ) /\ dataQ' = dataQ
        BY <2>1, <2>3 DEF PopState
      <3>3. RingTypes'
        BY <3>1, <3>2, Zenon DEF RingTypes
      <3> QED
        BY <2>1, <2>3, <3>3 DEF PopState, ControlTypes, ThreadTypes, ctlVars, resyncVars
    <2> QED
      BY <2>2, <2>3
  <1>2. CASE LoopData \/ LastData
    <2>1. PICK at \in Places, onItem \in Places, onNone \in Places : PopData(at, onItem, onNone)
      BY <1>2 DEF LoopData, LastData, Places
    <2>2. RingTypes'
      <3>1. CASE dataQ = <<>>
        BY <2>1, <3>1 DEF PopData, RingTypes
      <3>2. CASE dataQ # <<>>
        <4>1. Tail(dataQ) \in Seq(1 .. MaxEvents) /\ Len(Tail(dataQ)) <= DataCapacity
          BY <3>2, TailShrinks DEF RingTypes
        <4>2. dataQ' \in {dataQ, Tail(dataQ)} /\ stateQ' = stateQ
          BY <2>1 DEF PopData
        <4> QED
          BY <4>1, <4>2, Zenon DEF RingTypes
      <3> QED
        BY <3>1, <3>2
    <2> QED
      BY <2>1, <2>2 DEF PopData, ControlTypes, ThreadTypes, ctlVars, resyncVars
  <1>3. CASE LoopTop \/ LoopCheck \/ Resynchronize \/ CheckEmpty \/ ClearSaturated
    <2>1. ControlTypes' /\ RingTypes'
      BY <1>3 DEF LoopTop, LoopCheck, Resynchronize, CheckEmpty, ClearSaturated, ControlTypes,
                  RingTypes, ctlVars, ringVars
    <2> QED
      BY <1>3, <2>1 DEF LoopTop, LoopCheck, Resynchronize, CheckEmpty, ClearSaturated, ThreadTypes,
                  Places, resyncVars
  <1> QED
    BY <1>1, <1>2, <1>3 DEF Capture

(* Every step keeps the types.                                             *)
LEMMA TypeStep ==
    ASSUME TypeOK, Next
    PROVE  TypeOK'
  <1>1. ControlTypes /\ RingTypes /\ ThreadTypes
    BY TypeParts
  <1>2. ControlTypes' /\ RingTypes' /\ ThreadTypes'
    BY <1>1, ControlTypeStep, CallbackTypeStep, CaptureTypeStep DEF Next
  <1> QED
    BY <1>2, Zenon DEF TypeOK, ControlTypes, RingTypes, ThreadTypes, Places

-----------------------------------------------------------------------------
(* What start and stop own.                                                *)

(* The capture thread never ends while it is to run, and never begins      *)
(* again by itself.                                                        *)
LEMMA CaptureMoves ==
    ASSUME PhaseInv, Capture
    PROVE  /\ UNCHANGED <<tap, installed, running, ctl, due, events>>
           /\ cap # "off" /\ cap' # "off"
           /\ running => cap' \notin {"lastState", "lastData", "exit"}
  BY DEF Capture, LoopTop, LoopState, LoopData, LoopCheck, Resynchronize, DrainState, CheckEmpty,
         ClearSaturated, LastState, LastData, PopState, PopData, PhaseInv, ctlVars

(* The callback touches nothing that start and stop own.                   *)
LEMMA CallbackMoves ==
    ASSUME Callback
    PROVE  UNCHANGED <<tap, installed, running, ctl, due, cap, rs>>
  BY DEF Callback, CallbackState, CallbackStateFull, CallbackFlag, CallbackData, CallbackDataDone,
         ctlVars, resyncVars

(* Each place of start and stop leaves what the next one expects.          *)
LEMMA PhaseStep ==
    ASSUME TypeOK, PhaseInv, Next
    PROVE  PhaseInv'
  <1>1. CASE Control
    <2>1. CASE StartDegraded \/ StartInstall \/ StartThread \/ StartReturn
      BY <2>1 DEF StartDegraded, StartInstall, StartThread, StartReturn, PhaseInv
    <2>2. CASE StopInactive \/ StopRequest \/ StopJoin \/ StopUninstall
      BY <2>2 DEF StopInactive, StopRequest, StopJoin, StopUninstall, PhaseInv, TypeOK
    <2> QED
      BY <1>1, <2>1, <2>2 DEF Control
  <1>2. CASE Callback
    BY <1>2, CallbackMoves DEF PhaseInv
  <1>3. CASE Capture
    BY <1>3, CaptureMoves DEF PhaseInv
  <1> QED
    BY <1>1, <1>2, <1>3 DEF Next

-----------------------------------------------------------------------------
(* What stop delivers.                                                     *)

(* The events due are gone from the state ring at the end of the last      *)
(* pass, and those that come later have higher numbers.                    *)
LEMMA DueStep ==
    ASSUME TypeOK, PhaseInv, DueInv, Next
    PROVE  DueInv'
  <1>1. CASE Control
    <2>1. stateQ' = stateQ /\ events' = events
      BY <1>1 DEF Control, StartDegraded, StartInstall, StartThread, StartReturn, StopInactive,
                  StopRequest, StopJoin, StopUninstall, ringVars
    <2>2. CASE StartDegraded \/ StartInstall \/ StartThread \/ StartReturn
      BY <2>1, <2>2 DEF StartDegraded, StartInstall, StartThread, StartReturn, DueInv
    <2>3. CASE StopInactive \/ StopJoin \/ StopUninstall
      BY <2>1, <2>3 DEF StopInactive, StopJoin, StopUninstall, DueInv
    <2>4. CASE StopRequest
      BY <2>1, <2>4 DEF StopRequest, DueInv, PhaseInv, TypeOK
    <2> QED
      BY <1>1, <2>2, <2>3, <2>4 DEF Control
  <1>2. CASE Callback
    <2>1. CASE CallbackState
      <3>1. /\ stateQ' = Append(stateQ, events + 1) /\ events' = events + 1
            /\ events \in Nat /\ events + 1 \in 1 .. MaxEvents
        BY <2>1 DEF CallbackState, TypeOK
      <3>2. ToSet(stateQ') \subseteq ToSet(stateQ) \cup {events + 1}
        BY <3>1, AppendAdds DEF TypeOK
      <3>3. events + 1 \notin due
        BY <3>1 DEF DueInv
      <3>4. 1 .. events' = 1 .. events \cup {events + 1}
        BY <3>1
      <3> QED
        BY <1>2, <3>2, <3>3, <3>4, CallbackMoves, Zenon DEF DueInv
    <2>2. CASE ~CallbackState
      <3>1. stateQ' = stateQ /\ events' \in {events, events + 1} /\ events \in Nat
        BY <1>2, <2>2 DEF Callback, CallbackStateFull, CallbackFlag, CallbackData, CallbackDataDone,
                          ringVars, TypeOK
      <3>2. 1 .. events \subseteq 1 .. events'
        BY <3>1
      <3> QED
        BY <1>2, <3>1, <3>2, CallbackMoves, Zenon DEF DueInv
    <2> QED
      BY <2>1, <2>2
  <1>3. CASE Capture
    <2>1. ToSet(stateQ') \subseteq ToSet(stateQ)
      <3>1. stateQ' = stateQ \/ (stateQ # <<>> /\ stateQ' = Tail(stateQ))
        BY <1>3 DEF Capture, LoopTop, LoopState, LoopData, LoopCheck, Resynchronize, DrainState,
                    CheckEmpty, ClearSaturated, LastState, LastData, PopState, PopData, ringVars
      <3> QED
        BY <3>1, TailShrinks DEF TypeOK
    <2>2. cap' \in {"off", "lastData", "exit"} => cap \in {"lastData", "exit"} \/ stateQ' = <<>>
      BY <1>3 DEF Capture, LoopTop, LoopState, LoopData, LoopCheck, Resynchronize, DrainState,
                  CheckEmpty, ClearSaturated, LastState, LastData, PopState, PopData
    <2> QED
      BY <1>3, <2>1, <2>2, CaptureMoves, EmptyHasNone DEF DueInv
  <1> QED
    BY <1>1, <1>2, <1>3 DEF Next

-----------------------------------------------------------------------------
(* Saturation.                                                             *)

(* The mark stays up, and its query valid, until the capture thread        *)
(* withdraws it.                                                           *)
LEMMA EpisodeStep ==
    ASSUME TypeOK, EpisodeInv, PhaseInv, Next
    PROVE  EpisodeInv' /\ (saturated /\ ~saturated' => episodeSynced)
  <1>1. CASE Control
    BY <1>1 DEF Control, StartDegraded, StartInstall, StartThread, StartReturn, StopInactive,
                StopRequest, StopJoin, StopUninstall, EpisodeInv, resyncVars
  <1>2. CASE Callback
    BY <1>2 DEF Callback, CallbackState, CallbackStateFull, CallbackFlag, CallbackData,
                CallbackDataDone, EpisodeInv, resyncVars
  <1>3. CASE Capture
    <2>1. CASE LoopState \/ DrainState \/ LastState \/ LoopData \/ LastData \/ LoopTop
      BY <2>1 DEF LoopState, DrainState, LastState, LoopData, LastData, LoopTop, PopState, PopData,
                  EpisodeInv, resyncVars
    <2>2. CASE LoopCheck \/ Resynchronize \/ CheckEmpty \/ ClearSaturated
      BY <2>2 DEF LoopCheck, Resynchronize, CheckEmpty, ClearSaturated, EpisodeInv, TypeOK, resyncVars
    <2> QED
      BY <1>3, <2>1, <2>2 DEF Capture
  <1> QED
    BY <1>1, <1>2, <1>3 DEF Next

-----------------------------------------------------------------------------
(* Results.                                                                *)

(* The inductive step, stuttering included.                                *)
LEMMA InvStep ==
    ASSUME CaptureInv, [Next]_vars
    PROVE  CaptureInv'
  <1>1. CASE Next
    BY <1>1, TypeStep, PhaseStep, DueStep, EpisodeStep DEF CaptureInv
  <1>2. CASE UNCHANGED vars
    BY <1>2 DEF vars, ctlVars, ringVars, resyncVars, CaptureInv, TypeOK, PhaseInv, DueInv, EpisodeInv
  <1> QED
    BY <1>1, <1>2

(* What the control thread, the callback and the capture thread rely on    *)
(* holds in every state.                                                   *)
THEOREM CaptureInvariant == Spec => []CaptureInv
  <1> QED
    BY InvInit, InvStep, PTL DEF Spec

(* Between calls the tap owns its event tap and its thread exactly when it *)
(* is Active.                                                              *)
THEOREM NoLeakHolds == Spec => []NoLeak
  <1>1. CaptureInv => NoLeak
    BY DEF CaptureInv, PhaseInv, NoLeak
  <1> QED
    BY <1>1, CaptureInvariant, PTL

(* When stop returns, every key or button event that was in the state ring *)
(* when it was called has been processed.                                  *)
THEOREM StopDeliversHolds == Spec => []StopDelivers
  <1>1. CaptureInv => StopDelivers
    BY DEF CaptureInv, DueInv, StopDelivers
  <1> QED
    BY <1>1, CaptureInvariant, PTL

(* The saturation mark is withdrawn only after a ground-truth query made   *)
(* since it was raised.                                                    *)
THEOREM EpisodesAreRepairedHolds == Spec => EpisodesAreRepaired
  <1>1. CaptureInv /\ [Next]_vars => [saturated /\ ~saturated' => episodeSynced]_vars
    BY EpisodeStep DEF CaptureInv
  <1> QED
    BY <1>1, CaptureInvariant, PTL DEF Spec, EpisodesAreRepaired

=============================================================================
