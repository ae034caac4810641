------------------------- MODULE SendBacklogProofs -------------------------
(***************************************************************************)
(* Proofs about SendBacklog, for any finite set of sending threads and any *)
(* threshold: backlog_ never wraps, and overshoots the threshold by at     *)
(* most one event per thread.                                              *)
(***************************************************************************)
EXTENDS SendBacklog, FiniteSetTheorems, TLAPS

USE BacklogAssumption

(* The threads in flight are finitely many, and no more than there are.    *)
LEMMA FlightFinite ==
    /\ IsFiniteSet(Senders) /\ Cardinality(Senders) \in Nat
    /\ IsFiniteSet(InFlight) /\ Cardinality(InFlight) \in Nat
    /\ Cardinality(InFlight) <= Cardinality(Senders)
  <1>1. InFlight \subseteq Senders
    BY DEF InFlight
  <1> QED
    BY <1>1, FS_Subset, FS_CardinalityType

(* A send that leaves the flight (it failed, or its data went out) makes   *)
(* room for exactly one more failure.                                      *)
LEMMA FlightLands ==
    ASSUME BacklogTypeOK, NEW s \in Senders, pc[s] \in {"send", "locked"},
           NEW v \in {"idle", "sent"}, pc' = [pc EXCEPT ![s] = v]
    PROVE  /\ Cardinality(InFlight)' = Cardinality(InFlight) - 1
           /\ Cardinality(InFlight) \in Nat
  <1>1. InFlight' = InFlight \ {s}
    BY DEF InFlight, BacklogTypeOK
  <1>2. s \in InFlight
    BY DEF InFlight
  <1> QED
    BY <1>1, <1>2, FlightFinite, FS_RemoveElement

(* A step of a send that neither enters nor leaves the flight.             *)
LEMMA FlightStays ==
    ASSUME BacklogTypeOK, NEW s \in Senders, NEW v \in {"idle", "sub", "locked"},
           pc' = [pc EXCEPT ![s] = v],
           v = "locked" <=> pc[s] \in {"send", "locked"}
    PROVE  InFlight' = InFlight
  BY DEF InFlight, BacklogTypeOK

(* Initially nothing is in flight and the backlog is empty.                *)
LEMMA InvInit == BacklogInit => BacklogInv
  <1> SUFFICES ASSUME BacklogInit PROVE BacklogInv
    OBVIOUS
  <1>1. BacklogTypeOK
    <2>1. running \in BOOLEAN /\ connected \in BOOLEAN /\ sockOk \in BOOLEAN
      BY DEF BacklogInit
    <2>2. backlog \in Nat /\ totalDroppedOldest \in 0 .. CountModulus - 1
      BY DEF BacklogInit
    <2>3. /\ sendMutex \in Senders \cup {NoSender}
          /\ pc \in [Senders -> {"idle", "send", "locked", "sent", "sub"}]
      BY DEF BacklogInit
    <2> QED
      BY <2>1, <2>2, <2>3 DEF BacklogTypeOK
  <1>2. MutexInv /\ NoUnderflow
    BY DEF BacklogInit, MutexInv, NoUnderflow
  <1>3. FlightInv
    BY FlightFinite DEF BacklogInit, FlightInv
  <1> QED
    BY <1>1, <1>2, <1>3 DEF BacklogInv

(* Steps of the pipeline's owner and of the network do not touch the count *)
(* or the senders.                                                         *)
LEMMA EnvironmentStep == BacklogInv /\ Environment => BacklogInv'
  <1> SUFFICES ASSUME BacklogInv, Environment PROVE BacklogInv'
    OBVIOUS
  <1> USE DEF BacklogInv
  <1>1. UNCHANGED <<backlog, totalDroppedOldest, sendMutex, pc>>
    BY DEF Environment, PipelineStart, PipelineStop, LinkUp, PeerGone, Disconnect
  <1>2. BacklogTypeOK'
    BY <1>1 DEF BacklogTypeOK, Environment, PipelineStart, PipelineStop, LinkUp, PeerGone, Disconnect
  <1>3. MutexInv' /\ NoUnderflow'
    BY <1>1 DEF MutexInv, NoUnderflow
  <1>4. InFlight' = InFlight
    BY <1>1 DEF InFlight
  <1>5. FlightInv'
    BY <1>1, <1>4 DEF FlightInv
  <1> QED
    BY <1>2, <1>3, <1>5

(* Each step of processEvent and send keeps the invariant.                 *)
LEMMA SenderStep ==
    ASSUME BacklogInv, NEW s \in Senders, Sender(s)
    PROVE  BacklogInv'
  <1> USE DEF BacklogInv
  <1>t. /\ BacklogTypeOK /\ backlog \in Nat /\ Threshold \in Nat
        /\ Cardinality(Senders) \in Nat /\ Cardinality(InFlight) \in Nat
        /\ Cardinality(InFlight) <= Cardinality(Senders)
    BY FlightFinite DEF BacklogTypeOK
  <1>1. CASE ProcessDrop(s)
    <2>1. BacklogTypeOK'
      BY <1>1 DEF ProcessDrop, BacklogTypeOK
    <2>2. MutexInv' /\ NoUnderflow' /\ InFlight' = InFlight
      BY <1>1 DEF ProcessDrop, MutexInv, NoUnderflow, InFlight
    <2>3. FlightInv'
      BY <1>1, <2>2 DEF ProcessDrop, FlightInv
    <2> QED
      BY <2>1, <2>2, <2>3
  <1>2. CASE ProcessSend(s)
    <2>1. BacklogTypeOK' /\ MutexInv' /\ NoUnderflow'
      BY <1>2 DEF ProcessSend, BacklogTypeOK, MutexInv, NoUnderflow
    <2>2. InFlight' \subseteq Senders
      BY DEF InFlight
    <2>3. Cardinality(InFlight') \in Nat /\ Cardinality(InFlight') <= Cardinality(Senders)
      BY <2>2, FS_Subset, FS_CardinalityType
    <2>4. FlightInv'
      BY <1>2, <1>t, <2>3 DEF ProcessSend, FlightInv
    <2> QED
      BY <2>1, <2>4
  <1>3. CASE SendNotConnected(s)
    <2>1. BacklogTypeOK' /\ MutexInv' /\ NoUnderflow'
      BY <1>3 DEF SendNotConnected, BacklogTypeOK, MutexInv, NoUnderflow
    <2>2. Cardinality(InFlight)' = Cardinality(InFlight) - 1
      BY <1>3, <1>t, FlightLands DEF SendNotConnected
    <2>3. FlightInv'
      BY <1>3, <1>t, <2>2 DEF SendNotConnected, FlightInv
    <2> QED
      BY <2>1, <2>3
  <1>4. CASE SendLock(s)
    <2>1. BacklogTypeOK' /\ NoUnderflow'
      BY <1>4 DEF SendLock, BacklogTypeOK, NoUnderflow
    <2>2. \A r \in Senders : pc[r] \notin {"locked", "sent", "sub"}
      BY <1>4 DEF SendLock, MutexInv
    <2>3. MutexInv'
      BY <1>4, <1>t, <2>2 DEF SendLock, MutexInv, BacklogTypeOK
    <2>4. InFlight' = InFlight
      BY <1>4, <1>t, FlightStays DEF SendLock
    <2>5. FlightInv'
      BY <1>4, <2>4 DEF SendLock, FlightInv
    <2> QED
      BY <2>1, <2>3, <2>5
  <1>5. CASE SendFails(s)
    <2>1. BacklogTypeOK' /\ NoUnderflow'
      BY <1>5 DEF SendFails, BacklogTypeOK, NoUnderflow
    <2>2. MutexInv'
      BY <1>5, <1>t DEF SendFails, MutexInv, BacklogTypeOK
    <2>3. Cardinality(InFlight)' = Cardinality(InFlight) - 1
      BY <1>5, <1>t, FlightLands DEF SendFails
    <2>4. FlightInv'
      BY <1>5, <1>t, <2>3 DEF SendFails, FlightInv
    <2> QED
      BY <2>1, <2>2, <2>4
  <1>6. CASE SendDone(s)
    <2>1. BacklogTypeOK' /\ MutexInv' /\ NoUnderflow'
      BY <1>6 DEF SendDone, BacklogTypeOK, MutexInv, NoUnderflow
    <2>2. Cardinality(InFlight)' = Cardinality(InFlight) - 1
      BY <1>6, <1>t, FlightLands DEF SendDone
    <2>3. FlightInv'
      BY <1>6, <1>t, <2>2 DEF SendDone, FlightInv
    <2> QED
      BY <2>1, <2>3
  <1>7. CASE LoadZero(s)
    <2>1. BacklogTypeOK' /\ NoUnderflow'
      BY <1>7 DEF LoadZero, BacklogTypeOK, NoUnderflow
    <2>2. MutexInv'
      BY <1>7, <1>t DEF LoadZero, MutexInv, BacklogTypeOK
    <2>3. InFlight' = InFlight
      BY <1>7, <1>t, FlightStays DEF LoadZero
    <2>4. FlightInv'
      BY <1>7, <2>3 DEF LoadZero, FlightInv
    <2> QED
      BY <2>1, <2>2, <2>4
  <1>8. CASE LoadPositive(s)
    <2>1. BacklogTypeOK' /\ MutexInv' /\ NoUnderflow'
      BY <1>8 DEF LoadPositive, BacklogTypeOK, MutexInv, NoUnderflow
    <2>2. InFlight' = InFlight
      BY <1>8, <1>t, FlightStays DEF LoadPositive
    <2>3. FlightInv'
      BY <1>8, <2>2 DEF LoadPositive, FlightInv
    <2> QED
      BY <2>1, <2>3
  <1>9. CASE Subtract(s)
    <2>1. backlog > 0
      BY <1>9 DEF Subtract, NoUnderflow
    <2>2. BacklogTypeOK'
      BY <1>9, <1>t, <2>1 DEF Subtract, BacklogTypeOK
    <2>3. \A r \in Senders \ {s} : pc[r] \notin {"locked", "sent", "sub"}
      BY <1>9 DEF Subtract, MutexInv
    <2>4. MutexInv' /\ NoUnderflow'
      BY <1>9, <1>t, <2>3 DEF Subtract, MutexInv, NoUnderflow, BacklogTypeOK
    <2>5. InFlight' = InFlight
      BY <1>9, <1>t, FlightStays DEF Subtract
    <2>6. FlightInv'
      BY <1>9, <1>t, <2>5 DEF Subtract, FlightInv
    <2> QED
      BY <2>2, <2>4, <2>6
  <1> QED
    BY <1>1, <1>2, <1>3, <1>4, <1>5, <1>6, <1>7, <1>8, <1>9 DEF Sender, SendStep

(* BacklogInv is inductive: no step of a sender or of the link breaks it.  *)
LEMMA InvStep == BacklogInv /\ [BacklogNext]_backlogVars => BacklogInv'
  <1> SUFFICES ASSUME BacklogInv, [BacklogNext]_backlogVars PROVE BacklogInv'
    OBVIOUS
  <1>1. CASE Environment
    BY <1>1, EnvironmentStep
  <1>2. CASE \E s \in Senders : Sender(s)
    BY <1>2, SenderStep
  <1>3. CASE UNCHANGED backlogVars
    <2>1. InFlight' = InFlight
      BY <1>3 DEF backlogVars, InFlight
    <2> QED
      BY <1>3, <2>1 DEF backlogVars, BacklogInv, BacklogTypeOK, MutexInv, NoUnderflow, FlightInv
  <1> QED
    BY <1>1, <1>2, <1>3 DEF BacklogNext

(* The invariant of TransportImpl::send and processEvent, for any number   *)
(* of threads: in particular backlog_ is positive when it is reduced.      *)
THEOREM BacklogInvariant == BacklogSpec => []BacklogInv
  <1>1. BacklogInit => BacklogInv
    BY InvInit
  <1>2. BacklogInv /\ [BacklogNext]_backlogVars => BacklogInv'
    BY InvStep
  <1> QED
    BY <1>1, <1>2, PTL DEF BacklogSpec

(* TransportImpl::send loads, tests and reduces backlog_ in three steps;   *)
(* the count is still positive at the third, whatever other threads do.    *)
THEOREM BacklogNeverWraps == BacklogSpec => []NoUnderflow
  <1>1. BacklogInv => NoUnderflow
    BY DEF BacklogInv
  <1> QED
    BY <1>1, BacklogInvariant, PTL

(* The back-pressure test of processEvent, although it is not atomic with  *)
(* the send, bounds backlog_ by the threshold plus one event per thread.   *)
THEOREM BacklogIsBounded == BacklogSpec => []BacklogBounded
  <1>1. BacklogInv => BacklogBounded
    BY FlightFinite DEF BacklogInv, FlightInv, BacklogBounded, BacklogTypeOK
  <1> QED
    BY <1>1, BacklogInvariant, PTL

(* Back pressure with nobody on the way through send.                      *)
Jammed == backlog > Threshold /\ \A s \in Senders : pc[s] = "idle"

(* The finding, for any number of threads and any threshold: once back     *)
(* pressure has set in and the last send has returned, neither time, nor a *)
(* new link, nor a restart of the pipeline ends it.  Every event is        *)
(* dropped before send, which alone could reduce backlog_.                 *)
THEOREM BackPressureIsForever == BacklogSpec => [](Jammed => []Jammed)
  <1>1. BacklogInv /\ Jammed /\ [BacklogNext]_backlogVars => Jammed'
    <2> SUFFICES ASSUME BacklogInv, Jammed, [BacklogNext]_backlogVars PROVE Jammed'
      OBVIOUS
    <2>1. CASE Environment
      BY <2>1 DEF Environment, PipelineStart, PipelineStop, LinkUp, PeerGone, Disconnect, Jammed
    <2>2. ASSUME NEW s \in Senders, Sender(s) PROVE Jammed'
      <3>1. pc[s] = "idle" /\ ~(backlog <= Threshold)
        BY BacklogAssumption DEF Jammed, BacklogInv, BacklogTypeOK
      <3>2. ProcessDrop(s)
        BY <2>2, <3>1 DEF Sender, ProcessSend, SendStep, SendNotConnected, SendLock, SendFails,
                          SendDone, LoadZero, LoadPositive, Subtract
      <3> QED
        BY <3>2 DEF ProcessDrop, Jammed
    <2>3. CASE UNCHANGED backlogVars
      BY <2>3 DEF backlogVars, Jammed
    <2> QED
      BY <2>1, <2>2, <2>3 DEF BacklogNext
  <1> QED
    BY <1>1, BacklogInvariant, PTL DEF BacklogSpec

=============================================================================
