--------------------------- MODULE ControlProofs ---------------------------
(***************************************************************************)
(* Proofs about the services of one node, for every value of their         *)
(* constants: TopologyCommit, SessionFence, LogQueue, Discovery and        *)
(* Announcer by themselves, then the control plane MCControl composes of   *)
(* them, of the stores and of the handshake.                               *)
(***************************************************************************)
EXTENDS MCControl, StoreProofs, SequenceTheorems, TLAPS

-----------------------------------------------------------------------------
(* TopologyCommit.                                                         *)

(* The consistency of a commit is inductive with the types.                *)
TopoInv == TopoTypeOK /\ CommitConsistent

(* A node without a topology has nothing pending.                          *)
LEMMA TopoInvInit == TopoInit => TopoInv
  BY TopoAssumption DEF TopoInit, TopoInv, TopoTypeOK, CommitConsistent, CommitStates

(* Whatever is called in whatever order, a commit stays consistent, and a  *)
(* version becomes current only when it was vouched for.                   *)
LEMMA TopoStep ==
    ASSUME TopoInv, TopoNext
    PROVE  TopoInv' /\ (currentVersion' # currentVersion => currentVersion' = vouched)
  <1> USE TopoAssumption DEF TopoInv, TopoTypeOK, CommitConsistent, CommitStates
  <1>1. ASSUME NEW n \in TopoNodes, SetLocalNodeId(n) \/ SetTopologyAuthority(n)
        PROVE  TopoInv' /\ currentVersion' = currentVersion
    BY <1>1 DEF SetLocalNodeId, SetTopologyAuthority
  <1>2. ASSUME NEW v \in 1 .. MaxVersion, ProposeChange(v)
        PROVE  TopoInv' /\ currentVersion' = currentVersion
    <2>1. v \in 0 .. MaxVersion /\ v # NoProposal
      BY DEF TopoInv
    <2> QED
      BY <1>2, <2>1 DEF ProposeChange, isCommitLocked, isCoordinator
  <1>3. CASE ValidateProposal \/ PrepareCommit
    BY <1>3 DEF ValidateProposal, PrepareCommit, Advance
  <1>4. CASE AuthorizeActivation
    BY <1>4 DEF AuthorizeActivation, Advance
  <1>5. CASE ActivateVersion
    BY <1>5 DEF ActivateVersion
  <1>6. CASE AbortCommit
    BY <1>6 DEF AbortCommit
  <1>7. CASE MarkCoordinatorOffline
    BY <1>7 DEF MarkCoordinatorOffline
  <1>8. CASE MarkCoordinatorOnline
    BY <1>8 DEF MarkCoordinatorOnline
  <1> QED
    BY <1>1, <1>2, <1>3, <1>4, <1>5, <1>6, <1>7, <1>8 DEF TopoNext

(* The invariant of every behaviour.                                       *)
LEMMA TopoInvariant == TopoSpec => []TopoInv
  <1>1. TopoInv /\ [TopoNext]_topoVars => TopoInv'
    BY TopoStep DEF topoVars, TopoInv, TopoTypeOK, CommitConsistent
  <1> QED
    BY <1>1, TopoInvInit, PTL DEF TopoSpec

(* No order of proposals, losses and returns of the coordinator, aborts    *)
(* and late calls leaves a half-finished commit that could be resumed.     *)
THEOREM CommitConsistentHolds == TopoSpec => []CommitConsistent
  <1>1. TopoInv => CommitConsistent
    BY DEF TopoInv
  <1> QED
    BY <1>1, TopoInvariant, PTL

(* activateVersion installs only the version that authorizeActivation was  *)
(* called for, with no abort and no loss of the coordinator in between.    *)
THEOREM ActivationVouchedHolds == TopoSpec => ActivationVouched
  <1>1. TopoInv /\ [TopoNext]_topoVars
            => [currentVersion' # currentVersion => currentVersion' = vouched]_topoVars
    BY TopoStep
  <1> QED
    BY <1>1, TopoInvariant, PTL DEF TopoSpec, ActivationVouched

-----------------------------------------------------------------------------
(* SessionFence.                                                           *)

(* The fences that may be in flight, and what they say of their session.   *)
Fences == [nodeId : {Self, Other, Nobody}, epoch : Nat, createdAt : Nat]
Letters == [nodeId : {Self, Other, Nobody}, epoch : Nat, createdAt : Nat, session : Nat, life : Nat]

(* Each change of the fence raises its epoch, so within one life a later   *)
(* session has the higher epoch; no message comes from a later life.       *)
FenceInv ==
    /\ fence \in Fences /\ fence.nodeId = Self
    /\ mail \subseteq Letters /\ session \in Nat /\ life \in Nat
    /\ \A m \in mail :
          /\ m.life <= life
          /\ m.life = life =>
                /\ m.session <= session
                /\ m.session = session => m.epoch = fence.epoch /\ m.createdAt = fence.createdAt
                /\ m.session < session => m.epoch < fence.epoch

(* A fresh process has sent nothing.                                       *)
LEMMA FenceInvInit == FenceInit => FenceInv
  BY FenceAssumption DEF FenceInit, FenceInv, NewSession, Fences, Letters

(* A new session, a new epoch, a message or a restart keeps the order of   *)
(* epochs and sessions.                                                    *)
LEMMA FenceStep ==
    ASSUME FenceInv, FenceNext
    PROVE  FenceInv'
  <1>1. CASE StartNewSession
    <2> DEFINE once == [fence EXCEPT !.epoch = @ + 1]
    <2>a. fence \in Fences /\ fence.nodeId = Self /\ fence.epoch \in Nat /\ fence.createdAt \in Nat
      BY DEF FenceInv, Fences
    <2>b. /\ once \in Fences /\ once.nodeId = Self
          /\ once.epoch = fence.epoch + 1 /\ once.createdAt = fence.createdAt
      BY <2>a DEF Fences
    <2>c. fence' = [once EXCEPT !.createdAt = fence.createdAt + 1]
      BY <1>1, <2>a DEF StartNewSession, Fences
    <2> HIDE DEF once
    <2>1. /\ fence' \in Fences /\ fence'.nodeId = Self
          /\ fence'.epoch = fence.epoch + 1 /\ fence.epoch \in Nat
      BY <2>a, <2>b, <2>c DEF Fences
    <2>2. mail' = mail /\ life' = life /\ session' = session + 1
      BY <1>1 DEF StartNewSession
    <2> QED
      BY <2>1, <2>2 DEF FenceInv, Letters
  <1>2. CASE UpdateEpoch
    BY <1>2, FenceAssumption DEF UpdateEpoch, FenceInv, Fences, Letters
  <1>3. CASE Stamp
    <2>1. PICK n \in {Self, Other, Nobody} :
             mail' = mail \cup {[nodeId |-> n, epoch |-> fence.epoch, createdAt |-> fence.createdAt,
                                 session |-> session, life |-> life]}
      BY <1>3 DEF Stamp
    <2> QED
      BY <1>3, <2>1 DEF Stamp, FenceInv, Fences, Letters
  <1>4. CASE Restart
    BY <1>4, FenceAssumption DEF Restart, NewSession, FenceInv, Fences, Letters
  <1> QED
    BY <1>1, <1>2, <1>3, <1>4 DEF FenceNext

(* However late and how often messages arrive, checkIncoming accepts those *)
(* of the session under way and no other of this life.                     *)
THEOREM FenceSeparatesHolds == FenceSpec => []FenceSeparates
  <1>1. FenceInv /\ [FenceNext]_fenceVars => FenceInv'
    BY FenceStep DEF fenceVars, FenceInv
  <1>2. FenceInv => FenceSeparates
    BY DEF FenceInv, FenceSeparates, CheckIncoming, Fences, Letters
  <1> QED
    BY <1>1, <1>2, FenceInvInit, PTL DEF FenceSpec

-----------------------------------------------------------------------------
(* LogQueue.                                                               *)

(* The accepted lines in their order.                                      *)
Accepted(n) == [i \in 1 .. n |-> i]

(* The worker has a line in hand only between its two critical sections,   *)
(* the sink is set as long as it lives, it ends on an empty queue after    *)
(* running_ was taken back, and from then on nothing is queued.            *)
LogPhaseInv ==
    /\ workerPc # "write" => line = <<>>
    /\ workerPc # "none" => hasSink
    /\ workerPc = "done" => queue = <<>> /\ ~running
    /\ control = "idle" => /\ running => workerPc \in {"test", "write"}
                           /\ ~running => workerPc = "none" /\ queue = <<>>
    /\ control \in {"notify", "join"} => ~running /\ workerPc # "none"
    /\ control = "flush" => ~running /\ workerPc = "none" /\ queue = <<>>

LogInv == LogTypeOK /\ LogPhaseInv /\ LinesKept

(* A logger that was never started.                                        *)
LEMMA LogInvInit == LogInit => LogInv
  <1> SUFFICES ASSUME LogInit PROVE LogInv
    OBVIOUS
  <1>a. queue \in Seq(1 .. MaxLines) /\ Len(queue) <= kMaxQueue /\ written \in Seq(1 .. MaxLines)
    BY LogAssumption DEF LogInit
  <1>b. line \in {<<>>} \cup {<<n>> : n \in 1 .. MaxLines} /\ flushing \subseteq Clients
        /\ waiting \subseteq flushing \cup {Worker}
    BY Zenon DEF LogInit
  <1>c. dropped \in 0 .. MaxDropped /\ lines \in 0 .. MaxLines
    BY LogAssumption DEF LogInit
  <1>1. LogTypeOK
    BY <1>a, <1>b, <1>c, Zenon DEF LogInit, LogTypeOK
  <1>2. LogPhaseInv
    BY DEF LogInit, LogPhaseInv
  <1>3. written \o line \o queue = <<>> /\ line \o queue = <<>> /\ lines = 0
    BY DEF LogInit
  <1>4. [n \in 1 .. 0 |-> n] = <<>>
    OBVIOUS
  <1>5. LinesKept
    BY <1>3, <1>4, Zenon DEF LinesKept
  <1> QED
    BY <1>1, <1>2, <1>5 DEF LogInv

(* A line queued behind the others is accepted after them.                 *)
LEMMA QueuedLast ==
    ASSUME NEW n \in Nat, NEW w \in Seq(Nat), NEW l \in Seq(Nat), NEW q \in Seq(Nat),
           w \o l \o q = Accepted(n)
    PROVE  w \o l \o Append(q, n + 1) = Accepted(n + 1)
  <1> DEFINE k == w \o l
  <1>1. k \in Seq(Nat) /\ k \o q \in Seq(Nat)
    BY ConcatProperties
  <1>2. Accepted(n) \in Seq(Nat) /\ Len(Accepted(n)) = n
    BY DEF Accepted
  <1> HIDE DEF k
  <1>3. k \o Append(q, n + 1) = Append(k \o q, n + 1)
    BY <1>1
  <1>4. Append(Accepted(n), n + 1) = Accepted(n + 1)
    BY <1>2 DEF Accepted
  <1> QED
    BY <1>3, <1>4, Zenon DEF k

(* Taking the head of the queue in hand moves no line.                     *)
LEMMA TakenInOrder ==
    ASSUME NEW w \in Seq(Nat), NEW q \in Seq(Nat), q # <<>>
    PROVE  w \o <<Head(q)>> \o Tail(q) = w \o <<>> \o q
  OBVIOUS

(* Nor does writing the line in hand.                                      *)
LEMMA WrittenInOrder ==
    ASSUME NEW w \in Seq(Nat), NEW l \in Seq(Nat), NEW q \in Seq(Nat)
    PROVE  (w \o l) \o <<>> \o q = w \o l \o q
  OBVIOUS

(* A step that leaves the lines and everybody's phase alone.               *)
LEMMA LogUndisturbed ==
    ASSUME LogInv,
           UNCHANGED <<running, queue, hasSink, workerPc, line, control, lines, written>>,
           flushing' \subseteq Clients, waiting' \subseteq flushing' \cup {Worker},
           dropped' \in 0 .. MaxDropped
    PROVE  LogInv'
  <1>1. LogTypeOK'
    BY Zenon DEF LogInv, LogTypeOK
  <1>2. LogPhaseInv'
    BY Zenon DEF LogInv, LogPhaseInv
  <1>3. LinesKept'
    BY Zenon DEF LogInv, LinesKept
  <1> QED
    BY <1>1, <1>2, <1>3 DEF LogInv

(* The sequences of the queue and what they are made of.                   *)
LEMMA LogSequences ==
    ASSUME LogInv
    PROVE  /\ queue \in Seq(1 .. MaxLines) /\ written \in Seq(1 .. MaxLines)
           /\ line \in Seq(1 .. MaxLines) /\ Len(queue) <= kMaxQueue
           /\ queue \in Seq(Nat) /\ written \in Seq(Nat) /\ line \in Seq(Nat)
           /\ lines \in Nat /\ MaxLines \in Nat /\ kMaxQueue \in Nat
           /\ written \o line \o queue = Accepted(lines)
  <1>1. queue \in Seq(1 .. MaxLines) /\ written \in Seq(1 .. MaxLines) /\ Len(queue) <= kMaxQueue
    BY DEF LogInv, LogTypeOK
  <1>2. MaxLines \in Nat /\ kMaxQueue \in Nat /\ lines \in Nat
    BY LogAssumption DEF LogInv, LogTypeOK
  <1>3. line \in Seq(1 .. MaxLines)
    <2>1. CASE line = <<>>
      BY <2>1
    <2>2. ASSUME NEW n \in 1 .. MaxLines, line = <<n>>
          PROVE  line \in Seq(1 .. MaxLines)
      BY <2>2
    <2> QED
      BY <2>1, <2>2 DEF LogInv, LogTypeOK
  <1>4. 1 .. MaxLines \subseteq Nat
    BY <1>2
  <1>5. queue \in Seq(Nat) /\ written \in Seq(Nat) /\ line \in Seq(Nat)
    BY <1>1, <1>3, <1>4, SeqMonotonic, Zenon
  <1>6. written \o line \o queue = Accepted(lines)
    BY Zenon DEF LogInv, LinesKept, Accepted
  <1> QED
    BY <1>1, <1>2, <1>3, <1>5, <1>6

(* Starting and stopping the logger moves no line.                         *)
LEMMA LogControlStep ==
    ASSUME LogInv, LogStart \/ StopRequest \/ StopStep
    PROVE  LogInv'
  <1> USE DEF LogInv
  <1>1. UNCHANGED <<queue, line, flushing, dropped, lines, written>>
    BY Zenon DEF LogStart, StopRequest, StopStep, StopNotify, StopJoin, StopClear
  <1>2. waiting' = waiting \/ waiting' = {}
    BY Zenon DEF LogStart, StopRequest, StopStep, StopNotify, StopJoin, StopClear
  <1>3. /\ running' \in BOOLEAN /\ hasSink' \in BOOLEAN
        /\ workerPc' \in {"none", "test", "write", "done"}
        /\ control' \in {"idle", "notify", "join", "flush"}
    BY DEF LogTypeOK, LogStart, StopRequest, StopStep, StopNotify, StopJoin, StopClear
  <1>4. LogTypeOK'
    BY <1>1, <1>2, <1>3, Zenon DEF LogTypeOK
  <1>5. LogPhaseInv'
    <2>1. CASE LogStart
      BY <2>1 DEF LogPhaseInv, LogStart
    <2>2. CASE StopRequest
      BY <2>2 DEF LogPhaseInv, StopRequest
    <2>3. CASE StopNotify
      BY <2>3 DEF LogPhaseInv, StopNotify
    <2>4. CASE StopJoin
      BY <2>4 DEF LogPhaseInv, StopJoin
    <2>5. CASE StopClear
      BY <2>5 DEF LogPhaseInv, StopClear
    <2> QED
      BY <2>1, <2>2, <2>3, <2>4, <2>5 DEF StopStep
  <1>6. (control' = "idle" /\ ~running') => line' = <<>> /\ queue' = <<>>
    BY <1>5 DEF LogPhaseInv
  <1>7. <<>> \o <<>> = <<>>
    OBVIOUS
  <1>8. LinesKept'
    BY <1>1, <1>6, <1>7, Zenon DEF LinesKept
  <1> QED
    BY <1>4, <1>5, <1>8

(* A line that is queued is the next one accepted.                         *)
LEMMA LogSubmit ==
    ASSUME LogInv, NEW c \in Clients, Submit(c)
    PROVE  LogInv'
  <1>1. /\ lines' = lines + 1 /\ lines < MaxLines /\ running
        /\ queue' = Append(queue, lines + 1) /\ Len(queue) < kMaxQueue
        /\ UNCHANGED <<running, hasSink, workerPc, line, control, flushing, dropped, written>>
    BY DEF Submit
  <1>2. waiting' \subseteq waiting
    BY DEF Submit
  <1>3. lines' \in 0 .. MaxLines /\ lines + 1 \in 1 .. MaxLines
    BY <1>1, LogSequences
  <1>4. queue' \in Seq(1 .. MaxLines) /\ Len(queue') <= kMaxQueue
    BY <1>1, <1>3, LogSequences
  <1>5. LogTypeOK'
    BY <1>1, <1>2, <1>3, <1>4, Zenon DEF LogInv, LogTypeOK
  <1>6. LogPhaseInv'
    <2>1. workerPc # "done" /\ control \notin {"notify", "join", "flush"}
      BY <1>1 DEF LogInv, LogPhaseInv
    <2> QED
      BY <1>1, <2>1 DEF LogInv, LogPhaseInv
  <1>7. written \o line \o Append(queue, lines + 1) = Accepted(lines + 1)
    BY LogSequences, QueuedLast, Zenon
  <1>8. LinesKept'
    BY <1>1, <1>7, Zenon DEF LinesKept, Accepted
  <1> QED
    BY <1>5, <1>6, <1>8 DEF LogInv

(* The worker hands on the lines in their order, and writes every one.     *)
LEMMA LogWorker ==
    ASSUME LogInv, WorkerReturns \/ WorkerTakes \/ WorkerWrites
    PROVE  LogInv'
  <1>1. CASE WorkerReturns
    <2>1. LogTypeOK'
      <3>1. workerPc' \in {"none", "test", "write", "done"}
        BY <1>1 DEF WorkerReturns
      <3> QED
        BY <1>1, <3>1, Zenon DEF WorkerReturns, LogInv, LogTypeOK
    <2>2. LogPhaseInv'
      BY <1>1 DEF WorkerReturns, LogInv, LogPhaseInv
    <2>3. LinesKept'
      BY <1>1, Zenon DEF WorkerReturns, LogInv, LinesKept
    <2> QED
      BY <2>1, <2>2, <2>3 DEF LogInv
  <1>2. CASE WorkerTakes
    <2>1. /\ workerPc = "test" /\ queue # <<>> /\ line' = <<Head(queue)>> /\ queue' = Tail(queue)
          /\ workerPc' = "write" /\ line = <<>>
          /\ UNCHANGED <<running, hasSink, waiting, control, flushing, dropped, lines, written>>
      BY <1>2 DEF WorkerTakes, LogInv, LogPhaseInv
    <2>2. /\ Head(queue) \in 1 .. MaxLines /\ Tail(queue) \in Seq(1 .. MaxLines)
          /\ Len(Tail(queue)) <= kMaxQueue
      BY <2>1, LogSequences
    <2>3. workerPc' \in {"none", "test", "write", "done"}
      BY <2>1
    <2>4. LogTypeOK'
      BY <2>1, <2>2, <2>3, Zenon DEF LogInv, LogTypeOK
    <2>5. LogPhaseInv'
      BY <2>1 DEF LogInv, LogPhaseInv
    <2>6. written \o <<Head(queue)>> \o Tail(queue) = written \o <<>> \o queue
      BY <2>1, LogSequences, TakenInOrder, Zenon
    <2>7. ~(control' = "idle" /\ ~running')
      BY <2>1 DEF LogInv, LogPhaseInv
    <2>8. LinesKept'
      BY <2>1, <2>6, <2>7, Zenon DEF LogInv, LinesKept
    <2> QED
      BY <2>4, <2>5, <2>8 DEF LogInv
  <1>3. CASE WorkerWrites
    <2>1. /\ workerPc = "write" /\ written' = written \o line /\ line' = <<>> /\ workerPc' = "test"
          /\ UNCHANGED <<running, queue, hasSink, waiting, control, flushing, dropped, lines>>
      BY <1>3 DEF WorkerWrites, LogInv, LogPhaseInv
    <2>2. written \o line \in Seq(1 .. MaxLines)
      BY LogSequences, ConcatProperties, Zenon
    <2>3. workerPc' \in {"none", "test", "write", "done"} /\ <<>> \in {<<>>} \cup {<<n>> : n \in 1 .. MaxLines}
      BY <2>1, Zenon
    <2>4. LogTypeOK'
      BY <2>1, <2>2, <2>3, Zenon DEF LogInv, LogTypeOK
    <2>5. LogPhaseInv'
      BY <2>1 DEF LogInv, LogPhaseInv
    <2>6. (written \o line) \o <<>> \o queue = written \o line \o queue
      BY LogSequences, WrittenInOrder, Zenon
    <2>7. ~(control' = "idle" /\ ~running')
      BY <2>1 DEF LogInv, LogPhaseInv
    <2>8. LinesKept'
      BY <2>1, <2>6, <2>7, Zenon DEF LogInv, LinesKept
    <2> QED
      BY <2>4, <2>5, <2>8 DEF LogInv
  <1> QED
    BY <1>1, <1>2, <1>3

(* Every step of any thread keeps the invariant.                           *)
LEMMA LogStep ==
    ASSUME LogInv, LogNext
    PROVE  LogInv'
  <1>t. flushing \subseteq Clients /\ waiting \subseteq flushing \cup {Worker} /\ dropped \in 0 .. MaxDropped
    BY DEF LogInv, LogTypeOK
  <1>1. CASE LogStart \/ StopRequest \/ StopStep
    BY <1>1, LogControlStep
  <1>2. CASE WorkerReturns \/ WorkerTakes \/ WorkerWrites
    BY <1>2, LogWorker
  <1>3. CASE WorkerWaits
    BY <1>3, <1>t, LogUndisturbed DEF WorkerWaits
  <1>4. CASE SpuriousWakeup
    BY <1>4, <1>t, LogUndisturbed DEF SpuriousWakeup
  <1>5. ASSUME NEW c \in Clients, Submit(c)
        PROVE  LogInv'
    BY <1>5, LogSubmit
  <1>6. ASSUME NEW c \in Clients, SubmitDropped(c)
        PROVE  LogInv'
    <2>1. dropped' \in 0 .. MaxDropped
      BY <1>6, <1>t, LogAssumption DEF SubmitDropped
    <2> QED
      BY <1>6, <1>t, <2>1, LogUndisturbed DEF SubmitDropped
  <1>7. ASSUME NEW c \in Clients, FlushCall(c)
        PROVE  LogInv'
    BY <1>7, <1>t, LogUndisturbed DEF FlushCall
  <1>8. ASSUME NEW c \in Clients, FlushReturns(c)
        PROVE  LogInv'
    BY <1>8, <1>t, LogUndisturbed DEF FlushReturns
  <1>9. ASSUME NEW c \in Clients, FlushWaits(c)
        PROVE  LogInv'
    BY <1>9, <1>t, LogUndisturbed DEF FlushWaits
  <1> QED
    BY <1>1, <1>2, <1>3, <1>4, <1>5, <1>6, <1>7, <1>8, <1>9 DEF LogNext, WorkerStep

(* The invariant holds whatever the threads of the logger do.              *)
LEMMA LogInvariant == LogSpec => []LogInv
  <1>1. ASSUME LogInv, UNCHANGED logVars PROVE LogInv'
    <2>1. LogTypeOK' /\ LogPhaseInv' /\ LinesKept'
      BY <1>1, Zenon DEF logVars, LogInv, LogTypeOK, LogPhaseInv, LinesKept
    <2> QED
      BY <2>1 DEF LogInv
  <1>2. LogInv /\ [LogNext]_logVars => LogInv'
    BY <1>1, LogStep
  <1> QED
    BY <1>2, LogInvInit, PTL DEF LogSpec

(* No accepted line is lost, repeated or reordered, through any number of  *)
(* stops and starts, and when stop has returned all are written.           *)
THEOREM LinesKeptHolds == LogSpec => []LinesKept
  <1>1. LogInv => LinesKept
    BY DEF LogInv
  <1> QED
    BY <1>1, LogInvariant, PTL

(* After stop has notified, nobody is in cv_.wait.                         *)
NobodyWaits == (~running /\ control # "notify") => waiting = {}

(* The safety half of `stop returns' and `stop releases flush': a thread   *)
(* that saw running_ before it was taken back waits at the latest when     *)
(* stop notifies all, and after that no thread begins to wait; neither the *)
(* worker that stop joins nor a client in flush misses its wake-up.        *)
THEOREM StopStrandsNobody == LogSpec => []NobodyWaits
  <1>1. LogInit => NobodyWaits
    BY DEF LogInit, NobodyWaits
  <1>2. LogInv /\ NobodyWaits /\ [LogNext]_logVars => NobodyWaits'
    <2> SUFFICES ASSUME LogInv, NobodyWaits, [LogNext]_logVars PROVE NobodyWaits'
      OBVIOUS
    <2>1. CASE LogStart \/ StopRequest
      BY <2>1, Zenon DEF LogStart, StopRequest, NobodyWaits
    <2>2. CASE StopStep
      <3>1. CASE StopNotify
        BY <3>1, Zenon DEF StopNotify, NobodyWaits
      <3>2. CASE StopJoin \/ StopClear
        <4>1. control \in {"join", "flush"} /\ waiting' = waiting /\ running' = running
          BY <3>2 DEF StopJoin, StopClear
        <4>2. ~running /\ control # "notify"
          BY <4>1 DEF LogInv, LogPhaseInv
        <4> QED
          BY <4>1, <4>2, Zenon DEF NobodyWaits
      <3> QED
        BY <2>2, <3>1, <3>2 DEF StopStep
    <2>3. CASE WorkerStep \/ SpuriousWakeup
      <3>1. UNCHANGED <<running, control>> /\ (running \/ waiting' \subseteq waiting)
        BY <2>3, Zenon DEF WorkerStep, WorkerWaits, WorkerReturns, WorkerTakes, WorkerWrites, SpuriousWakeup
      <3> QED
        BY <3>1 DEF NobodyWaits
    <2>4. ASSUME NEW c \in Clients, Submit(c) \/ SubmitDropped(c) \/ FlushCall(c) \/ FlushReturns(c) \/ FlushWaits(c)
          PROVE  NobodyWaits'
      <3>1. UNCHANGED <<running, control>> /\ (running \/ waiting' \subseteq waiting)
        BY <2>4, Zenon DEF Submit, SubmitDropped, FlushCall, FlushReturns, FlushWaits
      <3> QED
        BY <3>1 DEF NobodyWaits
    <2>5. CASE UNCHANGED logVars
      BY <2>5, Zenon DEF logVars, NobodyWaits
    <2> QED
      BY <2>1, <2>2, <2>3, <2>4, <2>5 DEF LogNext
  <1> QED
    BY <1>1, <1>2, LogInvariant, PTL DEF LogSpec

-----------------------------------------------------------------------------
(* Discovery.                                                              *)

Entries == [record : Records, age : 0 .. MaxAge + 1]

(* What the table and its history hold; the manual configuration names     *)
(* other nodes only.                                                       *)
TableTyped ==
    /\ table \in [DiscIds -> Entries \cup {NoEntry}]
    /\ newest \in [DiscIds -> Keys \cup {NoEntry}]
    /\ told \in [DiscIds -> SUBSET AllDetails]
    /\ silent \in [DiscIds -> 0 .. MaxAge + 1]
    /\ endpoints \subseteq DiscNodes

TableInv == TableTyped /\ TableHonest

(* Nobody has been heard of.                                               *)
LEMMA TableInvInit == DiscInit => TableInv
  BY DiscoveryAssumption DEF DiscInit, TableInv, TableTyped, TableHonest

(* An entry is its record and its age.                                     *)
LEMMA EntryIs ==
    ASSUME NEW r \in Records, NEW a \in 0 .. MaxAge + 1
    PROVE  /\ Entry(r, a) \in Entries /\ Entry(r, a) # NoEntry
           /\ Entry(r, a).record = r /\ Entry(r, a).age = a
  BY EntryAssumption DEF Entry, Entries

(* A node that is heard: a stale record leaves its entry alone; after any  *)
(* other one the entry has its key, age 0, and either its details or, if   *)
(* the key was there before, the details it had.                           *)
LEMMA UpsertedIs ==
    ASSUME NEW e \in Entries \cup {NoEntry}, NEW r \in Records
    PROVE  /\ Upserted(e, r) \in Entries
           /\ e # NoEntry /\ e.record.key.epoch > r.key.epoch => Upserted(e, r) = e
           /\ ~(e # NoEntry /\ e.record.key.epoch > r.key.epoch) =>
                 /\ Upserted(e, r).record.key = r.key /\ Upserted(e, r).age = 0
                 /\ \/ Upserted(e, r).record.details = r.details
                    \/ /\ e # NoEntry /\ e.record.key = r.key
                       /\ Upserted(e, r).record.details = e.record.details
  <1>0. 0 \in 0 .. MaxAge + 1
    BY DiscoveryAssumption
  <1>1. CASE e = NoEntry
    <2>1. Upserted(e, r) = Entry(r, 0)
      BY <1>1 DEF Upserted
    <2> QED
      BY <1>0, <1>1, <2>1, EntryIs
  <1>2. CASE e # NoEntry
    <2>1. e.record.key.epoch \in Int /\ r.key.epoch \in Int /\ e.record \in Records /\ e \in Entries
      BY <1>2 DEF Entries, Records, Keys
    <2>2. CASE e.record.key.epoch > r.key.epoch
      BY <1>2, <2>1, <2>2 DEF Upserted
    <2>3. CASE e.record.key.epoch <= r.key.epoch /\ e.record.key = r.key
      <3>1. Upserted(e, r) = Entry(e.record, 0)
        BY <1>2, <2>1, <2>3 DEF Upserted
      <3> QED
        BY <1>0, <1>2, <2>1, <2>3, <3>1, EntryIs
    <2>4. CASE e.record.key.epoch <= r.key.epoch /\ e.record.key # r.key
      <3>1. Upserted(e, r) = Entry(r, 0)
        BY <1>2, <2>1, <2>4 DEF Upserted
      <3> QED
        BY <1>0, <1>2, <2>1, <2>4, <3>1, EntryIs
    <2> QED
      BY <2>1, <2>2, <2>3, <2>4
  <1> QED
    BY <1>1, <1>2

(* Records of any nodes, in any order, keep the table honest.              *)
LEMMA HearKeeps ==
    ASSUME TableInv, endpoints' \subseteq DiscNodes,
           NEW S \in SUBSET DiscIds, NEW rec \in [S -> Records], Hear(S, rec)
    PROVE  TableInv'
  <1>0. 0 \in 0 .. MaxAge + 1
    BY DiscoveryAssumption
  <1>1. ASSUME NEW n \in DiscIds
        PROVE  /\ table'[n] \in Entries \cup {NoEntry} /\ newest'[n] \in Keys \cup {NoEntry}
               /\ told'[n] \in SUBSET AllDetails /\ silent'[n] \in 0 .. MaxAge + 1
               /\ IF table'[n] = NoEntry THEN newest'[n] = NoEntry
                  ELSE /\ table'[n].record.key = newest'[n] /\ table'[n].record.details \in told'[n]
                       /\ table'[n].age = silent'[n]
    <2>1. /\ table[n] \in Entries \cup {NoEntry} /\ newest[n] \in Keys \cup {NoEntry}
          /\ told[n] \in SUBSET AllDetails /\ silent[n] \in 0 .. MaxAge + 1
          /\ table[n] = NoEntry => newest[n] = NoEntry
          /\ table[n] # NoEntry => /\ table[n].record.key = newest[n] /\ table[n].record.details \in told[n]
                                  /\ table[n].age = silent[n]
      BY DEF TableInv, TableTyped, TableHonest
    <2>2. CASE n \notin S
      BY <2>1, <2>2 DEF Hear
    <2>3. CASE n \in S
      <3>1. rec[n] \in Records /\ rec[n].key \in Keys /\ rec[n].key.epoch \in Int /\ rec[n].details \in AllDetails
        BY <2>3 DEF Records, Keys
      <3>2. table[n] # NoEntry => newest[n] \in Keys /\ newest[n].epoch \in Int
        <4>1. SUFFICES ASSUME table[n] # NoEntry PROVE newest[n] \in Keys /\ newest[n].epoch \in Int
          OBVIOUS
        <4>2. table[n].record.key \in Keys /\ table[n].record.key = newest[n]
          BY <2>1, <4>1 DEF Entries, Records
        <4> QED
          BY <4>2 DEF Keys
      <3> DEFINE fresh == table[n] = NoEntry \/ newest[n].epoch <= rec[n].key.epoch
                 again == table[n] # NoEntry /\ newest[n].epoch = rec[n].key.epoch
      <3>3. table'[n] = Upserted(table[n], rec[n])
        BY <2>3 DEF Hear
      <3>4. /\ newest'[n] = IF fresh THEN rec[n].key ELSE newest[n]
            /\ told'[n] = IF fresh THEN (IF again THEN told[n] ELSE {}) \cup {rec[n].details} ELSE told[n]
            /\ silent'[n] = IF fresh THEN 0 ELSE silent[n]
        BY <2>3 DEF Hear
      <3>5. CASE table[n] # NoEntry /\ newest[n].epoch > rec[n].key.epoch
        <4>1. ~fresh
          BY <3>1, <3>2, <3>5
        <4>2. table'[n] = table[n]
          BY <2>1, <3>1, <3>3, <3>5, UpsertedIs
        <4> QED
          BY <2>1, <3>4, <4>1, <4>2
      <3>6. CASE ~(table[n] # NoEntry /\ newest[n].epoch > rec[n].key.epoch)
        <4>1. fresh
          BY <3>1, <3>2, <3>6
        <4>2. /\ table'[n] \in Entries
              /\ table'[n].record.key = rec[n].key /\ table'[n].age = 0
              /\ \/ table'[n].record.details = rec[n].details
                 \/ /\ table[n] # NoEntry /\ table[n].record.key = rec[n].key
                    /\ table'[n].record.details = table[n].record.details
          BY <2>1, <3>1, <3>3, <3>6, UpsertedIs
        <4>3. table'[n].record.details \in told'[n]
          <5>1. CASE table'[n].record.details = rec[n].details
            BY <3>4, <4>1, <5>1
          <5>2. CASE /\ table[n] # NoEntry /\ table[n].record.key = rec[n].key
                     /\ table'[n].record.details = table[n].record.details
            BY <2>1, <3>4, <4>1, <5>2
          <5> QED
            BY <4>2, <5>1, <5>2
        <4>4. told'[n] \in SUBSET AllDetails
          BY <2>1, <3>1, <3>4
        <4>5. table'[n] # NoEntry
          BY <4>2, EntryAssumption DEF Entries
        <4> QED
          BY <1>0, <3>1, <3>4, <4>1, <4>2, <4>3, <4>4, <4>5
      <3> QED
        BY <3>5, <3>6
    <2> QED
      BY <2>2, <2>3
  <1>2. table' = [n \in DiscIds |-> table'[n]] /\ newest' = [n \in DiscIds |-> newest'[n]]
        /\ told' = [n \in DiscIds |-> told'[n]] /\ silent' = [n \in DiscIds |-> silent'[n]]
    BY DEF Hear
  <1>3. TableTyped'
    BY <1>1, <1>2 DEF TableTyped
  <1>4. TableHonest'
    BY <1>1 DEF TableHonest
  <1> QED
    BY <1>3, <1>4 DEF TableInv

(* So does forgetting nodes.                                               *)
LEMMA ForgetKeeps ==
    ASSUME TableInv, NEW S, Forget(S), endpoints' = endpoints
    PROVE  TableInv'
  <1>1. TableTyped'
    BY DiscoveryAssumption DEF TableInv, TableTyped, Forget
  <1>2. TableHonest'
    BY DEF TableInv, TableTyped, TableHonest, Forget
  <1> QED
    BY <1>1, <1>2 DEF TableInv

(* And the passing of time.                                                *)
LEMMA TickKeeps ==
    ASSUME TableInv, Tick
    PROVE  TableInv'
  <1>1. ASSUME NEW n \in DiscIds
        PROVE  /\ table'[n] \in Entries \cup {NoEntry} /\ silent'[n] \in 0 .. MaxAge + 1
               /\ IF table'[n] = NoEntry THEN newest[n] = NoEntry
                  ELSE /\ table'[n].record.key = newest[n] /\ table'[n].record.details \in told[n]
                       /\ table'[n].age = silent'[n]
    <2>1. /\ table[n] \in Entries \cup {NoEntry} /\ silent[n] \in 0 .. MaxAge + 1
          /\ table[n] = NoEntry => newest[n] = NoEntry
          /\ table[n] # NoEntry => /\ table[n].record.key = newest[n] /\ table[n].record.details \in told[n]
                                  /\ table[n].age = silent[n]
      BY DEF TableInv, TableTyped, TableHonest
    <2>2. CASE table[n] = NoEntry
      BY <2>1, <2>2, DiscoveryAssumption DEF Tick
    <2>3. CASE table[n] # NoEntry
      <3>1. Older(silent[n]) \in 0 .. MaxAge + 1
        BY <2>1, DiscoveryAssumption DEF Older
      <3>2. silent'[n] = Older(silent[n])
        BY <2>3 DEF Tick
      <3>3. table'[n] = [table[n] EXCEPT !.age = Older(silent[n])]
        BY <2>1, <2>3 DEF Tick
      <3>4. /\ table'[n] \in Entries /\ table'[n].record = table[n].record
            /\ table'[n].age = Older(silent[n])
        BY <2>1, <2>3, <3>1, <3>3 DEF Entries
      <3> QED
        BY <2>1, <2>3, <3>1, <3>2, <3>4, EntryAssumption DEF Entries
    <2> QED
      BY <2>2, <2>3
  <1>2. table' = [n \in DiscIds |-> table'[n]] /\ silent' = [n \in DiscIds |-> silent'[n]]
        /\ newest' = newest /\ told' = told /\ endpoints' = endpoints
    BY DEF Tick
  <1>3. TableTyped'
    BY <1>1, <1>2 DEF TableInv, TableTyped
  <1>4. TableHonest'
    BY <1>1, <1>2 DEF TableHonest
  <1> QED
    BY <1>3, <1>4 DEF TableInv

(* Every step of the service keeps the table honest.                       *)
LEMMA TableStep ==
    ASSUME TableInv, DiscNext
    PROVE  TableInv'
  <1>0. ASSUME UNCHANGED tableVars, endpoints' \subseteq DiscNodes
        PROVE  TableInv'
    BY <1>0 DEF tableVars, TableInv, TableTyped, TableHonest
  <1>e. endpoints \subseteq DiscNodes
    BY DEF TableInv, TableTyped
  <1>1. CASE ClearDiscovered
    BY <1>1, ForgetKeeps DEF ClearDiscovered
  <1>2. CASE PruneStale
    BY <1>2, ForgetKeeps DEF PruneStale
  <1>3. CASE Tick
    BY <1>3, TickKeeps
  <1>4. ASSUME NEW n \in DiscNodes, NEW r \in Records, HandleDiscoveryAnnouncement(n, r)
        PROVE  TableInv'
    <2>1. {n} \in SUBSET DiscIds /\ [m \in {n} |-> r] \in [{n} -> Records]
      BY DEF DiscIds
    <2> QED
      BY <1>4, <1>e, <2>1, HearKeeps DEF HandleDiscoveryAnnouncement
  <1>5. ASSUME NEW n \in DiscNodes, NEW r \in Records, MdnsFound(n, r)
        PROVE  TableInv'
    <2>1. FromTxt(r) \in Records
      BY DEF FromTxt, Records, Keys, Names, AllDetails
    <2>2. Mangled(n) \in DiscIds
      BY DEF DiscIds
    <2>3. {Mangled(n)} \in SUBSET DiscIds
          /\ [m \in {Mangled(n)} |-> FromTxt(r)] \in [{Mangled(n)} -> Records]
      BY <2>1, <2>2
    <2> QED
      BY <1>5, <1>e, <2>3, HearKeeps DEF MdnsFound
  <1>6. CASE StartListeningManually
    <2>1. CASE endpoints = {}
      BY <1>6, <1>0, <1>e, <2>1 DEF StartListeningManually
    <2>2. CASE endpoints # {}
      <3>1. PICK v \in [endpoints -> Versions \cup {JunkVersion}] :
               Hear(endpoints, [n \in endpoints |-> Configured(v[n])])
        BY <1>6, <2>2 DEF StartListeningManually
      <3>2. [n \in endpoints |-> Configured(v[n])] \in [endpoints -> Records]
        BY DiscoveryAssumption DEF Configured, Records, Keys, Names, AllDetails
      <3>3. endpoints \in SUBSET DiscIds /\ endpoints' \subseteq DiscNodes
        BY <1>6, <1>e DEF StartListeningManually, DiscIds
      <3> QED
        BY <3>1, <3>2, <3>3, HearKeeps
    <2> QED
      BY <2>1, <2>2
  <1>7. ASSUME NEW S \in SUBSET DiscNodes, SetManualConfigEndpoints(S)
        PROVE  TableInv'
    BY <1>7, <1>0 DEF SetManualConfigEndpoints
  <1>8. CASE StartListening \/ StopListening \/ StopAnnouncing
    BY <1>8, <1>0, <1>e DEF StartListening, StopListening, StopAnnouncing
  <1>9. ASSUME NEW d \in Digests, AnnounceMdns(d) \/ AnnounceUdp(d) \/ AnnounceManually(d) \/ UpdateDigest(d)
        PROVE  TableInv'
    BY <1>9, <1>0, <1>e DEF AnnounceMdns, AnnounceUdp, AnnounceManually, UpdateDigest
  <1> QED
    BY <1>1, <1>2, <1>3, <1>4, <1>5, <1>6, <1>7, <1>8, <1>9 DEF DiscNext

(* The invariant holds whatever is heard.                                  *)
LEMMA TableInvariant == DiscSpec => []TableInv
  <1>1. TableInv /\ [DiscNext]_discVars => TableInv'
    BY TableStep DEF discVars, tableVars, TableInv, TableTyped, TableHonest
  <1> QED
    BY <1>1, TableInvInit, PTL DEF DiscSpec

(* However late, repeated or out of order records arrive, an entry has the *)
(* key of the newest session's last record, details of that session, and   *)
(* its true age.                                                           *)
THEOREM TableHonestHolds == DiscSpec => []TableHonest
  <1>1. TableInv => TableHonest
    BY DEF TableInv
  <1> QED
    BY <1>1, TableInvariant, PTL

(* The flags, the transport and the digests of the service.                *)
FlagsTyped ==
    /\ announcing \in BOOLEAN /\ listening \in BOOLEAN /\ udpOpen \in BOOLEAN
    /\ manualOn \in BOOLEAN /\ callbackSet \in BOOLEAN

ServiceTyped ==
    /\ FlagsTyped
    /\ transport \in {"None", "Mdns", "UdpBroadcast", "ManualConfig"}
    /\ digest \in Digests \cup {NoDigest} /\ mdnsTxt \in Digests \cup {NoDigest}
    /\ browse \in {"off", "deaf", "hearing"}

(* Every step of the service keeps them.                                   *)
LEMMA ServiceStep ==
    ASSUME ServiceTyped, DiscNext
    PROVE  ServiceTyped'
  <1>1. CASE ClearDiscovered \/ PruneStale \/ Tick
    BY <1>1, Zenon DEF ClearDiscovered, PruneStale, Tick, annVarsOf, ServiceTyped, FlagsTyped
  <1>2. ASSUME NEW n \in DiscNodes, NEW r \in Records, HandleDiscoveryAnnouncement(n, r) \/ MdnsFound(n, r)
        PROVE  ServiceTyped'
    BY <1>2, Zenon DEF HandleDiscoveryAnnouncement, MdnsFound, annVarsOf, ServiceTyped, FlagsTyped
  <1>3. CASE StartListening
    BY <1>3 DEF StartListening, annVarsOf, ServiceTyped, FlagsTyped
  <1>4. CASE StartListeningManually
    <2>1. UNCHANGED <<announcing, digest, mdnsTxt, udpOpen, browse, callbackSet>> /\ listening' = TRUE
      BY <1>4, Zenon DEF StartListeningManually
    <2>2. (manualOn' = manualOn /\ transport' = transport) \/ (manualOn' = TRUE /\ transport' = "ManualConfig")
      BY <1>4, Zenon DEF StartListeningManually
    <2> QED
      BY <2>1, <2>2, Zenon DEF ServiceTyped, FlagsTyped
  <1>5. CASE StopListening
    BY <1>5, Zenon DEF StopListening, annVarsOf, ServiceTyped, FlagsTyped
  <1>6. ASSUME NEW S \in SUBSET DiscNodes, SetManualConfigEndpoints(S)
        PROVE  ServiceTyped'
    BY <1>6, Zenon DEF SetManualConfigEndpoints, annVarsOf, ServiceTyped, FlagsTyped
  <1>7. ASSUME NEW d \in Digests, AnnounceMdns(d) \/ AnnounceUdp(d) \/ AnnounceManually(d) \/ UpdateDigest(d)
        PROVE  ServiceTyped'
    BY <1>7 DEF AnnounceMdns, AnnounceUdp, AnnounceManually, UpdateDigest, UdpOpens, ServiceTyped, FlagsTyped
  <1>8. CASE StopAnnouncing
    BY <1>8, Zenon DEF StopAnnouncing, ServiceTyped, FlagsTyped
  <1> QED
    BY <1>1, <1>2, <1>3, <1>4, <1>5, <1>6, <1>7, <1>8 DEF DiscNext

(* The state of the discovery service has its type, table included.        *)
LEMMA DiscTyped == DiscSpec => []DiscTypeOK
  <1>1. DiscInit => ServiceTyped
    BY DEF DiscInit, ServiceTyped, FlagsTyped
  <1>2. ASSUME ServiceTyped, UNCHANGED discVars PROVE ServiceTyped'
    BY <1>2, Zenon DEF discVars, annVarsOf, ServiceTyped, FlagsTyped
  <1>3. ServiceTyped /\ [DiscNext]_discVars => ServiceTyped'
    BY <1>2, ServiceStep
  <1>4. TableInv /\ ServiceTyped => DiscTypeOK
    <2> SUFFICES ASSUME TableInv, ServiceTyped PROVE DiscTypeOK
      OBVIOUS
    <2>1. {announcing, listening, udpOpen, manualOn, callbackSet} \subseteq BOOLEAN
      BY Zenon DEF ServiceTyped, FlagsTyped
    <2> QED
      BY <2>1, Zenon DEF TableInv, TableTyped, Entries, ServiceTyped, DiscTypeOK
  <1> QED
    BY <1>1, <1>3, <1>4, TableInvariant, PTL DEF DiscSpec

-----------------------------------------------------------------------------
(* Announcer.                                                              *)

(* What start holds at each of its steps, and what has come of its request *)
(* by then; the platform never changes, and running_ is a flag.            *)
StartInv ==
    /\ caller \in StartSteps => annRunning = FALSE /\ currentTxt = callerTxt
    /\ caller \in {"starting", "instance", "register"} => request = "none" /\ published = NoTxt
    /\ caller = "starting" => handles = {}
    /\ caller = "instance" => platform = "win" /\ handles = {"registerContext", "doneEvent"}
    /\ caller = "register" => platform = "win" /\ handles = {"registerContext", "doneEvent", "instance"}
    /\ caller \in {"wait", "giveUp"} =>
          /\ platform = "win" /\ handles = {"registerContext", "doneEvent", "registerCancel", "instance"}
          /\ published = IF request = "registered" THEN Encoded(callerTxt) ELSE NoTxt
    /\ caller \notin StartSteps => request # "pending" /\ (annRunning \/ request = "none")

AnnInv ==
    /\ platform \in {"win", "apple"} /\ annRunning \in BOOLEAN
    /\ StartInv /\ AnnouncerConsistent

(* A step of start leaves the announcer as the next step expects it, or    *)
(* with all its handles or none.                                           *)
LEMMA StartStepKeeps ==
    ASSUME AnnInv, StartStep
    PROVE  AnnInv'
  <1>0. platform' = platform /\ subscribed' = subscribed /\ callbacks' = callbacks /\ currentTxt' = currentTxt
    BY DEF StartStep, CreateEvent, ConstructInstance, DnsServiceRegister, WaitReturns, GiveUp, RegisterApple,
           RestOfStart
  <1>p. platform \in {"win", "apple"} /\ callbacks = subscribed
    BY DEF AnnInv, AnnouncerConsistent
  <1>1. CASE CreateEvent
    <2>1. /\ platform = "win" /\ handles = {} /\ request = "none" /\ published = NoTxt
          /\ annRunning = FALSE /\ currentTxt = callerTxt
      BY <1>1 DEF CreateEvent, StartAt, AnnInv, StartInv, StartSteps
    <2>2. CASE GoOn("instance") /\ handles' = {"registerContext", "doneEvent"}
      BY <1>0, <1>1, <1>p, <2>1, <2>2 DEF CreateEvent, GoOn, AnnInv, StartInv, AnnouncerConsistent, StartSteps
    <2>3. CASE Return(FALSE) /\ handles' = {}
      BY <1>0, <1>1, <1>p, <2>1, <2>3 DEF CreateEvent, Return, AnnInv, StartInv, AnnouncerConsistent, StartSteps
    <2> QED
      BY <1>1, <2>1, <2>2, <2>3 DEF CreateEvent
  <1>2. CASE ConstructInstance
    <2>1. /\ platform = "win" /\ handles = {"registerContext", "doneEvent"} /\ request = "none"
          /\ published = NoTxt /\ annRunning = FALSE /\ currentTxt = callerTxt
      BY <1>2 DEF ConstructInstance, StartAt, AnnInv, StartInv, StartSteps
    <2>2. CASE GoOn("register") /\ handles' = {"registerContext", "doneEvent", "instance"}
      BY <1>0, <1>2, <1>p, <2>1, <2>2 DEF ConstructInstance, GoOn, AnnInv, StartInv, AnnouncerConsistent, StartSteps
    <2>3. CASE Return(FALSE) /\ handles' = {}
      BY <1>0, <1>2, <1>p, <2>1, <2>3 DEF ConstructInstance, Return, AnnInv, StartInv, AnnouncerConsistent, StartSteps
    <2> QED
      BY <1>2, <2>1, <2>2, <2>3 DEF ConstructInstance
  <1>3. CASE DnsServiceRegister
    <2>1. /\ platform = "win" /\ handles = {"registerContext", "doneEvent", "instance"} /\ request = "none"
          /\ published = NoTxt /\ published' = NoTxt /\ annRunning = FALSE /\ currentTxt = callerTxt
      BY <1>3 DEF DnsServiceRegister, StartAt, AnnInv, StartInv, StartSteps
    <2>2. CASE /\ GoOn("wait") /\ request' = "pending"
               /\ handles' = {"registerContext", "doneEvent", "registerCancel", "instance"}
      BY <1>0, <1>p, <2>1, <2>2 DEF GoOn, AnnInv, StartInv, AnnouncerConsistent, StartSteps
    <2>3. CASE Return(FALSE) /\ handles' = {} /\ request' = request
      BY <1>0, <1>p, <2>1, <2>3 DEF Return, AnnInv, StartInv, AnnouncerConsistent, StartSteps
    <2> QED
      BY <1>3, <2>1, <2>2, <2>3 DEF DnsServiceRegister
  <1>4. CASE WaitReturns
    <2>1. /\ platform = "win" /\ handles = {"registerContext", "doneEvent", "registerCancel", "instance"}
          /\ published = IF request = "registered" THEN Encoded(callerTxt) ELSE NoTxt
          /\ annRunning = FALSE /\ currentTxt = callerTxt
      BY <1>4 DEF WaitReturns, StartAt, AnnInv, StartInv, StartSteps
    <2>2. UNCHANGED <<handles, published, request>>
      BY <1>4 DEF WaitReturns
    <2>e. Encoded(callerTxt) = callerTxt /\ Encoded(currentTxt)' = currentTxt /\ Encoded(callerTxt)' = callerTxt'
      BY <1>0, <2>1 DEF Encoded
    <2>3. CASE request = "registered"
      <3>1. Return(TRUE)
        BY <1>4, <2>3 DEF WaitReturns
      <3> QED
        BY <1>0, <1>p, <2>1, <2>2, <2>3, <2>e, <3>1
        DEF Return, AnnInv, StartInv, AnnouncerConsistent, StartSteps, AllHandles
    <2>4. CASE request # "registered"
      <3>1. GoOn("giveUp")
        BY <1>4, <2>4 DEF WaitReturns
      <3> QED
        BY <1>0, <1>p, <2>1, <2>2, <2>4, <2>e, <3>1
        DEF GoOn, AnnInv, StartInv, AnnouncerConsistent, StartSteps
    <2> QED
      BY <2>3, <2>4
  <1>5. CASE GiveUp
    <2>1. handles = {"registerContext", "doneEvent", "registerCancel", "instance"}
      BY <1>5 DEF GiveUp, StartAt, AnnInv, StartInv
    <2>2. handles' = {} /\ request' = "none" /\ published' = NoTxt /\ caller' = "idle" /\ annRunning' = FALSE
      BY <1>5, <2>1 DEF GiveUp, Return
    <2> QED
      BY <1>0, <1>p, <2>2 DEF AnnInv, StartInv, AnnouncerConsistent, StartSteps
  <1>6. CASE RegisterApple
    <2>1. /\ platform = "apple" /\ handles = {} /\ request = "none" /\ published = NoTxt
          /\ currentTxt = callerTxt /\ request' = request
      BY <1>6 DEF RegisterApple, StartAt, AnnInv, StartInv, StartSteps
    <2>e. Encoded(callerTxt) = Encoded(currentTxt)'
      BY <1>0, <2>1 DEF Encoded
    <2>2. CASE Return(TRUE) /\ handles' = {"serviceRef"} /\ published' = Encoded(callerTxt)
      BY <1>0, <1>p, <2>1, <2>2, <2>e DEF Return, AnnInv, StartInv, AnnouncerConsistent, StartSteps, AllHandles
    <2>3. CASE Return(FALSE) /\ UNCHANGED <<handles, published>>
      BY <1>0, <1>p, <2>1, <2>3 DEF Return, AnnInv, StartInv, AnnouncerConsistent, StartSteps
    <2> QED
      BY <1>6, <2>1, <2>2, <2>3 DEF RegisterApple
  <1> QED
    BY <1>1, <1>2, <1>3, <1>4, <1>5, <1>6 DEF StartStep

(* An answer of the responder finds the context of its request, whether    *)
(* start still waits for it or has given up.                               *)
LEMMA CompleteKeeps ==
    ASSUME AnnInv, RegisterComplete
    PROVE  AnnInv'
  <1>1. /\ request = "pending"
        /\ UNCHANGED <<platform, annRunning, handles, currentTxt, caller, callerTxt, subscribed, callbacks>>
        /\ request' \in {"registered", "failed"}
        /\ published' = IF request' = "registered" THEN Encoded(callerTxt) ELSE published
    BY DEF RegisterComplete
  <1>2. caller \in {"wait", "giveUp"}
    BY <1>1 DEF AnnInv, StartInv, StartSteps
  <1>3. published = NoTxt /\ platform = "win" /\ platform' = "win"
    BY <1>1, <1>2 DEF AnnInv, StartInv
  <1>4. published' = IF request' = "registered" THEN Encoded(callerTxt)' ELSE NoTxt
    BY <1>1, <1>3 DEF Encoded
  <1> QED
    BY <1>1, <1>2, <1>3, <1>4 DEF AnnInv, StartInv, AnnouncerConsistent, StartSteps

(* Every call and every step of the refresh thread keeps it so.            *)
LEMMA AnnStep ==
    ASSUME AnnInv, AnnNext
    PROVE  AnnInv'
  <1>0. ASSUME UNCHANGED <<platform, serviceVars, subscribed, callbacks>>,
               caller' \notin StartSteps, caller \notin StartSteps
        PROVE  AnnInv'
    <2>1. Encoded(currentTxt)' = Encoded(currentTxt) /\ AllHandles' = AllHandles
      BY <1>0 DEF serviceVars, Encoded, AllHandles
    <2> QED
      BY <1>0, <2>1 DEF serviceVars, AnnInv, StartInv, AnnouncerConsistent, StartSteps
  <1>u. ASSUME UNCHANGED <<platform, serviceVars, subscribed, callbacks, caller, callerTxt>>
        PROVE  AnnInv'
    BY <1>u, Zenon DEF serviceVars, AnnInv, StartInv, AnnouncerConsistent, AllHandles, Encoded
  <1>1. ASSUME NEW txt \in Txts, AnnStart(txt)
        PROVE  AnnInv'
    <2>1. /\ caller = "idle" /\ annRunning = FALSE /\ caller' = "starting" /\ callerTxt' = txt /\ currentTxt' = txt
          /\ UNCHANGED <<platform, annRunning, handles, published, request, subscribed, callbacks>>
      BY <1>1 DEF AnnStart, Ready, BeginStart, AnnInv
    <2>2. handles = {} /\ published = NoTxt /\ request = "none"
      BY <2>1 DEF AnnInv, StartInv, AnnouncerConsistent, StartSteps
    <2> QED
      BY <2>1, <2>2 DEF AnnInv, StartInv, AnnouncerConsistent, StartSteps
  <1>2. ASSUME NEW name \in StopCalls, NEW next, StopCall(name, next)
        PROVE  AnnInv'
    <2>1. UNCHANGED <<platform, serviceVars, subscribed, callbacks>> /\ caller = "idle" /\ caller' = name
      BY <1>2 DEF StopCall, Ready
    <2> QED
      BY <1>0, <2>1 DEF StopCalls, StartSteps
  <1>3. CASE StopFinish
    <2>1. /\ platform' = platform /\ subscribed' = {} /\ callbacks' = {} /\ request' = "none"
          /\ published' = NoTxt /\ annRunning' = FALSE
      BY <1>3 DEF StopFinish, AnnInv, AnnouncerConsistent
    <2>2. handles' = {}
      <3>1. caller \notin StartSteps /\ handles' = handles \ AllHandles
        BY <1>3 DEF StopFinish, StopCalls, StartSteps
      <3>2. handles \subseteq AllHandles
        BY <3>1 DEF AnnInv, AnnouncerConsistent
      <3> QED
        BY <3>1, <3>2
    <2>3. caller' = "idle" \/ (caller' = "starting" /\ currentTxt' = callerTxt')
      BY <1>3 DEF StopFinish, BeginStart
    <2> QED
      BY <2>1, <2>2, <2>3 DEF AnnInv, StartInv, AnnouncerConsistent, StartSteps
  <1>4. CASE StartAutoRefresh \/ WakeUp \/ ThreadRefresh
    <2>1. UNCHANGED <<platform, serviceVars, subscribed, callbacks, caller, callerTxt>>
      BY <1>4 DEF StartAutoRefresh, WakeUp, ThreadRefresh
    <2> QED
      BY <1>u, <2>1
  <1>5. CASE StopAutoRefresh \/ JoinRefresh
    <2>1. /\ UNCHANGED <<platform, serviceVars, subscribed, callbacks>>
          /\ caller \in {"idle", "stopAutoRefresh"} /\ caller' \in {"idle", "stopAutoRefresh"}
      BY <1>5 DEF StopAutoRefresh, JoinRefresh, Ready
    <2> QED
      BY <1>0, <2>1 DEF StartSteps
  <1>6. ASSUME NEW s \in Sources, Subscribe(s) \/ Unsubscribe(s)
        PROVE  AnnInv'
    <2>1. UNCHANGED <<platform, serviceVars, caller, callerTxt>>
      BY <1>6 DEF Subscribe, Unsubscribe
    <2>2. callbacks' = subscribed'
      BY <1>6 DEF Subscribe, Unsubscribe, AnnInv, AnnouncerConsistent
    <2> QED
      BY <2>1, <2>2, Zenon DEF serviceVars, AnnInv, StartInv, AnnouncerConsistent, AllHandles, Encoded
  <1>7. CASE StartStep \/ RegisterComplete
    BY <1>7, StartStepKeeps, CompleteKeeps
  <1>8. "stop" \in StopCalls /\ "updateTxt" \in StopCalls /\ "refresh" \in StopCalls /\ "republish" \in StopCalls
    BY DEF StopCalls
  <1> QED
    BY <1>1, <1>2, <1>3, <1>4, <1>5, <1>6, <1>7, <1>8 DEF AnnNext, AnnStop, AnnUpdateTxt, AnnRefresh, SourceChanged

(* No sequence of starts that fail at any step, late answers, updates,     *)
(* refreshes, stops and changes of the network leaks a handle, frees one   *)
(* that the responder may still use, or leaves a stale publication.        *)
THEOREM AnnouncerConsistentHolds == AnnSpec => []AnnouncerConsistent
  <1>1. AnnInit => AnnInv
    BY DEF AnnInit, AnnInv, StartInv, AnnouncerConsistent, StartSteps
  <1>2. ASSUME AnnInv, UNCHANGED annVars PROVE AnnInv'
    BY <1>2, Zenon DEF annVars, serviceVars, AnnInv, StartInv, AnnouncerConsistent, AllHandles, Encoded
  <1>3. AnnInv /\ [AnnNext]_annVars => AnnInv'
    BY <1>2, AnnStep
  <1>4. AnnInv => AnnouncerConsistent
    BY DEF AnnInv
  <1> QED
    BY <1>1, <1>3, <1>4, PTL DEF AnnSpec

-----------------------------------------------------------------------------
(* The services together.                                                  *)

(* The composition that is model-checked adds nothing to the services and  *)
(* takes nothing away: each of them keeps to its own specification in it,  *)
(* so everything that is proved of a service holds of the composition.     *)
THEOREM CompositionIsModular ==
    Spec => IdSpec /\ TrustSpec /\ FenceSpec /\ TopoSpec /\ DiscSpec /\ AnnSpec /\ LogSpec /\ PairSpec
  <1>1. Init => IdInit /\ TrustInit /\ FenceInit /\ TopoInit /\ DiscInit /\ AnnInit /\ LogInit /\ PairInit
    BY Zenon DEF Init
  <1>2. [Next]_vars => [IdNext]_idVars /\ [TrustNext]_trustVars /\ [FenceNext]_fenceVars /\ [TopoNext]_topoVars
    BY Zenon DEF Next, vars
  <1>3. [Next]_vars => [DiscNext]_discVars /\ [AnnNext]_annVars /\ [LogNext]_logVars /\ [PairNext]_pairVars
    BY Zenon DEF Next, vars
  <1> QED
    BY <1>1, <1>2, <1>3, PTL
       DEF Spec, IdSpec, TrustSpec, FenceSpec, TopoSpec, DiscSpec, AnnSpec, LogSpec, PairSpec

(* No call, message, crash, failed write or damaged file takes the state   *)
(* of a service out of its type; a list of peers read back from a damaged  *)
(* file, for one, holds peers and zero entries, nothing else.              *)
THEOREM ControlTypeOKHolds == Spec => []ControlTypeOK
  <1>1. IdInv => IdTypeOK
    BY DEF IdInv
  <1>2. TrustInv => TrustTypeOK
    <2> SUFFICES ASSUME TrustInv PROVE TrustTypeOK
      OBVIOUS
    <2>1. /\ Unrevoked \subseteq TrustPeers \cup {ZeroLine}
          /\ Unrevoked \cup {Garbage} \subseteq TrustPeers \cup {ZeroLine, Garbage}
      BY DEF Unrevoked
    <2>2. /\ trustList \in Seq(TrustPeers \cup {ZeroLine})
          /\ trustFile = NoFile \/ trustFile \in Seq(TrustPeers \cup {ZeroLine, Garbage})
      BY <2>1, SeqMonotonic, Zenon DEF TrustInv
    <2> QED
      BY <2>2, Zenon DEF TrustInv, TrustTypeOK
  <1>3. TopoInv => TopoTypeOK
    BY DEF TopoInv
  <1>4. LogInv => LogTypeOK
    BY DEF LogInv
  <1> QED
    BY <1>1, <1>2, <1>3, <1>4, CompositionIsModular, IdInvariant, TrustInvariant, TopoInvariant,
       DiscTyped, LogInvariant, PTL DEF ControlTypeOK

=============================================================================
