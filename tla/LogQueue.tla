------------------------------ MODULE LogQueue ------------------------------
(***************************************************************************)
(* Logger (core/common/logger.cpp): a bounded queue, one worker that       *)
(* writes its lines to the sink, and one condition variable shared by the  *)
(* worker and by flush.                                                    *)
(*                                                                         *)
(* A critical section of mutex_ is one step.  A thread in cv_.wait is in   *)
(* `waiting'; a notification or a spurious wake-up takes it out, and it    *)
(* then tests its predicate again under the mutex.  start and stop belong  *)
(* to one controlling thread, submit and flush to any number of clients.   *)
(* Lines are the numbers 1, 2, ... in the order of their acceptance.       *)
(***************************************************************************)
EXTENDS Integers, Sequences

CONSTANTS
    Clients,    \* threads that log
    Worker,     \* the thread of workerLoop
    kMaxQueue,  \* capacity of queue_
    MaxLines,   \* bound: accepted lines
    MaxDropped  \* bound: lines counted as dropped

ASSUME LogAssumption ==
    /\ Worker \notin Clients
    /\ kMaxQueue \in Nat \ {0} /\ MaxLines \in Nat /\ MaxDropped \in Nat

VARIABLES
    running,    \* running_
    queue,      \* queue_
    hasSink,    \* sink_ is set
    waiting,    \* the threads in cv_.wait
    workerPc,   \* "none", "test", "write" or "done" (returned, to be joined)
    line,       \* the line the worker has taken, <<>> when it has none
    control,    \* the controlling thread: "idle", "notify", "join" or "flush"
    flushing,   \* the clients in flush
    dropped,    \* dropped_, capped at MaxDropped
    lines,   \* history: how many lines were pushed to the queue
    written     \* history: lines given to the sink

logVars == <<running, queue, hasSink, waiting, workerPc, line, control, flushing, dropped, lines, written>>

LogInit ==
    /\ running = FALSE /\ queue = <<>> /\ hasSink = FALSE /\ waiting = {}
    /\ workerPc = "none" /\ line = <<>> /\ control = "idle" /\ flushing = {}
    /\ dropped = 0 /\ lines = 0 /\ written = <<>>

-----------------------------------------------------------------------------
(* start and stop.                                                         *)

LogStart ==
    /\ control = "idle" /\ ~running
    /\ running' = TRUE /\ hasSink' = TRUE /\ workerPc' = "test"
    /\ UNCHANGED <<queue, waiting, line, control, flushing, dropped, lines, written>>

StopRequest ==
    /\ control = "idle" /\ running
    /\ running' = FALSE /\ control' = "notify"
    /\ UNCHANGED <<queue, hasSink, waiting, workerPc, line, flushing, dropped, lines, written>>

(* Mutant: stop wakes one waiting thread only. *)
StopNotifiesOne ==
    /\ control = "notify"
    /\ \/ waiting = {} /\ waiting' = {}
       \/ \E t \in waiting : waiting' = waiting \ {t}
    /\ control' = "join"
    /\ UNCHANGED <<running, queue, hasSink, workerPc, line, flushing, dropped, lines, written>>

StopNotify ==
    /\ control = "notify"
    /\ waiting' = {} /\ control' = "join"
    /\ UNCHANGED <<running, queue, hasSink, workerPc, line, flushing, dropped, lines, written>>

StopJoin ==
    /\ control = "join" /\ workerPc = "done"
    /\ workerPc' = "none" /\ control' = "flush"
    /\ UNCHANGED <<running, queue, hasSink, waiting, line, flushing, dropped, lines, written>>

(* flush passes at once, since running_ is false; the sink is cleared. *)
StopClear ==
    /\ control = "flush" /\ (queue = <<>> \/ ~running)
    /\ hasSink' = FALSE /\ control' = "idle"
    /\ UNCHANGED <<running, queue, waiting, workerPc, line, flushing, dropped, lines, written>>

-----------------------------------------------------------------------------
(* submit and flush.                                                       *)

(* Mutant: the queue's capacity is not tested. *)
SubmitUnbounded(c) ==
    /\ c \notin flushing /\ lines < MaxLines /\ running
    /\ lines' = lines + 1 /\ queue' = Append(queue, lines + 1)
    /\ UNCHANGED <<running, hasSink, waiting, workerPc, line, control, flushing, dropped, written>>

(* The line is queued and one thread woken, whichever it is.  A line for a *)
(* logger that does not run is dropped without a trace.                    *)
Submit(c) ==
    /\ c \notin flushing /\ lines < MaxLines
    /\ running /\ Len(queue) < kMaxQueue
    /\ lines' = lines + 1 /\ queue' = Append(queue, lines + 1)
    /\ \/ waiting = {} /\ waiting' = {}
       \/ \E t \in waiting : waiting' = waiting \ {t}
    /\ UNCHANGED <<running, hasSink, workerPc, line, control, flushing, dropped, written>>

(* A full queue drops the new line and counts it, running or not. *)
SubmitDropped(c) ==
    /\ c \notin flushing /\ Len(queue) >= kMaxQueue /\ dropped < MaxDropped
    /\ dropped' = dropped + 1
    /\ UNCHANGED <<running, queue, hasSink, waiting, workerPc, line, control, flushing, lines, written>>

FlushCall(c) ==
    /\ c \notin flushing
    /\ flushing' = flushing \cup {c}
    /\ UNCHANGED <<running, queue, hasSink, waiting, workerPc, line, control, dropped, lines, written>>

FlushReturns(c) ==
    /\ c \in flushing \ waiting /\ (queue = <<>> \/ ~running)
    /\ flushing' = flushing \ {c}
    /\ UNCHANGED <<running, queue, hasSink, waiting, workerPc, line, control, dropped, lines, written>>

FlushWaits(c) ==
    /\ c \in flushing \ waiting /\ queue # <<>> /\ running
    /\ waiting' = waiting \cup {c}
    /\ UNCHANGED <<running, queue, hasSink, workerPc, line, control, flushing, dropped, lines, written>>

SpuriousWakeup ==
    /\ \E t \in waiting : waiting' = waiting \ {t}
    /\ UNCHANGED <<running, queue, hasSink, workerPc, line, control, flushing, dropped, lines, written>>

-----------------------------------------------------------------------------
(* workerLoop.                                                             *)

WorkerWaits ==
    /\ workerPc = "test" /\ Worker \notin waiting
    /\ queue = <<>> /\ running
    /\ waiting' = waiting \cup {Worker}
    /\ UNCHANGED <<running, queue, hasSink, workerPc, line, control, flushing, dropped, lines, written>>

(* Mutant: a stopped worker returns although lines are queued. *)
WorkerReturnsAtOnce ==
    /\ workerPc = "test" /\ Worker \notin waiting /\ ~running
    /\ workerPc' = "done"
    /\ UNCHANGED <<running, queue, hasSink, waiting, line, control, flushing, dropped, lines, written>>

WorkerReturns ==
    /\ workerPc = "test" /\ Worker \notin waiting
    /\ queue = <<>> /\ ~running
    /\ workerPc' = "done"
    /\ UNCHANGED <<running, queue, hasSink, waiting, line, control, flushing, dropped, lines, written>>

WorkerTakes ==
    /\ workerPc = "test" /\ Worker \notin waiting /\ queue # <<>>
    /\ line' = <<Head(queue)>> /\ queue' = Tail(queue) /\ workerPc' = "write"
    /\ UNCHANGED <<running, hasSink, waiting, control, flushing, dropped, lines, written>>

(* Outside the mutex: a line without a sink is lost. *)
WorkerWrites ==
    /\ workerPc = "write"
    /\ written' = IF hasSink THEN written \o line ELSE written
    /\ line' = <<>> /\ workerPc' = "test"
    /\ UNCHANGED <<running, queue, hasSink, waiting, control, flushing, dropped, lines>>

WorkerStep == WorkerWaits \/ WorkerReturns \/ WorkerTakes \/ WorkerWrites

StopStep == StopNotify \/ StopJoin \/ StopClear

LogNext ==
    \/ LogStart \/ StopRequest \/ StopStep \/ WorkerStep \/ SpuriousWakeup
    \/ \E c \in Clients : Submit(c) \/ SubmitDropped(c) \/ FlushCall(c) \/ FlushReturns(c) \/ FlushWaits(c)

LogSpec == LogInit /\ [][LogNext]_logVars

(* Threads that can run do run; nothing is assumed of spurious wake-ups,   *)
(* and nobody has to call start, stop, submit or flush.                    *)
LogFairness ==
    /\ WF_logVars(StopStep) /\ WF_logVars(WorkerStep)
    /\ \A c \in Clients : WF_logVars(FlushReturns(c)) /\ WF_logVars(FlushWaits(c))

LogFairSpec == LogSpec /\ LogFairness

-----------------------------------------------------------------------------
(* Properties.                                                             *)

(* Every variable has its type; only the worker and flush wait. *)
LogTypeOK ==
    /\ running \in BOOLEAN /\ hasSink \in BOOLEAN
    /\ queue \in Seq(1 .. MaxLines) /\ Len(queue) <= kMaxQueue
    /\ line \in {<<>>} \cup {<<n>> : n \in 1 .. MaxLines}
    /\ workerPc \in {"none", "test", "write", "done"}
    /\ control \in {"idle", "notify", "join", "flush"}
    /\ flushing \subseteq Clients /\ waiting \subseteq flushing \cup {Worker}
    /\ dropped \in 0 .. MaxDropped /\ lines \in 0 .. MaxLines /\ written \in Seq(1 .. MaxLines)

(* Accepted lines are neither lost, nor repeated, nor reordered, through   *)
(* any number of stops and starts: those written, the one in hand and the  *)
(* queue are the accepted lines in their order, and when stop has returned *)
(* all are written, although clients go on submitting while it runs.       *)
LinesKept ==
    /\ written \o line \o queue = [n \in 1 .. lines |-> n]
    /\ (control = "idle" /\ ~running) => line \o queue = <<>>

(* stop returns: the worker it joins is woken, empties the queue and ends. *)
LogStopReturns == (control # "idle") ~> (control = "idle")

(* When the logger is stopped for good nobody stays in flush. *)
StopReleasesFlush == <>[](~running) => \A c \in Clients : []<>(c \notin flushing)

=============================================================================
