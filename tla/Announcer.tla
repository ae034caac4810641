----------------------------- MODULE Announcer -----------------------------
(***************************************************************************)
(* MdnsAnnouncer (core/s07_discovery) on Windows and macOS: registration   *)
(* with the responder, automatic refresh by a thread of its own, and       *)
(* republication on network and topology changes.                          *)
(*                                                                         *)
(* The two platforms differ in the handles they hold and in how they       *)
(* register: macOS with one call, Windows with a request that a callback   *)
(* on a thread of the responder completes.  Calls come from one thread,    *)
(* which stop makes wait for the refresh thread; the refresh thread calls  *)
(* refresh too.  std::terminate is the end of everything: `terminated'.    *)
(***************************************************************************)
EXTENDS Integers

CONSTANTS
    Txts,         \* TXT records: sets of entries
    LongEntries,  \* the entries of more than 255 bytes
    NoTxt         \* nothing

ASSUME AnnouncerAssumption == NoTxt \notin Txts

VARIABLES
    platform,        \* "win" or "apple", fixed
    annRunning,      \* running_
    handles,         \* the handles and objects the announcer has made and not freed
    currentTxt,      \* currentTxt_
    published,       \* external: what the responder publishes for it, or NoTxt
    request,         \* external: the registration request of Windows, "none",
                     \* "pending", or "registered" or "failed" with the event set
    refreshEnabled,  \* refreshEnabled_
    refreshThread,   \* "none", "sleeping", "refreshing" or "ended" (to be joined)
    subscribed,      \* the sources subscribed to, of {"network", "topology"}
    callbacks,       \* the sources whose callback is this announcer's
    caller,          \* "idle", the call that waits for the refresh thread, or the
                     \* step that start has reached
    callerTxt,       \* what the call will publish, NoTxt for nothing
    terminated,      \* the process has been terminated
    autoRefresh,     \* history: automatic refresh was asked for and not ended
    refreshed        \* history: it has refreshed since it was asked for

serviceVars == <<annRunning, handles, currentTxt, published, request>>
threadVars == <<refreshEnabled, refreshThread, terminated, autoRefresh, refreshed>>
annVars == <<platform, serviceVars, threadVars, subscribed, callbacks, caller, callerTxt>>

Sources == {"network", "topology"}
AllHandles == IF platform = "win" THEN {"registerContext", "doneEvent", "registerCancel", "instance"}
                                  ELSE {"serviceRef"}

(* The calls that join the refresh thread, and the steps of start. *)
StopCalls == {"stop", "updateTxt", "refresh", "republish", "stopAutoRefresh"}
StartSteps == {"starting", "instance", "register", "wait", "giveUp"}

(* What is published of a text: encodeTxt of macOS leaves the long entries *)
(* out; Windows hands over every entry.                                    *)
Encoded(txt) == IF platform = "win" THEN txt ELSE txt \ LongEntries

AnnInit ==
    /\ platform \in {"win", "apple"}
    /\ annRunning = FALSE /\ handles = {} /\ currentTxt = NoTxt /\ published = NoTxt
    /\ request = "none" /\ refreshEnabled = FALSE /\ refreshThread = "none"
    /\ subscribed = {} /\ callbacks = {} /\ caller = "idle" /\ callerTxt = NoTxt
    /\ terminated = FALSE /\ autoRefresh = FALSE /\ refreshed = FALSE

Ready == caller = "idle" /\ ~terminated

-----------------------------------------------------------------------------
(* start.                                                                  *)

BeginStart(txt) == caller' = "starting" /\ callerTxt' = txt /\ currentTxt' = txt

AnnStart(txt) ==
    /\ Ready /\ ~annRunning
    /\ BeginStart(txt)
    /\ UNCHANGED <<platform, annRunning, handles, published, request, threadVars, subscribed, callbacks>>

(* start goes on to its next step, or returns. *)
StartAt(step) == caller = step /\ ~terminated
GoOn(step) == caller' = step /\ UNCHANGED <<callerTxt, annRunning>>
Return(running) == caller' = "idle" /\ callerTxt' = NoTxt /\ annRunning' = running
RestOfStart == UNCHANGED <<platform, currentTxt, threadVars, subscribed, callbacks>>

(* Windows: the event of the context is created, or the context is freed. *)
CreateEvent ==
    /\ platform = "win" /\ StartAt("starting")
    /\ LET held == handles \cup {"registerContext"} IN
       \/ GoOn("instance") /\ handles' = held \cup {"doneEvent"}
       \/ Return(FALSE) /\ handles' = held \ {"registerContext"}
    /\ UNCHANGED <<published, request>> /\ RestOfStart

ConstructInstance ==
    /\ StartAt("instance")
    /\ \/ GoOn("register") /\ handles' = handles \cup {"instance"}
       \/ Return(FALSE) /\ handles' = handles \ {"doneEvent", "registerContext"}
    /\ UNCHANGED <<published, request>> /\ RestOfStart

(* Mutant: when the request is refused the event is not closed. *)
DnsServiceRegisterLeaks ==
    /\ StartAt("register")
    /\ LET held == handles \cup {"registerCancel"} IN
       \/ GoOn("wait") /\ handles' = held /\ request' = "pending"
       \/ /\ Return(FALSE) /\ UNCHANGED request
          /\ handles' = held \ {"instance", "registerContext", "registerCancel"}
    /\ UNCHANGED published /\ RestOfStart

(* The request is under way from here, or it is refused. *)
DnsServiceRegister ==
    /\ StartAt("register")
    /\ LET held == handles \cup {"registerCancel"} IN
       \/ GoOn("wait") /\ handles' = held /\ request' = "pending"
       \/ /\ Return(FALSE) /\ UNCHANGED request
          /\ handles' = held \ {"instance", "doneEvent", "registerContext", "registerCancel"}
    /\ UNCHANGED published /\ RestOfStart

(* registerCompleteCallback, on a thread of the responder: it writes the   *)
(* status into the context and sets the event.                             *)
RegisterComplete ==
    /\ request = "pending" /\ ~terminated
    /\ \/ request' = "registered" /\ published' = Encoded(callerTxt)
       \/ request' = "failed" /\ UNCHANGED published
    /\ UNCHANGED <<platform, annRunning, handles, currentTxt, caller, callerTxt, threadVars, subscribed, callbacks>>

(* WaitForSingleObject: the event is set, or five seconds have passed. *)
WaitReturns ==
    /\ StartAt("wait")
    /\ IF request = "registered" THEN Return(TRUE) ELSE GoOn("giveUp")
    /\ UNCHANGED <<handles, published, request>> /\ RestOfStart

(* The request is cancelled and all is freed.  External: the responder     *)
(* withdraws what it published meanwhile, and after the cancellation it    *)
(* calls back no more; the code, which frees the context, relies on it.    *)
GiveUp ==
    /\ StartAt("giveUp")
    /\ request' = "none" /\ published' = NoTxt
    /\ handles' = handles \ {"instance", "doneEvent", "registerContext", "registerCancel"}
    /\ Return(FALSE) /\ RestOfStart

(* macOS: one call. *)
RegisterApple ==
    /\ platform = "apple" /\ StartAt("starting")
    /\ \/ Return(TRUE) /\ handles' = handles \cup {"serviceRef"} /\ published' = Encoded(callerTxt)
       \/ Return(FALSE) /\ UNCHANGED <<handles, published>>
    /\ UNCHANGED request /\ RestOfStart

StartStep ==
    CreateEvent \/ ConstructInstance \/ DnsServiceRegister \/ WaitReturns \/ GiveUp \/ RegisterApple

-----------------------------------------------------------------------------
(* stop, updateTxt and refresh; automatic refresh and subscriptions.       *)

(* A call of stop (next = NoTxt) or of updateTxt or refresh, which stop    *)
(* and then start with `next': stopAutoRefresh comes first.                *)
StopCall(name, next) ==
    /\ Ready /\ annRunning
    /\ refreshEnabled' = FALSE /\ autoRefresh' = FALSE
    /\ caller' = name /\ callerTxt' = next
    /\ UNCHANGED <<platform, serviceVars, refreshThread, subscribed,
                   callbacks, terminated, refreshed>>

AnnStop == StopCall("stop", NoTxt)
AnnUpdateTxt(txt) == StopCall("updateTxt", txt)
AnnRefresh == StopCall("refresh", currentTxt)

(* A change of the network or the topology republishes. *)
SourceChanged(s) == s \in callbacks \cap subscribed /\ StopCall("republish", currentTxt)

(* The refresh thread is joined; the subscriptions and the handles are     *)
(* given up, Windows cancels its request; updateTxt and refresh start      *)
(* again, without subscribing again.                                       *)
StopFinish ==
    /\ caller \in StopCalls \ {"stopAutoRefresh"} /\ refreshThread \in {"none", "ended"} /\ ~terminated
    /\ refreshThread' = "none" /\ subscribed' = {} /\ callbacks' = callbacks \ subscribed
    /\ handles' = handles \ AllHandles /\ request' = "none" /\ published' = NoTxt /\ annRunning' = FALSE
    /\ IF callerTxt = NoTxt
       THEN caller' = "idle" /\ UNCHANGED <<callerTxt, currentTxt>>
       ELSE BeginStart(callerTxt)
    /\ UNCHANGED <<platform, refreshEnabled, terminated, autoRefresh, refreshed>>

(* Assigning to a thread that was not joined terminates. *)
StartAutoRefresh ==
    /\ Ready
    /\ refreshEnabled' = TRUE
    /\ IF refreshThread = "none"
       THEN refreshThread' = "sleeping" /\ autoRefresh' = TRUE /\ refreshed' = FALSE /\ UNCHANGED terminated
       ELSE terminated' = TRUE /\ UNCHANGED <<refreshThread, autoRefresh, refreshed>>
    /\ UNCHANGED <<platform, serviceVars, subscribed, callbacks, caller, callerTxt>>

StopAutoRefresh ==
    /\ Ready
    /\ refreshEnabled' = FALSE /\ autoRefresh' = FALSE /\ caller' = "stopAutoRefresh"
    /\ UNCHANGED <<platform, serviceVars, refreshThread, subscribed,
                   callbacks, callerTxt, terminated, refreshed>>

JoinRefresh ==
    /\ caller = "stopAutoRefresh" /\ refreshThread \in {"none", "ended"} /\ ~terminated
    /\ refreshThread' = "none" /\ caller' = "idle"
    /\ UNCHANGED <<platform, serviceVars, refreshEnabled, subscribed,
                   callbacks, callerTxt, terminated, autoRefresh, refreshed>>

Subscribe(s) ==
    /\ Ready /\ s \notin subscribed
    /\ subscribed' = subscribed \cup {s} /\ callbacks' = callbacks \cup {s}
    /\ UNCHANGED <<platform, serviceVars, refreshEnabled, refreshThread,
                   caller, callerTxt, terminated, autoRefresh, refreshed>>

Unsubscribe(s) ==
    /\ Ready /\ s \in subscribed
    /\ subscribed' = subscribed \ {s} /\ callbacks' = callbacks \ {s}
    /\ UNCHANGED <<platform, serviceVars, refreshEnabled, refreshThread,
                   caller, callerTxt, terminated, autoRefresh, refreshed>>

-----------------------------------------------------------------------------
(* The refresh thread.                                                     *)

(* Mutant: the thread does not look whether it is still wanted. *)
WakeUpAlways ==
    /\ refreshThread = "sleeping" /\ ~terminated
    /\ refreshThread' = IF annRunning THEN "refreshing" ELSE "sleeping"
    /\ UNCHANGED <<platform, serviceVars, refreshEnabled, subscribed,
                   callbacks, caller, callerTxt, terminated, autoRefresh, refreshed>>

WakeUp ==
    /\ refreshThread = "sleeping" /\ ~terminated
    /\ refreshThread' = IF refreshEnabled THEN "refreshing" ELSE "ended"
    /\ UNCHANGED <<platform, serviceVars, refreshEnabled, subscribed,
                   callbacks, caller, callerTxt, terminated, autoRefresh, refreshed>>

(* refresh calls stop, which joins the refresh thread: a thread that joins *)
(* itself gets an exception, and stop is noexcept.                         *)
ThreadRefresh ==
    /\ refreshThread = "refreshing" /\ ~terminated
    /\ IF annRunning
       THEN terminated' = TRUE /\ refreshEnabled' = FALSE /\ UNCHANGED refreshThread
       ELSE refreshThread' = "sleeping" /\ UNCHANGED <<terminated, refreshEnabled>>
    /\ UNCHANGED <<platform, serviceVars, subscribed, callbacks,
                   caller, callerTxt, autoRefresh, refreshed>>

AnnNext ==
    \/ \E txt \in Txts : AnnStart(txt) \/ AnnUpdateTxt(txt)
    \/ StartStep \/ RegisterComplete
    \/ AnnStop \/ AnnRefresh \/ StopFinish
    \/ StartAutoRefresh \/ StopAutoRefresh \/ JoinRefresh
    \/ \E s \in Sources : SourceChanged(s) \/ Subscribe(s) \/ Unsubscribe(s)
    \/ WakeUp \/ ThreadRefresh

AnnSpec == AnnInit /\ [][AnnNext]_annVars

(* A thread that can run does, and the wait of start ends after five       *)
(* seconds; nobody has to call the announcer, nor the responder to answer. *)
AnnFairness ==
    /\ WF_annVars(StartStep) /\ WF_annVars(StopFinish) /\ WF_annVars(JoinRefresh)
    /\ WF_annVars(WakeUp) /\ WF_annVars(ThreadRefresh)

AnnFairSpec == AnnSpec /\ AnnFairness

-----------------------------------------------------------------------------
(* Properties.                                                             *)

(* Through any sequence of starts that fail at any of their steps,         *)
(* answers of the responder that come late or never, updates, refreshes    *)
(* and stops: between starts the announcer holds all its handles if it     *)
(* runs and none if not, and the responder publishes just the entries of   *)
(* its current text that can be encoded; while the responder may still     *)
(* call back, the context and the event it uses are not freed; and a       *)
(* source calls the announcer only while it is subscribed.                 *)
AnnouncerConsistent ==
    /\ caller \notin StartSteps =>
          /\ handles = IF annRunning THEN AllHandles ELSE {}
          /\ published = IF annRunning THEN Encoded(currentTxt) ELSE NoTxt
    /\ request = "pending" => {"registerContext", "doneEvent"} \subseteq handles
    /\ callbacks = subscribed

(* A call returns, whether it waits for the refresh thread or for an       *)
(* answer of the responder, unless the process is terminated under it.     *)
AnnounceCallsReturn == (caller # "idle") ~> (caller = "idle" \/ terminated)

(* Specification: an endpoint that runs refreshes its mDNS announcement    *)
(* again and again.  Automatic refresh, once asked for, refreshes while    *)
(* the announcer runs.                                                     *)
RefreshHappens == (autoRefresh /\ annRunning) ~> (refreshed \/ ~autoRefresh \/ ~annRunning)

=============================================================================
