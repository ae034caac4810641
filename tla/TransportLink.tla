--------------------------- MODULE TransportLink ---------------------------
(***************************************************************************)
(* core/s05_transport: the connection life cycle of one TransportImpl, and *)
(* integration/disconnect_resync_coordinator: the subscriber to its link   *)
(* notices.                                                                *)
(*                                                                         *)
(* Three threads meet here: the application thread, inside connect or      *)
(* disconnect; the input receive thread; and the control receive thread.   *)
(* The peer and the network may break either connection at any time and    *)
(* connect to a listening socket again.  A notice runs the coordinator's   *)
(* handler under handlerMutex_, as does the delivery of an event, so each  *)
(* is one step.                                                            *)
(*                                                                         *)
(* Closing a socket makes a recv or accept that is blocked on it fail, as  *)
(* on Windows and macOS, the two platforms of the product.                 *)
(***************************************************************************)
EXTENDS Integers

CONSTANTS
    IsServer,     \* config_.isServer
    MaxConnects,  \* bound: calls of connect
    MaxBreaks     \* bound: connections broken by the peer or the network

ASSUME LinkAssumption ==
    /\ IsServer \in BOOLEAN
    /\ MaxConnects \in Nat
    /\ MaxBreaks \in Nat

Plane == {"input", "control"}

VARIABLES
    connected, receiving, linkUp,   \* the atomics of TransportImpl
    sock,      \* inputSocket_, controlSocket_: "none", "up", or "broken" by the peer
    listening, \* listenInputSocket_, listenControlSocket_ are open
    app,       \* application thread: "idle", or its place in connect / disconnect
    rx,        \* per plane, the receive thread: "off" before it starts and after join
    coord,     \* DisconnectResyncCoordinator::state_ between two notices
    pressed,   \* a key or button injected for the peer is down on this endpoint
    connects, breaks

flagVars == <<connected, receiving, linkUp>>
sockVars == <<sock, listening>>
subVars == <<coord, pressed>>
boundVars == <<connects, breaks>>
vars == <<flagVars, sockVars, app, rx, subVars, boundVars>>

Init ==
    /\ connected = FALSE /\ receiving = FALSE /\ linkUp = FALSE
    /\ sock = [p \in Plane |-> "none"]
    /\ listening = [p \in Plane |-> FALSE]
    /\ app = "idle"
    /\ rx = [p \in Plane |-> "off"]
    /\ coord = "Connected" /\ pressed = FALSE
    /\ connects = 0 /\ breaks = 0

-----------------------------------------------------------------------------
(* DisconnectResyncCoordinator, started: what a notice does to it.         *)

(* onDisconnected: release everything pressed, trigger a resync. *)
NoticeDisconnected ==
    /\ coord' = "Reconnecting"
    /\ pressed' = FALSE

(* onConnected: nothing if already Connected, else a resync whose          *)
(* confirmation is the callback's answer.                                  *)
NoticeConnected ==
    /\ IF coord = "Connected"
       THEN coord' = coord
       ELSE \E recoveryConfirmed \in BOOLEAN :
                coord' = IF recoveryConfirmed THEN "Connected" ELSE "Recovery"
    /\ UNCHANGED pressed

-----------------------------------------------------------------------------
(* Application thread: connect.                                            *)

(* The sockets are created and, on the server, both first peers accepted. *)
ConnectSockets ==
    /\ app = "idle" /\ ~connected /\ connects < MaxConnects
    /\ sock' = [p \in Plane |-> "up"]
    /\ listening' = [p \in Plane |-> IsServer]
    /\ app' = "flags"
    /\ connects' = connects + 1
    /\ UNCHANGED <<flagVars, rx, subVars, breaks>>

(* Creation fails; a server that failed in accept keeps its listeners. *)
ConnectFails ==
    /\ app = "idle" /\ ~connected /\ connects < MaxConnects
    /\ listening' \in {listening, [p \in Plane |-> IsServer]}
    /\ NoticeDisconnected
    /\ connects' = connects + 1
    /\ UNCHANGED <<flagVars, sock, app, rx, breaks>>

ConnectFlags ==
    /\ app = "flags"
    /\ connected' = TRUE /\ receiving' = TRUE /\ linkUp' = TRUE
    /\ app' = "threads"
    /\ UNCHANGED <<sockVars, rx, subVars, boundVars>>

ConnectThreads ==
    /\ app = "threads"
    /\ rx' = [p \in Plane |-> "loop"]
    /\ app' = "noticeUp"
    /\ UNCHANGED <<flagVars, sockVars, subVars, boundVars>>

(* The notice comes last, after the receive threads have started. *)
ConnectNotice ==
    /\ app = "noticeUp"
    /\ NoticeConnected
    /\ app' = "idle"
    /\ UNCHANGED <<flagVars, sockVars, rx, boundVars>>

-----------------------------------------------------------------------------
(* Application thread: disconnect.                                         *)

DisconnectFlags ==
    /\ app = "idle" /\ connected
    /\ connected' = FALSE /\ receiving' = FALSE /\ linkUp' = FALSE
    /\ app' = "close"
    /\ UNCHANGED <<sockVars, rx, subVars, boundVars>>

(* Mutant: the listening sockets stay open. *)
DisconnectCloseOpen ==
    /\ app = "close"
    /\ sock' = [p \in Plane |-> "none"]
    /\ app' = "joinInput"
    /\ UNCHANGED <<flagVars, listening, rx, subVars, boundVars>>

(* All four sockets are closed under socketMutex_. *)
DisconnectClose ==
    /\ app = "close"
    /\ sock' = [p \in Plane |-> "none"]
    /\ listening' = [p \in Plane |-> FALSE]
    /\ app' = "joinInput"
    /\ UNCHANGED <<flagVars, rx, subVars, boundVars>>

(* Mutant: the input thread is not waited for. *)
JoinInputSkipped ==
    /\ app = "joinInput"
    /\ app' = "joinControl"
    /\ UNCHANGED <<flagVars, sockVars, rx, subVars, boundVars>>

JoinInput ==
    /\ app = "joinInput" /\ rx["input"] = "exit"
    /\ rx' = [rx EXCEPT !["input"] = "off"]
    /\ app' = "joinControl"
    /\ UNCHANGED <<flagVars, sockVars, subVars, boundVars>>

JoinControl ==
    /\ app = "joinControl" /\ rx["control"] = "exit"
    /\ rx' = [rx EXCEPT !["control"] = "off"]
    /\ app' = "noticeDown"
    /\ UNCHANGED <<flagVars, sockVars, subVars, boundVars>>

DisconnectNotice ==
    /\ app = "noticeDown"
    /\ NoticeDisconnected
    /\ app' = "idle"
    /\ UNCHANGED <<flagVars, sockVars, rx, boundVars>>

AppStep == \/ ConnectFlags \/ ConnectThreads \/ ConnectNotice
           \/ DisconnectClose \/ JoinInput \/ JoinControl \/ DisconnectNotice

App == ConnectSockets \/ ConnectFails \/ DisconnectFlags \/ AppStep

-----------------------------------------------------------------------------
(* Receive threads: inputReceiveLoop and controlReceiveLoop.               *)

(* The test of receiving_ at the top of the loop. *)
LoopTop(p) ==
    /\ rx[p] = "loop"
    /\ rx' = [rx EXCEPT ![p] = IF receiving THEN "recv" ELSE "exit"]
    /\ UNCHANGED <<flagVars, sockVars, app, subVars, boundVars>>

(* A whole frame arrives and its handler runs: an input event may press or *)
(* release something on this endpoint.                                     *)
Receive(p) ==
    /\ rx[p] = "recv" /\ sock[p] = "up"
    /\ rx' = [rx EXCEPT ![p] = "loop"]
    /\ IF p = "input" THEN pressed' \in BOOLEAN ELSE UNCHANGED pressed
    /\ UNCHANGED <<flagVars, sockVars, app, coord, boundVars>>

(* Mutant: the server gives up like the client. *)
BreakAlways(p) ==
    /\ rx' = [rx EXCEPT ![p] = "exit"]
    /\ UNCHANGED <<flagVars, sockVars, app, subVars, boundVars>>

(* After a failed read the server accepts again, the client breaks. *)
BreakOrReaccept(p) ==
    /\ rx' = [rx EXCEPT ![p] = IF IsServer /\ receiving THEN "reclose" ELSE "exit"]
    /\ UNCHANGED <<flagVars, sockVars, app, subVars, boundVars>>

(* recvRaw fails: the connection was broken, or closed by disconnect. *)
ReceiveFails(p) ==
    /\ rx[p] = "recv" /\ sock[p] # "up"
    /\ BreakOrReaccept(p)

(* A frame length of zero or above 65536. *)
ReceiveBadLength(p) ==
    /\ rx[p] = "recv" /\ sock[p] = "up"
    /\ BreakOrReaccept(p)

-----------------------------------------------------------------------------
(* reacceptInput and reacceptControl; only the former touches linkUp_ and  *)
(* gives notice.                                                           *)

ReClose(p) ==
    /\ rx[p] = "reclose"
    /\ sock' = [sock EXCEPT ![p] = "none"]
    /\ rx' = [rx EXCEPT ![p] = IF p = "input" THEN "down" ELSE "accept"]
    /\ UNCHANGED <<flagVars, listening, app, subVars, boundVars>>

ReDown ==
    /\ rx["input"] = "down"
    /\ linkUp' = FALSE
    /\ rx' = [rx EXCEPT !["input"] = "noticeDown"]
    /\ UNCHANGED <<connected, receiving, sockVars, app, subVars, boundVars>>

(* Mutant: the coordinator hears of the loss but releases nothing. *)
ReNoticeDownNoRelease ==
    /\ rx["input"] = "noticeDown"
    /\ coord' = "Reconnecting"
    /\ rx' = [rx EXCEPT !["input"] = "accept"]
    /\ UNCHANGED <<flagVars, sockVars, app, pressed, boundVars>>

ReNoticeDown ==
    /\ rx["input"] = "noticeDown"
    /\ NoticeDisconnected
    /\ rx' = [rx EXCEPT !["input"] = "accept"]
    /\ UNCHANGED <<flagVars, sockVars, app, boundVars>>

(* accept returns a new peer ... *)
ReAccept(p) ==
    /\ rx[p] = "accept" /\ listening[p]
    /\ rx' = [rx EXCEPT ![p] = "check"]
    /\ UNCHANGED <<flagVars, sockVars, app, subVars, boundVars>>

(* ... or fails: a closed listener, or an error of the system call. *)
ReAcceptFails(p) ==
    /\ rx[p] = "accept"
    /\ rx' = [rx EXCEPT ![p] = "exit"]
    /\ UNCHANGED <<flagVars, sockVars, app, subVars, boundVars>>

(* The second test of receiving_; a new peer is dropped after disconnect. *)
ReCheck(p) ==
    /\ rx[p] = "check"
    /\ rx' = [rx EXCEPT ![p] = IF receiving THEN "install" ELSE "exit"]
    /\ UNCHANGED <<flagVars, sockVars, app, subVars, boundVars>>

ReInstall(p) ==
    /\ rx[p] = "install"
    /\ sock' = [sock EXCEPT ![p] = "up"]
    /\ rx' = [rx EXCEPT ![p] = IF p = "input" THEN "up" ELSE "loop"]
    /\ UNCHANGED <<flagVars, listening, app, subVars, boundVars>>

ReUp ==
    /\ rx["input"] = "up"
    /\ linkUp' = TRUE
    /\ rx' = [rx EXCEPT !["input"] = "noticeUp"]
    /\ UNCHANGED <<connected, receiving, sockVars, app, subVars, boundVars>>

ReNoticeUp ==
    /\ rx["input"] = "noticeUp"
    /\ NoticeConnected
    /\ rx' = [rx EXCEPT !["input"] = "loop"]
    /\ UNCHANGED <<flagVars, sockVars, app, boundVars>>

(* Steps a receive thread takes by itself, without the peer's doing. *)
RxStep(p) == \/ LoopTop(p) \/ ReceiveFails(p) \/ ReClose(p)
             \/ (~listening[p] /\ ReAcceptFails(p))
             \/ ReCheck(p) \/ ReInstall(p)
             \/ (p = "input" /\ (ReDown \/ ReNoticeDown \/ ReUp \/ ReNoticeUp))

-----------------------------------------------------------------------------
(* The peer or the network breaks a connection. *)
Break(p) ==
    /\ sock[p] = "up" /\ breaks < MaxBreaks
    /\ sock' = [sock EXCEPT ![p] = "broken"]
    /\ breaks' = breaks + 1
    /\ UNCHANGED <<flagVars, listening, app, rx, subVars, connects>>

Next == \/ App
        \/ \E p \in Plane : \/ LoopTop(p) \/ Receive(p) \/ ReceiveFails(p)
                            \/ ReceiveBadLength(p) \/ ReClose(p)
                            \/ ReAccept(p) \/ ReAcceptFails(p) \/ ReCheck(p)
                            \/ ReInstall(p) \/ Break(p)
        \/ ReDown \/ ReNoticeDown \/ ReUp \/ ReNoticeUp

Spec == Init /\ [][Next]_vars

(* Threads that are not blocked run; a call of connect or disconnect that  *)
(* was entered goes on.  Nothing is assumed of the peer, nor of whether    *)
(* and when the application calls.                                         *)
FairSpec == /\ Spec
            /\ WF_vars(AppStep)
            /\ \A p \in Plane : WF_vars(RxStep(p))

-----------------------------------------------------------------------------
(* Properties.                                                             *)

(* Every variable of the transport and the coordinator has its type. *)
TypeOK ==
    /\ connected \in BOOLEAN /\ receiving \in BOOLEAN /\ linkUp \in BOOLEAN
    /\ sock \in [Plane -> {"none", "up", "broken"}]
    /\ listening \in [Plane -> BOOLEAN]
    /\ app \in {"idle", "flags", "threads", "noticeUp",
                "close", "joinInput", "joinControl", "noticeDown"}
    /\ rx \in [Plane -> {"off", "loop", "recv", "reclose", "down", "noticeDown", "accept",
                         "check", "install", "up", "noticeUp", "exit"}]
    /\ coord \in {"Connected", "Reconnecting", "Recovery"}
    /\ pressed \in BOOLEAN
    /\ connects \in 0 .. MaxConnects /\ breaks \in 0 .. MaxBreaks

(* The receive threads live exactly from connect to disconnect: connect    *)
(* never assigns to a std::thread that is still joinable (which would end  *)
(* the program), whatever breaks, reaccepts or gives up in between.        *)
ThreadsOwned ==
    /\ app \in {"flags", "threads"} => \A p \in Plane : rx[p] = "off"
    /\ app = "idle" /\ ~connected => \A p \in Plane : rx[p] = "off"
    /\ app = "idle" /\ connected => \A p \in Plane : rx[p] # "off"

(* What the flag connected_ and the two std::thread objects are at each    *)
(* place of the application's thread, joins half way included.             *)
PhaseInv ==
    /\ app = "flags" => ~connected
    /\ app \in {"threads", "noticeUp"} => connected
    /\ app \in {"close", "joinInput", "joinControl", "noticeDown"} => ~connected
    /\ app \in {"flags", "threads", "noticeDown"} \/ (app = "idle" /\ ~connected)
           => \A p \in Plane : rx[p] = "off"
    /\ app \in {"noticeUp", "close", "joinInput"} \/ (app = "idle" /\ connected)
           => \A p \in Plane : rx[p] # "off"
    /\ app = "joinControl" => rx["input"] = "off" /\ rx["control"] # "off"

(* What the application thread may rely on at every moment. *)
LinkInv == TypeOK /\ ThreadsOwned /\ PhaseInv

(* Nothing injected for the peer stays pressed while the endpoint waits    *)
(* for a new peer or after disconnect has returned: every event is         *)
(* delivered before the notice that releases.                              *)
ReleasedWhenDown ==
    \/ rx["input"] = "accept"
    \/ app = "idle" /\ ~connected
    => ~pressed

(* disconnect returns: no receive thread stays blocked in recv or accept,  *)
(* or slips back into one after the sockets were closed.                   *)
DisconnectReturns == (app = "close") ~> (app = "idle")

(* A broken input connection is noticed: the coordinator is told, releases *)
(* what is pressed and shuts the input gate, on whichever of the two paths *)
(* (reaccept or disconnect) the loss is met first.                         *)
LossIsNoticed == (sock["input"] = "broken") ~> (coord = "Reconnecting")

=============================================================================
