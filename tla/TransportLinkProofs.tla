------------------------ MODULE TransportLinkProofs ------------------------
(***************************************************************************)
(* Proofs about TransportLink, for a server and for a client, and for any  *)
(* number of connects and broken connections: the application thread and   *)
(* the receive threads never lose track of each other, and nothing stays   *)
(* pressed while there is no peer.                                         *)
(***************************************************************************)
EXTENDS TransportLink, TLAPS

(* What the receive thread of plane p does on its own: it is running       *)
(* before and after, and the application's thread is where it was.         *)
RxAction(p) == \/ LoopTop(p) \/ Receive(p) \/ ReceiveFails(p) \/ ReceiveBadLength(p)
               \/ ReClose(p) \/ ReAccept(p) \/ ReAcceptFails(p) \/ ReCheck(p) \/ ReInstall(p)

NoticeAction == ReDown \/ ReNoticeDown \/ ReUp \/ ReNoticeUp

(* The values of the receive thread's place in its loop.                   *)
RxPlaces == {"off", "loop", "recv", "reclose", "down", "noticeDown", "accept",
             "check", "install", "up", "noticeUp", "exit"}

(* A fresh transport has no sockets, threads or pressed keys.              *)
LEMMA InvInit == Init => LinkInv /\ ReleasedWhenDown
  <1> SUFFICES ASSUME Init PROVE LinkInv /\ ReleasedWhenDown
    OBVIOUS
  <1>1. TypeOK
    <2>1. /\ connected \in BOOLEAN /\ receiving \in BOOLEAN /\ linkUp \in BOOLEAN
          /\ listening \in [Plane -> BOOLEAN] /\ pressed \in BOOLEAN
      BY DEF Init
    <2>2. /\ sock \in [Plane -> {"none", "up", "broken"}]
          /\ rx \in [Plane -> RxPlaces]
      BY DEF Init, RxPlaces
    <2>3. connects \in 0 .. MaxConnects /\ breaks \in 0 .. MaxBreaks
      BY LinkAssumption DEF Init
    <2> QED
      BY <2>1, <2>2, <2>3 DEF Init, TypeOK, RxPlaces
  <1>2. ThreadsOwned /\ PhaseInv /\ ReleasedWhenDown
    BY DEF Init, ThreadsOwned, PhaseInv, ReleasedWhenDown, Plane
  <1> QED
    BY <1>1, <1>2 DEF LinkInv

(* A receive thread moves from one place of its loop to another: it was    *)
(* started and does not count as joined, and no other thread is touched.   *)
LEMMA RxMoves ==
    ASSUME TypeOK, NEW p \in Plane, RxAction(p)
    PROVE  /\ rx[p] # "off"
           /\ \E v \in RxPlaces \ {"off"} : rx' = [rx EXCEPT ![p] = v]
           /\ app' = app /\ connected' = connected /\ receiving' = receiving /\ linkUp' = linkUp
           /\ connects' = connects /\ breaks' = breaks /\ coord' = coord
           /\ listening' = listening
  <1>1. CASE LoopTop(p) \/ ReAccept(p) \/ ReAcceptFails(p) \/ ReCheck(p)
    BY <1>1 DEF LoopTop, ReAccept, ReAcceptFails, ReCheck, RxPlaces, TypeOK,
                flagVars, sockVars, subVars, boundVars
  <1>2. CASE Receive(p) \/ ReceiveFails(p) \/ ReceiveBadLength(p)
    BY <1>2 DEF Receive, ReceiveFails, ReceiveBadLength, BreakOrReaccept, RxPlaces, TypeOK,
                flagVars, sockVars, subVars, boundVars
  <1>3. CASE ReClose(p) \/ ReInstall(p)
    BY <1>3 DEF ReClose, ReInstall, RxPlaces, TypeOK,
                flagVars, sockVars, subVars, boundVars
  <1> QED
    BY <1>1, <1>2, <1>3 DEF RxAction

(* The same of the four steps that belong to the input plane alone.        *)
LEMMA NoticeMoves ==
    ASSUME TypeOK, NoticeAction
    PROVE  /\ rx["input"] # "off"
           /\ \E v \in RxPlaces \ {"off"} : rx' = [rx EXCEPT !["input"] = v]
           /\ app' = app /\ connected' = connected /\ receiving' = receiving
           /\ connects' = connects /\ breaks' = breaks
           /\ sock' = sock /\ listening' = listening
  BY DEF NoticeAction, ReDown, ReNoticeDown, ReUp, ReNoticeUp, RxPlaces, TypeOK,
         flagVars, sockVars, subVars, boundVars

(* Types.                                                                  *)
LEMMA TypeStep ==
    ASSUME TypeOK, Next
    PROVE  TypeOK'
  <1>1. CASE App
    <2>1. CASE ConnectSockets
      <3>1. connects' \in 0 .. MaxConnects
        BY <2>1, LinkAssumption DEF ConnectSockets, TypeOK
      <3>2. listening' \in [Plane -> BOOLEAN] /\ sock' \in [Plane -> {"none", "up", "broken"}]
        BY <2>1, LinkAssumption DEF ConnectSockets
      <3> QED
        BY <2>1, <3>1, <3>2 DEF ConnectSockets, TypeOK, flagVars, subVars
    <2>2. CASE ConnectFails
      <3>1. connects' \in 0 .. MaxConnects
        BY <2>2, LinkAssumption DEF ConnectFails, TypeOK
      <3>2. listening' \in [Plane -> BOOLEAN]
        BY <2>2, LinkAssumption DEF ConnectFails, TypeOK
      <3> QED
        BY <2>2, <3>1, <3>2 DEF ConnectFails, NoticeDisconnected, TypeOK, flagVars
    <2>3. CASE ConnectFlags \/ ConnectThreads
      BY <2>3 DEF ConnectFlags, ConnectThreads, TypeOK, flagVars, sockVars, subVars, boundVars
    <2>4. CASE ConnectNotice
      BY <2>4 DEF ConnectNotice, NoticeConnected, TypeOK, flagVars, sockVars, boundVars
    <2>5. CASE DisconnectFlags \/ DisconnectClose \/ JoinInput \/ JoinControl \/ DisconnectNotice
      BY <2>5 DEF DisconnectFlags, DisconnectClose, JoinInput, JoinControl, DisconnectNotice,
               NoticeDisconnected, TypeOK, Plane, flagVars, sockVars, subVars, boundVars
    <2> QED
      BY <1>1, <2>1, <2>2, <2>3, <2>4, <2>5 DEF App, AppStep
  <1>2. ASSUME NEW p \in Plane, RxAction(p) PROVE TypeOK'
    <2>1. rx' \in [Plane -> RxPlaces]
      BY <1>2, RxMoves DEF TypeOK, RxPlaces
    <2>2. sock' \in [Plane -> {"none", "up", "broken"}] /\ pressed' \in BOOLEAN
      BY <1>2 DEF RxAction, LoopTop, Receive, ReceiveFails, ReceiveBadLength, BreakOrReaccept,
                  ReClose, ReAccept, ReAcceptFails, ReCheck, ReInstall, TypeOK, sockVars, subVars
    <2> QED
      BY <1>2, <2>1, <2>2, RxMoves DEF TypeOK, RxPlaces
  <1>3. CASE NoticeAction
    <2>1. rx' \in [Plane -> RxPlaces]
      BY <1>3, NoticeMoves DEF TypeOK, RxPlaces
    <2>2. /\ linkUp' \in BOOLEAN /\ pressed' \in BOOLEAN
          /\ coord' \in {"Connected", "Reconnecting", "Recovery"}
      BY <1>3 DEF NoticeAction, ReDown, ReNoticeDown, ReUp, ReNoticeUp, NoticeConnected,
                  NoticeDisconnected, TypeOK, flagVars, subVars
    <2> QED
      BY <1>3, <2>1, <2>2, NoticeMoves DEF TypeOK, RxPlaces
  <1>4. ASSUME NEW p \in Plane, Break(p) PROVE TypeOK'
    BY <1>4, LinkAssumption DEF Break, TypeOK, flagVars, subVars
  <1> QED
    BY <1>1, <1>2, <1>3, <1>4 DEF Next, RxAction, NoticeAction

(* Which receive threads exist follows from where the application is: only *)
(* connect starts them and only disconnect, having closed their sockets,   *)
(* joins them.                                                             *)
LEMMA PhaseStep ==
    ASSUME TypeOK, PhaseInv, Next
    PROVE  PhaseInv'
  <1>1. CASE App
    <2>1. CASE ConnectSockets \/ ConnectFails \/ ConnectFlags \/ ConnectThreads \/ ConnectNotice
      BY <1>1, <2>1 DEF ConnectSockets, ConnectFails, ConnectFlags, ConnectThreads, ConnectNotice,
               PhaseInv, TypeOK, flagVars, Plane
    <2>2. CASE DisconnectFlags \/ DisconnectClose \/ JoinInput \/ JoinControl \/ DisconnectNotice
      BY <2>2 DEF DisconnectFlags, DisconnectClose, JoinInput, JoinControl, DisconnectNotice,
               PhaseInv, TypeOK, flagVars, Plane
    <2> QED
      BY <1>1, <2>1, <2>2 DEF App, AppStep
  <1>2. ASSUME NEW p \in Plane, RxAction(p) PROVE PhaseInv'
    BY <1>2, RxMoves DEF PhaseInv, TypeOK, Plane
  <1>3. CASE NoticeAction
    BY <1>3, NoticeMoves DEF PhaseInv, TypeOK, Plane
  <1>4. ASSUME NEW p \in Plane, Break(p) PROVE PhaseInv'
    BY <1>4 DEF Break, PhaseInv, flagVars
  <1> QED
    BY <1>1, <1>2, <1>3, <1>4 DEF Next, RxAction, NoticeAction

(* Nothing is pressed without a peer: only the input thread, between two   *)
(* tests of its loop, presses, and it accepts a peer after a release only. *)
LEMMA ReleaseStep ==
    ASSUME TypeOK, PhaseInv, ReleasedWhenDown, Next
    PROVE  ReleasedWhenDown'
  <1> USE DEF ReleasedWhenDown
  <1>1. CASE App
    <2>1. CASE ConnectSockets \/ ConnectFails \/ ConnectFlags \/ ConnectThreads
      BY <1>1, <2>1 DEF ConnectSockets, ConnectFails, ConnectFlags, ConnectThreads,
               NoticeDisconnected, TypeOK, PhaseInv, flagVars, subVars, Plane
    <2>2. CASE ConnectNotice
      BY <2>2 DEF ConnectNotice, NoticeConnected, PhaseInv, flagVars, subVars
    <2>3. CASE DisconnectFlags \/ DisconnectClose \/ JoinInput \/ JoinControl \/ DisconnectNotice
      BY <2>3 DEF DisconnectFlags, DisconnectClose, JoinInput, JoinControl, DisconnectNotice,
               NoticeDisconnected, TypeOK, PhaseInv, flagVars, subVars, Plane
    <2> QED
      BY <1>1, <2>1, <2>2, <2>3 DEF App, AppStep
  <1>2. ASSUME NEW p \in Plane, RxAction(p) PROVE ReleasedWhenDown'
    <2>1. CASE Receive(p)
      BY <2>1 DEF Receive, PhaseInv, TypeOK, Plane, flagVars, sockVars
    <2>2. CASE ~Receive(p)
      <3>1. pressed' = pressed
        BY <1>2, <2>2 DEF RxAction, LoopTop, ReceiveFails, ReceiveBadLength, BreakOrReaccept,
                  ReClose, ReAccept, ReAcceptFails, ReCheck, ReInstall, subVars
      <3>2. rx'["input"] = "accept" => rx["input"] = "accept"
        BY <1>2, <2>2 DEF RxAction, LoopTop, ReceiveFails, ReceiveBadLength, BreakOrReaccept,
                  ReClose, ReAccept, ReAcceptFails, ReCheck, ReInstall, TypeOK, Plane
      <3> QED
        BY <1>2, <3>1, <3>2, RxMoves
    <2> QED
      BY <2>1, <2>2
  <1>3. CASE NoticeAction
    BY <1>3 DEF NoticeAction, ReDown, ReNoticeDown, ReUp, ReNoticeUp, NoticeConnected,
                NoticeDisconnected, TypeOK, Plane, flagVars, subVars
  <1>4. ASSUME NEW p \in Plane, Break(p) PROVE ReleasedWhenDown'
    BY <1>4 DEF Break, flagVars, subVars
  <1> QED
    BY <1>1, <1>2, <1>3, <1>4 DEF Next, RxAction, NoticeAction

(* The inductive step of both invariants, stuttering included.             *)
LEMMA InvStep ==
    ASSUME LinkInv, ReleasedWhenDown, [Next]_vars
    PROVE  LinkInv' /\ ReleasedWhenDown'
  <1>1. CASE Next
    <2>1. TypeOK' /\ PhaseInv' /\ ReleasedWhenDown'
      BY <1>1, TypeStep, PhaseStep, ReleaseStep DEF LinkInv
    <2>2. ThreadsOwned'
      BY <2>1 DEF PhaseInv, ThreadsOwned
    <2> QED
      BY <2>1, <2>2 DEF LinkInv
  <1>2. CASE UNCHANGED vars
    BY <1>2 DEF vars, flagVars, sockVars, subVars, boundVars, LinkInv, TypeOK, ThreadsOwned,
                PhaseInv, ReleasedWhenDown
  <1> QED
    BY <1>1, <1>2

(* connect never assigns to a std::thread that is still joinable, and      *)
(* every started receive thread is joined by disconnect, whatever breaks,  *)
(* reaccepts or gives up in between.                                       *)
THEOREM LinkInvariant == Spec => []LinkInv
  <1> QED
    BY InvInit, InvStep, PTL DEF Spec

(* Nothing injected for the peer is down while the server waits for a new  *)
(* peer, or when disconnect has returned or connect has failed.            *)
THEOREM ReleasedWhenDownHolds == Spec => []ReleasedWhenDown
  <1> QED
    BY InvInit, InvStep, PTL DEF Spec

(* disconnect has cleared receiving_ first and closed the sockets then: a  *)
(* thread it waits for finds its recv or accept failing, and one that has  *)
(* slipped past the second test of receiving_ and installs a new peer      *)
(* after the close sees receiving_ before it reads from it.                *)
JoinSafe ==
    /\ app \in {"close", "joinInput", "joinControl", "noticeDown"} => ~receiving
    /\ app \in {"joinInput", "joinControl"} =>
          \A p \in Plane : ~listening[p] /\ (rx[p] = "recv" => sock[p] # "up")

(* No step of the application or of a receive thread undoes it.            *)
LEMMA JoinSafeStep ==
    ASSUME LinkInv, JoinSafe, Next
    PROVE  JoinSafe'
  <1>t. rx \in [Plane -> RxPlaces] /\ sock \in [Plane -> {"none", "up", "broken"}]
    BY DEF LinkInv, TypeOK, RxPlaces
  <1>1. CASE App
    <2>1. CASE DisconnectFlags \/ DisconnectClose
      BY <1>t, <2>1 DEF DisconnectFlags, DisconnectClose, JoinSafe, flagVars
    <2>2. CASE JoinInput \/ JoinControl \/ DisconnectNotice
      BY <1>t, <2>2 DEF JoinInput, JoinControl, DisconnectNotice, JoinSafe, flagVars, sockVars
    <2>3. CASE ~(DisconnectFlags \/ DisconnectClose \/ JoinInput \/ JoinControl \/ DisconnectNotice)
      <3>1. app' \notin {"close", "joinInput", "joinControl", "noticeDown"}
        BY <1>1, <2>3 DEF App, AppStep, ConnectSockets, ConnectFails, ConnectFlags, ConnectThreads, ConnectNotice
      <3> QED
        BY <3>1 DEF JoinSafe
    <2> QED
      BY <2>1, <2>2, <2>3
  <1>2. ASSUME NEW p \in Plane, RxAction(p) PROVE JoinSafe'
    <2>1. app' = app /\ receiving' = receiving /\ listening' = listening
      BY <1>2, RxMoves DEF LinkInv
    <2>2. ASSUME app \in {"joinInput", "joinControl"}, NEW q \in Plane, rx'[q] = "recv"
          PROVE  sock'[q] # "up"
      <3>1. ~receiving
        BY <2>2 DEF JoinSafe
      <3>2. rx'[p] # "recv"
        BY <1>2, <1>t, <3>1 DEF RxAction, LoopTop, Receive, ReceiveFails, ReceiveBadLength, BreakOrReaccept,
                    ReClose, ReAccept, ReAcceptFails, ReCheck, ReInstall
      <3>3. q # p /\ rx[q] = "recv"
        <4>1. PICK v : rx' = [rx EXCEPT ![p] = v]
          BY <1>2, RxMoves DEF LinkInv
        <4> QED
          BY <1>t, <2>2, <3>2, <4>1
      <3>4. sock'[q] = sock[q]
        BY <1>2, <1>t, <3>3 DEF RxAction, LoopTop, Receive, ReceiveFails, ReceiveBadLength, BreakOrReaccept,
                    ReClose, ReAccept, ReAcceptFails, ReCheck, ReInstall, sockVars
      <3> QED
        BY <2>2, <3>3, <3>4 DEF JoinSafe
    <2> QED
      BY <2>1, <2>2, Zenon DEF JoinSafe
  <1>3. CASE NoticeAction
    BY <1>3, <1>t DEF NoticeAction, ReDown, ReNoticeDown, ReUp, ReNoticeUp, JoinSafe, Plane, flagVars, sockVars
  <1>4. ASSUME NEW p \in Plane, Break(p) PROVE JoinSafe'
    BY <1>4, <1>t DEF Break, JoinSafe, flagVars
  <1> QED
    BY <1>1, <1>2, <1>3, <1>4 DEF Next, RxAction, NoticeAction

(* The safety half of `disconnect returns': however the threads interleave *)
(* with a loss and a new peer, none that disconnect joins is left in a     *)
(* recv or accept that could block, nor can it enter one again.            *)
THEOREM JoinSafeHolds == Spec => []JoinSafe
  <1>1. Init => JoinSafe
    BY DEF Init, JoinSafe
  <1>2. LinkInv /\ JoinSafe /\ [Next]_vars => JoinSafe'
    <2>1. ASSUME JoinSafe, UNCHANGED vars PROVE JoinSafe'
      BY <2>1, Zenon DEF vars, flagVars, sockVars, JoinSafe
    <2> QED
      BY <2>1, JoinSafeStep
  <1> QED
    BY <1>1, <1>2, LinkInvariant, PTL DEF Spec

(* A client's receive threads never reaccept, so that its linkUp_ only     *)
(* follows connect and disconnect.                                         *)
ClientInv ==
    /\ TypeOK
    /\ \A p \in Plane : rx[p] \in {"off", "loop", "recv", "exit"}
    /\ linkUp = connected

(* The input receive thread of a connected endpoint has ended, while the   *)
(* application is in neither connect nor disconnect.                       *)
Deaf == app = "idle" /\ connected /\ rx["input"] = "exit"

(* A client stays out of the reaccept branch of its receive loops.         *)
LEMMA ClientStep ==
    ASSUME ~IsServer, ClientInv, Next
    PROVE  ClientInv'
  <1>1. TypeOK'
    BY TypeStep DEF ClientInv
  <1>t. rx \in [Plane -> RxPlaces]
    BY DEF ClientInv, TypeOK, RxPlaces
  <1>2. CASE App
    <2>1. linkUp' = connected'
      <3>1. CASE ConnectFlags
        BY <3>1, Zenon DEF ConnectFlags
      <3>2. CASE DisconnectFlags
        BY <3>2, Zenon DEF DisconnectFlags
      <3>3. CASE ~ConnectFlags /\ ~DisconnectFlags
        <4>1. UNCHANGED flagVars
          BY <1>2, <3>3 DEF App, AppStep, ConnectSockets, ConnectFails, ConnectThreads, ConnectNotice,
                            DisconnectClose, JoinInput, JoinControl, DisconnectNotice
        <4> QED
          BY <4>1, Zenon DEF flagVars, ClientInv
      <3> QED
        BY <3>1, <3>2, <3>3
    <2>2. \A p \in Plane : rx'[p] \in {"off", "loop", "recv", "exit"}
      BY <1>2, <1>t DEF App, AppStep, ConnectSockets, ConnectFails, ConnectFlags, ConnectThreads,
                  ConnectNotice, DisconnectFlags, DisconnectClose, JoinInput, JoinControl,
                  DisconnectNotice, ClientInv, Plane
    <2> QED
      BY <1>1, <2>1, <2>2 DEF ClientInv
  <1>3. ASSUME NEW p \in Plane, RxAction(p) PROVE ClientInv'
    <2>1. connected' = connected /\ linkUp' = linkUp
      BY <1>3, RxMoves DEF ClientInv
    <2>2. rx' = [rx EXCEPT ![p] = "loop"] \/ rx' = [rx EXCEPT ![p] = "recv"] \/ rx' = [rx EXCEPT ![p] = "exit"]
      BY <1>3 DEF RxAction, LoopTop, Receive, ReceiveFails, ReceiveBadLength, BreakOrReaccept,
                  ReClose, ReAccept, ReAcceptFails, ReCheck, ReInstall, ClientInv
    <2>3. \A q \in Plane : rx'[q] \in {"off", "loop", "recv", "exit"}
      BY <1>t, <2>2 DEF ClientInv
    <2> QED
      BY <1>1, <2>1, <2>3, Zenon DEF ClientInv
  <1>4. ~NoticeAction
    BY DEF NoticeAction, ReDown, ReNoticeDown, ReUp, ReNoticeUp, ClientInv, Plane
  <1>5. ASSUME NEW p \in Plane, Break(p) PROVE ClientInv'
    BY <1>1, <1>5, Zenon DEF Break, flagVars, ClientInv
  <1> QED
    BY <1>2, <1>3, <1>4, <1>5 DEF Next, RxAction, NoticeAction

(* The finding, for every number of connects and losses: a client whose    *)
(* input connection failed, and whose receive loop has ended on it, still  *)
(* claims that its link is up, and until the application itself            *)
(* disconnects no notice reaches the coordinator and nothing that is       *)
(* pressed is released.                                                    *)
THEOREM ClientStaysDeaf ==
    ASSUME ~IsServer
    PROVE  Spec => /\ [](Deaf => linkUp)
                   /\ [][Deaf /\ ~DisconnectFlags => Deaf' /\ UNCHANGED <<linkUp, coord, pressed>>]_vars
  <1>1. Init => ClientInv
    <2> SUFFICES ASSUME Init PROVE ClientInv
      OBVIOUS
    <2>1. TypeOK
      BY InvInit DEF LinkInv
    <2>2. linkUp = connected
      BY Zenon DEF Init
    <2>3. \A p \in Plane : rx[p] = "off"
      BY DEF Init
    <2> QED
      BY <2>1, <2>2, <2>3 DEF ClientInv
  <1>2. ClientInv /\ [Next]_vars => ClientInv'
    <2>1. ASSUME ClientInv, UNCHANGED vars PROVE ClientInv'
      BY <2>1, Zenon DEF vars, flagVars, sockVars, subVars, boundVars, ClientInv, TypeOK
    <2> QED
      BY <2>1, ClientStep
  <1>3. ClientInv => (Deaf => linkUp)
    BY Zenon DEF ClientInv, Deaf
  <1>4. ClientInv /\ [Next]_vars
           => [Deaf /\ ~DisconnectFlags => Deaf' /\ UNCHANGED <<linkUp, coord, pressed>>]_vars
    <2> SUFFICES ASSUME ClientInv, Next, Deaf, ~DisconnectFlags
                 PROVE  Deaf' /\ UNCHANGED <<linkUp, coord, pressed>>
      BY Zenon
    <2>t. rx \in [Plane -> RxPlaces]
      BY DEF ClientInv, TypeOK, RxPlaces
    <2>1. ~App
      BY Zenon DEF Deaf, App, AppStep, ConnectSockets, ConnectFails, ConnectFlags, ConnectThreads, ConnectNotice,
             DisconnectClose, JoinInput, JoinControl, DisconnectNotice
    <2>2. ~NoticeAction
      BY DEF NoticeAction, ReDown, ReNoticeDown, ReUp, ReNoticeUp, Deaf
    <2>3. ASSUME NEW p \in Plane, RxAction(p)
          PROVE  Deaf' /\ UNCHANGED <<linkUp, coord, pressed>>
      <3>1. p # "input"
        BY <2>3 DEF RxAction, LoopTop, Receive, ReceiveFails, ReceiveBadLength, ReClose,
                    ReAccept, ReAcceptFails, ReCheck, ReInstall, Deaf, ClientInv
      <3>2. /\ \E v \in RxPlaces \ {"off"} : rx' = [rx EXCEPT ![p] = v]
            /\ app' = app /\ connected' = connected /\ linkUp' = linkUp /\ coord' = coord
        BY <2>3, RxMoves DEF ClientInv
      <3>3. pressed' = pressed
        BY <2>3, <3>1 DEF RxAction, LoopTop, Receive, ReceiveFails, ReceiveBadLength, BreakOrReaccept, ReClose,
                    ReAccept, ReAcceptFails, ReCheck, ReInstall, subVars
      <3>4. rx'["input"] = rx["input"]
        BY <2>t, <3>1, <3>2 DEF Plane
      <3> QED
        BY <3>2, <3>3, <3>4, Zenon DEF Deaf
    <2>4. ASSUME NEW p \in Plane, Break(p)
          PROVE  Deaf' /\ UNCHANGED <<linkUp, coord, pressed>>
      BY <2>4, Zenon DEF Break, flagVars, subVars, Deaf
    <2> QED
      BY <2>1, <2>2, <2>3, <2>4 DEF Next, RxAction, NoticeAction
  <1> QED
    BY <1>1, <1>2, <1>3, <1>4, PTL DEF Spec

=============================================================================
