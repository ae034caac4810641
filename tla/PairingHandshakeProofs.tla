----------------------- MODULE PairingHandshakeProofs -----------------------
(***************************************************************************)
(* Proofs about PairingHandshake, for any set of peers: whatever messages  *)
(* arrive in whatever order, a Member is trusted or was refused, and no    *)
(* trusted entry outlives its peer's return to Discovered.  And about      *)
(* PairingExchange, two such endpoints: each of them runs PairingHandshake *)
(* and inherits these results, and the exchange never gets anywhere.       *)
(***************************************************************************)
EXTENDS PairingHandshake, PairingExchange, TLAPS

(* A fresh endpoint knows no peer, so the invariant holds.                 *)
LEMMA InvInit == PairInit => PairingInv
  BY DEF PairInit, PairingInv, PairTypeOK, DoneIsAnswered, MembersVouched, TrustFollowsFsm, PairingState

(* rollbackHandshake cannot leave a peer in Trusted or Member: its FSM     *)
(* entry ends in a state that carries no trust, or was Rejected already.   *)
LEMMA RollbackTarget ==
    ASSUME NEW s \in PairingState
    PROVE  /\ ForceTransition(ForceTransition(s, "Rollback"), "Discovered") \in PairingState
           /\ ForceTransition(ForceTransition(s, "Rollback"), "Discovered")
                  \notin {"Trusted", "Member"}
  BY DEF ForceTransition, IsTransitionValid, PairingState

(* Every handler keeps the types of the orchestrator's state.              *)
LEMMA TypeStep ==
    ASSUME PairTypeOK, NEW p \in Peers, Handler(p)
    PROVE  PairTypeOK'
  <1>1. CASE InitiateHandshake(p)
    BY <1>1 DEF InitiateHandshake, PairTypeOK, PairingState
  <1>2. CASE HandlePairingRequest(p)
    BY <1>2 DEF HandlePairingRequest, PairTypeOK, PairingState
  <1>3. CASE HandlePairingRejected(p)
    BY <1>3 DEF HandlePairingRejected, PairTypeOK, PairingState
  <1>4. CASE HandlePairingAccepted(p)
    BY <1>4 DEF HandlePairingAccepted, PairTypeOK, PairingState
  <1>5. CASE HandleRegistrationRequest(p)
    BY <1>5 DEF HandleRegistrationRequest, PairTypeOK
  <1>6. CASE HandleRegistrationAccepted(p)
    BY <1>6 DEF HandleRegistrationAccepted, PairTypeOK
  <1>7. CASE RollbackHandshake(p)
    <2>1. fsm' \in [Peers -> PairingState \cup {"Unknown"}]
      <3>1. CASE CurrentState(fsm[p]) \in {"Discovered", "Rejected"}
        BY <1>7, <3>1 DEF RollbackHandshake, PairTypeOK
      <3>2. CASE CurrentState(fsm[p]) \notin {"Discovered", "Rejected"}
        <4>1. fsm[p] \in PairingState
          BY <3>2 DEF PairTypeOK, CurrentState
        <4> QED
          BY <1>7, <3>2, <4>1, RollbackTarget DEF RollbackHandshake, PairTypeOK
      <3> QED
        BY <3>1, <3>2
    <2>2. /\ active' \subseteq Peers /\ trusted' \subseteq Peers /\ registered' \subseteq Peers
          /\ pairingDone' \subseteq active' /\ registrationDone' \subseteq active' /\ refused' \subseteq active'
      BY <1>7 DEF RollbackHandshake, PairTypeOK
    <2> QED
      BY <2>1, <2>2 DEF PairTypeOK
  <1>8. CASE CompleteHandshake(p)
    BY <1>8 DEF CompleteHandshake, PairTypeOK, PairingState
  <1> QED
    BY <1>1, <1>2, <1>3, <1>4, <1>5, <1>6, <1>7, <1>8 DEF Handler

(* The flag, the trusted list and the record of refusals change together.  *)
LEMMA AnswerStep ==
    ASSUME PairTypeOK, DoneIsAnswered, NEW p \in Peers, Handler(p)
    PROVE  DoneIsAnswered'
  BY DEF Handler, InitiateHandshake, HandlePairingRequest, HandlePairingRejected, HandlePairingAccepted,
         HandleRegistrationRequest, HandleRegistrationAccepted, RollbackHandshake, CompleteHandshake,
         PairTypeOK, DoneIsAnswered

(* A Member keeps its flags and its entry: the only handler that clears    *)
(* them, rollback, takes the peer out of Member in the same call.          *)
LEMMA MembersStep ==
    ASSUME PairTypeOK, DoneIsAnswered, MembersVouched, NEW p \in Peers, Handler(p)
    PROVE  MembersVouched'
  <1>1. CASE \/ InitiateHandshake(p) \/ HandlePairingRequest(p)
             \/ HandlePairingRejected(p) \/ HandlePairingAccepted(p)
    BY <1>1 DEF InitiateHandshake, HandlePairingRequest, HandlePairingRejected,
                HandlePairingAccepted, PairTypeOK, MembersVouched
  <1>2. CASE HandleRegistrationRequest(p) \/ HandleRegistrationAccepted(p)
    BY <1>2 DEF HandleRegistrationRequest, HandleRegistrationAccepted, MembersVouched
  <1>3. CASE RollbackHandshake(p)
    <2> SUFFICES ASSUME NEW q \in Peers, fsm'[q] = "Member"
                 PROVE  /\ q \in pairingDone' /\ q \in registrationDone'
                        /\ q \in trusted' \/ q \in refused'
      BY DEF MembersVouched
    <2>1. CASE CurrentState(fsm[p]) \in {"Discovered", "Rejected"}
      BY <1>3, <2>1 DEF RollbackHandshake, MembersVouched, CurrentState
    <2>2. CASE CurrentState(fsm[p]) \notin {"Discovered", "Rejected"}
      <3>1. fsm[p] \in PairingState
        BY <2>2 DEF PairTypeOK, CurrentState
      <3>2. fsm'[p] # "Member"
        BY <1>3, <2>2, <3>1, RollbackTarget DEF RollbackHandshake, PairTypeOK
      <3> QED
        BY <1>3, <2>2, <3>2 DEF RollbackHandshake, PairTypeOK, MembersVouched
    <2> QED
      BY <2>1, <2>2
  <1>4. CASE CompleteHandshake(p)
    BY <1>4 DEF CompleteHandshake, PairTypeOK, DoneIsAnswered, MembersVouched
  <1> QED
    BY <1>1, <1>2, <1>3, <1>4 DEF Handler

(* A trusted entry keeps its peer at Trusted or beyond: rollback removes   *)
(* the entry, and a Trusted or Member peer cannot be initiated again.      *)
LEMMA TrustStep ==
    ASSUME PairTypeOK, TrustFollowsFsm, NEW p \in Peers, Handler(p)
    PROVE  TrustFollowsFsm'
  <1>1. CASE InitiateHandshake(p)
    <2>1. fsm[p] \notin {"Trusted", "Member", "Rejected"}
      BY <1>1 DEF InitiateHandshake, IsTransitionValid, CurrentState
    <2> QED
      BY <1>1, <2>1 DEF InitiateHandshake, PairTypeOK, TrustFollowsFsm
  <1>2. CASE HandlePairingRequest(p) \/ HandlePairingRejected(p) \/ HandlePairingAccepted(p)
    BY <1>2 DEF HandlePairingRequest, HandlePairingRejected, HandlePairingAccepted,
                PairTypeOK, TrustFollowsFsm
  <1>3. CASE HandleRegistrationRequest(p) \/ HandleRegistrationAccepted(p)
    BY <1>3 DEF HandleRegistrationRequest, HandleRegistrationAccepted, TrustFollowsFsm
  <1>4. CASE RollbackHandshake(p)
    BY <1>4 DEF RollbackHandshake, PairTypeOK, TrustFollowsFsm
  <1>5. CASE CompleteHandshake(p)
    BY <1>5 DEF CompleteHandshake, PairTypeOK, TrustFollowsFsm
  <1> QED
    BY <1>1, <1>2, <1>3, <1>4, <1>5 DEF Handler

(* For every set of peers and every order of messages, the orchestrator's  *)
(* flags, state machine and trusted list stay consistent.                  *)
THEOREM PairingInvariant == PairSpec => []PairingInv
  <1>1. PairInit => PairingInv
    BY InvInit
  <1>2. PairingInv /\ [PairNext]_pairVars => PairingInv'
    <2> SUFFICES ASSUME PairingInv, [PairNext]_pairVars PROVE PairingInv'
      OBVIOUS
    <2>1. CASE PairNext
      BY <2>1, TypeStep, AnswerStep, MembersStep, TrustStep DEF PairNext, PairingInv
    <2>2. CASE UNCHANGED pairVars
      BY <2>2 DEF pairVars, PairingInv, PairTypeOK, DoneIsAnswered, MembersVouched, TrustFollowsFsm
    <2> QED
      BY <2>1, <2>2
  <1> QED
    BY <1>1, <1>2, PTL DEF PairSpec

(* No order of messages makes a member that is neither on the trusted list *)
(* nor refused: a refusal that is taken for an answer is the one way past  *)
(* the list.                                                               *)
THEOREM MembersVouchedHolds == PairSpec => []MembersVouched
  <1>1. PairingInv => MembersVouched
    BY DEF PairingInv
  <1> QED
    BY <1>1, PairingInvariant, PTL

(* No order of messages leaves a trusted entry for a peer that the state   *)
(* machine has taken back to Discovered.                                   *)
THEOREM TrustFollowsFsmHolds == PairSpec => []TrustFollowsFsm
  <1>1. PairingInv => TrustFollowsFsm
    BY DEF PairingInv
  <1> QED
    BY <1>1, PairingInvariant, PTL

-----------------------------------------------------------------------------
(* The exchange of two endpoints.                                          *)

(* What the endpoints' messages say: every request names A, every response *)
(* names its requester, so A hears of nobody but itself, whom its state    *)
(* machine does not know.                                                  *)
ExchangeInv ==
    /\ fsmA \in [Node -> PairingState \cup {"Unknown"}] /\ fsmA["A"] = "Unknown"
    /\ \A request \in toB : request.requesterNodeId = "A"
    /\ \A response \in toA : response.responderNodeId = "A"
    /\ trustedA = {}

(* No message is in flight before the first request.                       *)
LEMMA ExchangeInvInit == ExchangeInit => ExchangeInv
  BY DEF ExchangeInit, ExchangeInv, A!PairInit, Node

(* initiateHandshake of A writes B's entry; the answer of B echoes the     *)
(* requester's id; the only response there is names a peer A has no entry  *)
(* for, and handlePairingResponse returns an error.                        *)
LEMMA ExchangeInvStep == ExchangeInv /\ [ExchangeNext]_xvars => ExchangeInv'
  <1> SUFFICES ASSUME ExchangeInv, [ExchangeNext]_xvars PROVE ExchangeInv'
    OBVIOUS
  <1>1. CASE Request
    <2>1. /\ fsmA' = [fsmA EXCEPT !["B"] = "Pairing"] /\ trustedA' = trustedA /\ toA' = toA
          /\ toB' = toB \cup {[requesterNodeId |-> "A"]}
      BY <1>1 DEF Request, A!InitiateHandshake
    <2> QED
      BY <2>1 DEF ExchangeInv, Node, PairingState
  <1>2. CASE Answer
    <2>1. PICK request \in toB : /\ toA' = toA \cup {ResponseTo(request)}
                                 /\ toB' = toB \ {request} /\ UNCHANGED varsA
      BY <1>2 DEF Answer
    <2> QED
      BY <2>1 DEF ExchangeInv, ResponseTo, varsA
  <1>3. CASE Conclude
    <2>1. PICK response \in toA :
              /\ toA' = toA \ {response} /\ toB' = toB
              /\ \/ A!HandlePairingAccepted(response.responderNodeId)
                 \/ UNCHANGED varsA
      BY <1>3 DEF Conclude
    <2>2. ~A!HandlePairingAccepted(response.responderNodeId)
      BY <2>1 DEF ExchangeInv, A!HandlePairingAccepted
    <2> QED
      BY <2>1, <2>2 DEF ExchangeInv, varsA
  <1>4. CASE UNCHANGED xvars
    BY <1>4 DEF ExchangeInv, xvars, varsA
  <1> QED
    BY <1>1, <1>2, <1>3, <1>4 DEF ExchangeNext

(* However often A asks and B answers, A hears of nobody but itself.       *)
THEOREM ExchangeInvariant == ExchangeSpec => []ExchangeInv
  BY ExchangeInvInit, ExchangeInvStep, PTL DEF ExchangeSpec

(* Both endpoints of the exchange implement PairingHandshake: a step of    *)
(* the exchange is a handler of A, a handler of B, or leaves the endpoint  *)
(* alone.                                                                  *)
THEOREM EndpointsImplementHandshake == ExchangeSpec => A!PairSpec /\ B!PairSpec
  <1>1. ExchangeInit => A!PairInit /\ B!PairInit
    BY DEF ExchangeInit
  <1>2. ExchangeInv /\ [ExchangeNext]_xvars => [A!PairNext]_(A!pairVars) /\ [B!PairNext]_(B!pairVars)
    <2> SUFFICES ASSUME ExchangeInv, [ExchangeNext]_xvars
                 PROVE  [A!PairNext]_(A!pairVars) /\ [B!PairNext]_(B!pairVars)
      OBVIOUS
    <2>1. CASE Request
      BY <2>1 DEF Request, varsB, B!pairVars, A!PairNext, A!Handler, Node
    <2>2. CASE Answer
      BY <2>2 DEF Answer, varsA, A!pairVars, B!PairNext, B!Handler, Node, ExchangeInv
    <2>3. CASE Conclude
      BY <2>3 DEF Conclude, varsA, varsB, A!pairVars, B!pairVars, A!PairNext, A!Handler, Node, ExchangeInv
    <2>4. CASE UNCHANGED xvars
      BY <2>4 DEF xvars, varsA, varsB, A!pairVars, B!pairVars
    <2> QED
      BY <2>1, <2>2, <2>3, <2>4 DEF ExchangeNext
  <1> QED
    BY <1>1, <1>2, ExchangeInvariant, PTL DEF ExchangeSpec, A!PairSpec, B!PairSpec

(* The finding, for every run of the exchange and not only for one: since  *)
(* handlePairingRequest answers with the requester's own id, A never puts  *)
(* B, nor anybody, on its Trusted Node List.                               *)
THEOREM PairingNeverSucceeds == ExchangeSpec => ~PairingSucceeds
  <1>1. ExchangeInv => ~("B" \in trustedA)
    BY DEF ExchangeInv
  <1> QED
    BY <1>1, ExchangeInvariant, PTL DEF PairingSucceeds

=============================================================================
