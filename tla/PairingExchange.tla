-------------------------- MODULE PairingExchange --------------------------
(***************************************************************************)
(* Two endpoints, A and B, pairing over the control plane: A initiates, B  *)
(* answers.  Each runs the handlers of PairingHandshake; the messages      *)
(* carry what the code puts into them.                                     *)
(***************************************************************************)
EXTENDS Integers

Node == {"A", "B"}

VARIABLES
    fsmA, activeA, pairingDoneA, registrationDoneA, trustedA, registeredA, refusedA,
    fsmB, activeB, pairingDoneB, registrationDoneB, trustedB, registeredB, refusedB,
    toA, toB   \* messages in flight: the control plane is reliable and ordered

varsA == <<fsmA, activeA, pairingDoneA, registrationDoneA, trustedA, registeredA, refusedA>>
varsB == <<fsmB, activeB, pairingDoneB, registrationDoneB, trustedB, registeredB, refusedB>>
xvars == <<varsA, varsB, toA, toB>>

A == INSTANCE PairingHandshake WITH
        Peers <- Node, fsm <- fsmA, active <- activeA, pairingDone <- pairingDoneA,
        registrationDone <- registrationDoneA, trusted <- trustedA, registered <- registeredA,
        refused <- refusedA

B == INSTANCE PairingHandshake WITH
        Peers <- Node, fsm <- fsmB, active <- activeB, pairingDone <- pairingDoneB,
        registrationDone <- registrationDoneB, trusted <- trustedB, registered <- registeredB,
        refused <- refusedB

ExchangeInit == A!PairInit /\ B!PairInit /\ toA = {} /\ toB = {}

(* The application at A initiates and sends a PairingRequest.  It repeats  *)
(* the request as long as the pairing is pending.                          *)
Request ==
    /\ A!InitiateHandshake("B")
    /\ toB' = toB \cup {[requesterNodeId |-> "A"]}
    /\ UNCHANGED <<varsB, toA>>

(* PairingFsm::handlePairingRequest fills in responderNodeId. *)
ResponseTo(request) == [responderNodeId |-> request.requesterNodeId]

Answer ==
    \E request \in toB :
        /\ B!HandlePairingRequest(request.requesterNodeId)
        /\ toA' = toA \cup {ResponseTo(request)}
        /\ toB' = toB \ {request}
        /\ UNCHANGED varsA

(* A handles the response; a responder it does not know is an error. *)
Conclude ==
    \E response \in toA :
        /\ toA' = toA \ {response}
        /\ \/ A!HandlePairingAccepted(response.responderNodeId)
           \/ /\ \/ fsmA[response.responderNodeId] = "Unknown"
                 \/ ~A!IsTransitionValid(fsmA[response.responderNodeId], "Trusted")
              /\ UNCHANGED varsA
        /\ UNCHANGED <<varsB, toB>>

ExchangeNext == Request \/ Answer \/ Conclude

(* Requests are repeated, messages arrive and are handled. *)
ExchangeSpec ==
    /\ ExchangeInit /\ [][ExchangeNext]_xvars
    /\ WF_xvars(Request) /\ WF_xvars(Answer) /\ WF_xvars(Conclude)

(* Specification: a correct pairing code leads to a successful pairing,    *)
(* with the other endpoint on the Trusted Node List.                       *)
PairingSucceeds == <>("B" \in trustedA)

=============================================================================
