-------------------------- MODULE PairingHandshake --------------------------
(***************************************************************************)
(* core/s08_pairing: one endpoint's HandshakeOrchestrator with its         *)
(* PairingFsm, TrustedNodeList and RegistrationManager.                    *)
(*                                                                         *)
(* The handlers run to completion one at a time.  The messages that reach  *)
(* them may come from either role, late, twice or in any order, so every   *)
(* handler may be called for every peer at any time.  Pairing codes are    *)
(* the non-empty ones: an empty code returns an error before any change.   *)
(***************************************************************************)
EXTENDS Integers

CONSTANT Peers   \* the node ids of other endpoints

VARIABLES
    fsm,              \* PairingFsm::peers_: the peer's state; "Unknown" if it has no entry
    active,           \* peers with an entry in activeHandshakes_
    pairingDone,      \* ... whose pairingDone flag is set
    registrationDone, \* ... whose registrationDone flag is set
    trusted,          \* TrustedNodeList::entries_
    registered,       \* RegistrationManager::records_
    refused           \* history: peers whose flag a refusal has set since its last reset

pairVars == <<fsm, active, pairingDone, registrationDone, trusted, registered, refused>>

PairingState == {"Discovered", "Untrusted", "Pairing", "Trusted", "Registering",
                 "Registered", "Member", "Rejected", "Rollback"}

(* currentState: a peer without an entry counts as Discovered. *)
CurrentState(s) == IF s = "Unknown" THEN "Discovered" ELSE s

IsTransitionValid(from, to) ==
    \/ from = to
    \/ from = "Discovered"  /\ to \in {"Untrusted", "Rejected"}
    \/ from = "Untrusted"   /\ to \in {"Pairing", "Rejected"}
    \/ from = "Pairing"     /\ to \in {"Trusted", "Rejected", "Rollback"}
    \/ from = "Trusted"     /\ to \in {"Registering", "Rollback"}
    \/ from = "Registering" /\ to \in {"Registered", "Rollback"}
    \/ from = "Registered"  /\ to \in {"Member", "Rollback"}
    \/ from = "Member"      /\ to = "Rollback"
    \/ from = "Rejected"    /\ to = "Discovered"
    \/ from = "Rollback"    /\ to \in {"Discovered", "Untrusted"}

(* forceTransition on a known peer: an illegal one changes nothing. *)
ForceTransition(from, to) == IF IsTransitionValid(from, to) THEN to ELSE from

PairInit ==
    /\ fsm = [p \in Peers |-> "Unknown"]
    /\ active = {} /\ pairingDone = {} /\ registrationDone = {}
    /\ trusted = {} /\ registered = {} /\ refused = {}

-----------------------------------------------------------------------------

(* initiatePairing takes a Discovered peer through Untrusted to Pairing;   *)
(* from any state that does not lead to Pairing it returns an error.       *)
InitiateHandshake(p) ==
    LET s == IF CurrentState(fsm[p]) = "Discovered" THEN "Untrusted" ELSE fsm[p]
    IN  /\ IsTransitionValid(s, "Pairing")
        /\ fsm' = [fsm EXCEPT ![p] = "Pairing"]
        /\ active' = active \cup {p}
        /\ UNCHANGED <<pairingDone, registrationDone, trusted, registered, refused>>

(* The responder trusts the requester, whatever its state was. *)
HandlePairingRequest(p) ==
    /\ fsm' = [fsm EXCEPT ![p] = "Trusted"]
    /\ UNCHANGED <<active, pairingDone, registrationDone, trusted, registered, refused>>

(* A refusal: pairingDone is set all the same, if a handshake is active. *)
HandlePairingRejected(p) ==
    /\ fsm[p] # "Unknown"
    /\ fsm' = [fsm EXCEPT ![p] = "Rejected"]
    /\ pairingDone' = pairingDone \cup ({p} \cap active)
    /\ refused' = refused \cup ({p} \cap active)
    /\ UNCHANGED <<active, registrationDone, trusted, registered>>

(* An acceptance; an illegal transition returns an error. *)
HandlePairingAccepted(p) ==
    /\ fsm[p] # "Unknown" /\ IsTransitionValid(fsm[p], "Trusted")
    /\ fsm' = [fsm EXCEPT ![p] = "Trusted"]
    /\ pairingDone' = pairingDone \cup ({p} \cap active)
    /\ trusted' = trusted \cup {p}
    /\ UNCHANGED <<active, registrationDone, registered, refused>>

(* registerPeer: the identity is valid; the trusted list is not asked. *)
HandleRegistrationRequest(p) ==
    /\ registered' = registered \cup {p}
    /\ UNCHANGED <<fsm, active, pairingDone, registrationDone, trusted, refused>>

HandleRegistrationAccepted(p) ==
    /\ registrationDone' = registrationDone \cup ({p} \cap active)
    /\ UNCHANGED <<fsm, active, pairingDone, trusted, registered, refused>>

(* Mutant: pairingDone is not reset. *)
RollbackKeepsFlag(p) ==
    /\ registrationDone' = registrationDone \ {p}
    /\ fsm' = IF CurrentState(fsm[p]) \in {"Discovered", "Rejected"} THEN fsm
              ELSE [fsm EXCEPT ![p] =
                        ForceTransition(ForceTransition(@, "Rollback"), "Discovered")]
    /\ trusted' = trusted \ {p} /\ refused' = refused \ {p}
    /\ UNCHANGED <<active, pairingDone, registered>>

(* rollbackHandshake, also called by handleRegistrationResponse when the   *)
(* registration was refused.                                               *)
RollbackHandshake(p) ==
    /\ pairingDone' = pairingDone \ {p}
    /\ registrationDone' = registrationDone \ {p}
    /\ fsm' = IF CurrentState(fsm[p]) \in {"Discovered", "Rejected"} THEN fsm
              ELSE [fsm EXCEPT ![p] =
                        ForceTransition(ForceTransition(@, "Rollback"), "Discovered")]
    /\ trusted' = trusted \ {p} /\ refused' = refused \ {p}
    /\ UNCHANGED <<active, registered>>

(* Registering, Registered and Member in one call; an illegal first step   *)
(* returns an error, the other two are legal.                              *)
CompleteHandshake(p) ==
    /\ p \in active /\ p \in pairingDone /\ p \in registrationDone
    /\ fsm[p] # "Unknown" /\ IsTransitionValid(fsm[p], "Registering")
    /\ fsm' = [fsm EXCEPT ![p] = "Member"]
    /\ UNCHANGED <<active, pairingDone, registrationDone, trusted, registered, refused>>

Handler(p) == \/ InitiateHandshake(p) \/ HandlePairingRequest(p)
              \/ HandlePairingRejected(p) \/ HandlePairingAccepted(p)
              \/ HandleRegistrationRequest(p) \/ HandleRegistrationAccepted(p)
              \/ RollbackHandshake(p) \/ CompleteHandshake(p)

PairNext == \E p \in Peers : Handler(p)

PairSpec == PairInit /\ [][PairNext]_pairVars

-----------------------------------------------------------------------------
(* Properties.                                                             *)

(* Every variable has its type; only active handshakes carry flags. *)
PairTypeOK ==
    /\ fsm \in [Peers -> PairingState \cup {"Unknown"}]
    /\ active \subseteq Peers /\ trusted \subseteq Peers /\ registered \subseteq Peers
    /\ pairingDone \subseteq active /\ registrationDone \subseteq active /\ refused \subseteq active

(* pairingDone says that the pairing was answered, not that it succeeded:  *)
(* the peer is on the trusted list, or a refusal has set the flag.         *)
DoneIsAnswered == pairingDone \subseteq trusted \cup refused

(* A Member has an accepted registration, and it is on the trusted list -  *)
(* unless its pairing was refused, since handlePairingResponse takes a     *)
(* refusal for an answer like any other and a later request of the peer    *)
(* does the rest.  That is the one way past the trusted list: no late,     *)
(* repeated or lost message and no rollback is another.                    *)
MembersVouched ==
    \A p \in Peers : fsm[p] = "Member" =>
        /\ p \in registrationDone /\ p \in pairingDone
        /\ p \in trusted \/ p \in refused

(* A trusted entry belongs to a peer the state machine has brought at      *)
(* least to Trusted: every path back to Discovered has removed it.         *)
TrustFollowsFsm ==
    \A p \in trusted : fsm[p] \in {"Trusted", "Member", "Rejected"}

(* The inductive invariant: whatever messages arrive late, repeated or in  *)
(* the wrong order, a member is registered and on the trusted list or was  *)
(* refused, and a rollback leaves no trusted entry behind the state        *)
(* machine.                                                                *)
PairingInv == PairTypeOK /\ DoneIsAnswered /\ MembersVouched /\ TrustFollowsFsm

=============================================================================
