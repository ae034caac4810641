----------------------------- MODULE MCControl -----------------------------
(* TLC instance of the services of one node: IdentityStore, TrustStore,    *)
(* SessionFence, TopologyCommit, Discovery, Announcer, LogQueue and        *)
(* PairingHandshake.                                                       *)
(* They share no state, so their product would only multiply states:       *)
(* `focus' picks one of them at the start and the others keep their        *)
(* initial state.                                                          *)
EXTENDS IdentityStore, TrustStore, SessionFence, TopologyCommit, Discovery, Announcer, LogQueue,
        PairingHandshake

VARIABLE focus

vars == <<focus, idVars, trustVars, fenceVars, topoVars, discVars, annVars, logVars, pairVars>>

Init ==
    /\ focus \in {"identity", "trust", "fence", "topology", "discovery", "announcer", "log", "pairing"}
    /\ IdInit /\ TrustInit /\ FenceInit /\ TopoInit /\ DiscInit /\ AnnInit /\ LogInit /\ PairInit
    /\ focus # "announcer" => platform = "win"

Next ==
    /\ UNCHANGED focus
    /\ \/ focus = "identity" /\ IdNext
          /\ UNCHANGED <<trustVars, fenceVars, topoVars, discVars, annVars, logVars, pairVars>>
       \/ focus = "trust" /\ TrustNext
          /\ UNCHANGED <<idVars, fenceVars, topoVars, discVars, annVars, logVars, pairVars>>
       \/ focus = "fence" /\ FenceNext
          /\ UNCHANGED <<idVars, trustVars, topoVars, discVars, annVars, logVars, pairVars>>
       \/ focus = "topology" /\ TopoNext
          /\ UNCHANGED <<idVars, trustVars, fenceVars, discVars, annVars, logVars, pairVars>>
       \/ focus = "discovery" /\ DiscNext
          /\ UNCHANGED <<idVars, trustVars, fenceVars, topoVars, annVars, logVars, pairVars>>
       \/ focus = "announcer" /\ AnnNext
          /\ UNCHANGED <<idVars, trustVars, fenceVars, topoVars, discVars, logVars, pairVars>>
       \/ focus = "log" /\ LogNext
          /\ UNCHANGED <<idVars, trustVars, fenceVars, topoVars, discVars, annVars, pairVars>>
       \/ focus = "pairing" /\ PairNext
          /\ UNCHANGED <<idVars, trustVars, fenceVars, topoVars, discVars, annVars, logVars>>

Spec == Init /\ [][Next]_vars /\ AnnFairness /\ LogFairness

(* The variables of the services have their types. *)
ControlTypeOK == IdTypeOK /\ TrustTypeOK /\ TopoTypeOK /\ DiscTypeOK /\ LogTypeOK
=============================================================================
