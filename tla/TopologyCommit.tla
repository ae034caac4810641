--------------------------- MODULE TopologyCommit ---------------------------
(***************************************************************************)
(* TopologyVersionManager (core/s09_membership): the two-phase change of   *)
(* the topology version on one node, with its coordinator coming and       *)
(* going.  The membership a proposal carries is never looked at, so a      *)
(* proposal is its version.  A call in the wrong state returns an error    *)
(* and changes nothing.                                                    *)
(***************************************************************************)
EXTENDS Integers

CONSTANTS
    TopoNodes,     \* the node ids
    NoNode,        \* not configured
    MaxVersion,    \* bound: topology versions proposed
    NoProposal     \* pendingProposal_ is empty

ASSUME TopoAssumption ==
    /\ NoNode \notin TopoNodes
    /\ MaxVersion \in Nat /\ NoProposal \notin 0 .. MaxVersion

VARIABLES
    commitState,        \* TopologyVersionManager::state_
    currentVersion,     \* current_
    pendingProposal,    \* pendingProposal_
    localNode,          \* localNodeId_
    authority,          \* authorityNodeId_, and coordinatorId_, which always equals it
    coordinatorOnline,  \* coordinatorOnline_
    vouched             \* history: what the authority has authorised, online ever since

topoVars == <<commitState, currentVersion, pendingProposal, localNode, authority,
              coordinatorOnline, vouched>>

CommitStates == {"Active", "Proposed", "Validated", "Prepared", "ActivationAuthorized", "Locked"}

TopoInit ==
    /\ commitState = "Active" /\ currentVersion = 0 /\ pendingProposal = NoProposal
    /\ localNode = NoNode /\ authority = NoNode /\ coordinatorOnline = TRUE
    /\ vouched = NoProposal

isCoordinator == coordinatorOnline /\ authority # NoNode /\ authority = localNode

isCommitLocked == authority = NoNode \/ ~coordinatorOnline \/ commitState = "Locked"

SetLocalNodeId(n) ==
    /\ localNode' = n
    /\ UNCHANGED <<commitState, currentVersion, pendingProposal, authority, coordinatorOnline, vouched>>

(* setTopologyAuthority: the first claim stays; setCoordinator only agrees *)
(* with it.                                                                *)
SetTopologyAuthority(n) ==
    /\ authority = NoNode
    /\ authority' = n
    /\ UNCHANGED <<commitState, currentVersion, pendingProposal, localNode, coordinatorOnline, vouched>>

ProposeChange(v) ==
    /\ ~isCommitLocked /\ isCoordinator /\ commitState = "Active"
    /\ pendingProposal' = v /\ commitState' = "Proposed"
    /\ UNCHANGED <<currentVersion, localNode, authority, coordinatorOnline, vouched>>

(* One step of the commit. *)
Advance(from, to) ==
    /\ commitState = from
    /\ commitState' = to
    /\ UNCHANGED <<currentVersion, pendingProposal, localNode, authority, coordinatorOnline>>

ValidateProposal == pendingProposal # NoProposal /\ Advance("Proposed", "Validated") /\ UNCHANGED vouched

PrepareCommit == Advance("Validated", "Prepared") /\ UNCHANGED vouched

AuthorizeActivation ==
    /\ isCoordinator
    /\ Advance("Prepared", "ActivationAuthorized")
    /\ vouched' = pendingProposal

(* The proposed version is installed whatever the current one is. *)
ActivateVersion ==
    /\ commitState = "ActivationAuthorized"
    /\ currentVersion' = IF pendingProposal # NoProposal THEN pendingProposal ELSE currentVersion
    /\ pendingProposal' = NoProposal /\ commitState' = "Active"
    /\ vouched' = NoProposal
    /\ UNCHANGED <<localNode, authority, coordinatorOnline>>

(* From Locked too, although the coordinator is still offline. *)
AbortCommit ==
    /\ commitState # "Active"
    /\ pendingProposal' = NoProposal /\ commitState' = "Active" /\ vouched' = NoProposal
    /\ UNCHANGED <<currentVersion, localNode, authority, coordinatorOnline>>

(* Mutant: a commit under way is not locked. *)
OfflineDoesNotLock ==
    /\ coordinatorOnline' = FALSE /\ vouched' = NoProposal
    /\ UNCHANGED <<commitState, currentVersion, pendingProposal, localNode, authority>>

MarkCoordinatorOffline ==
    /\ coordinatorOnline' = FALSE /\ vouched' = NoProposal
    /\ IF commitState = "Active" THEN UNCHANGED <<pendingProposal, commitState>>
       ELSE pendingProposal' = NoProposal /\ commitState' = "Locked"
    /\ UNCHANGED <<currentVersion, localNode, authority>>

(* Mutant: the lock outlives the return of the coordinator. *)
OnlineKeepsLock ==
    /\ coordinatorOnline' = TRUE
    /\ UNCHANGED <<commitState, currentVersion, pendingProposal, localNode, authority, vouched>>

MarkCoordinatorOnline ==
    /\ coordinatorOnline' = TRUE
    /\ commitState' = IF commitState = "Locked" THEN "Active" ELSE commitState
    /\ UNCHANGED <<currentVersion, pendingProposal, localNode, authority, vouched>>

TopoNext ==
    \/ \E n \in TopoNodes : SetLocalNodeId(n) \/ SetTopologyAuthority(n)
    \/ \E v \in 1 .. MaxVersion : ProposeChange(v)
    \/ ValidateProposal \/ PrepareCommit \/ AuthorizeActivation \/ ActivateVersion \/ AbortCommit
    \/ MarkCoordinatorOffline \/ MarkCoordinatorOnline

TopoSpec == TopoInit /\ [][TopoNext]_topoVars

-----------------------------------------------------------------------------
(* Properties.                                                             *)

(* Every variable has its type. *)
TopoTypeOK ==
    /\ commitState \in CommitStates
    /\ currentVersion \in 0 .. MaxVersion
    /\ pendingProposal \in 0 .. MaxVersion \cup {NoProposal}
    /\ vouched \in 0 .. MaxVersion \cup {NoProposal}
    /\ localNode \in TopoNodes \cup {NoNode} /\ authority \in TopoNodes \cup {NoNode}
    /\ coordinatorOnline \in BOOLEAN

(* A proposal is pending exactly while a commit is under way, a commit is  *)
(* under way only while the coordinator is online, and it is locked only   *)
(* while the coordinator is offline, and an authorised proposal is the     *)
(* pending one: no order of losses, returns, aborts and late calls leaves  *)
(* a half-finished commit that could be resumed.                           *)
CommitConsistent ==
    /\ (pendingProposal # NoProposal) <=> (commitState \notin {"Active", "Locked"})
    /\ (commitState \notin {"Active", "Locked"}) => coordinatorOnline
    /\ commitState = "Locked" => ~coordinatorOnline
    /\ commitState = "ActivationAuthorized" => vouched = pendingProposal

(* A version becomes current only if the authority authorised that very    *)
(* version while it was online, and neither an abort nor a loss of the     *)
(* coordinator came between.                                               *)
ActivationVouched ==
    [][(currentVersion' # currentVersion) => (currentVersion' = vouched)]_topoVars

=============================================================================
