---------------------------- MODULE TopologyView ----------------------------
(***************************************************************************)
(* TopologyView (core/common/domain): the arrangement of the endpoints by  *)
(* which an edge leads to a neighbour.  A view may hold anything its       *)
(* builder puts in; isLinear is the test it has to pass.                   *)
(***************************************************************************)
EXTENDS Integers, Sequences

CONSTANTS
    ViewNodes,     \* nodes of the view
    NoNeighbor,    \* a neighbour that is not set
    MaxViewParts   \* bound: endpoints and relations of a view

ASSUME ViewAssumption == NoNeighbor \notin ViewNodes /\ MaxViewParts \in Nat

(* The state of a side without a neighbour is of no account. *)
Sides == {<<NoNeighbor, "Offline">>} \cup (ViewNodes \X {"Online", "Offline"})
Relations == [node : ViewNodes, left : Sides, right : Sides]

VARIABLES
    viewEndpoints,     \* TopologyView::endpoints
    neighborRelations  \* TopologyView::neighborRelations

viewVars == <<viewEndpoints, neighborRelations>>

ViewInit == viewEndpoints = <<>> /\ neighborRelations = <<>>

AddEndpoint(n) ==
    /\ Len(viewEndpoints) < MaxViewParts
    /\ viewEndpoints' = Append(viewEndpoints, n)
    /\ UNCHANGED neighborRelations

AddRelation(rel) ==
    /\ Len(neighborRelations) < MaxViewParts
    /\ neighborRelations' = Append(neighborRelations, rel)
    /\ UNCHANGED viewEndpoints

Endpoints == {viewEndpoints[i] : i \in DOMAIN viewEndpoints}

HasDuplicateNodeIds == \E i, j \in DOMAIN viewEndpoints : i < j /\ viewEndpoints[i] = viewEndpoints[j]

(* Mutant: only the left neighbours are looked up. *)
IsLinearLeft ==
    /\ viewEndpoints # <<>> /\ ~HasDuplicateNodeIds
    /\ \A i \in DOMAIN neighborRelations :
          neighborRelations[i].node \in Endpoints /\ neighborRelations[i].left[1] \in Endpoints \cup {NoNeighbor}

(* A relation has two neighbours at most, so their number tells nothing. *)
IsLinear ==
    /\ viewEndpoints # <<>> /\ ~HasDuplicateNodeIds
    /\ \A i \in DOMAIN neighborRelations :
          LET rel == neighborRelations[i] IN
          /\ rel.node \in Endpoints
          /\ {rel.left[1], rel.right[1]} \subseteq Endpoints \cup {NoNeighbor}

(* neighborOf: the first relation of the node decides. *)
NeighborOf(n, direction) ==
    LET own == {i \in DOMAIN neighborRelations : neighborRelations[i].node = n}
        first == CHOOSE i \in own : \A j \in own : i <= j
        side == IF direction = "Left" THEN neighborRelations[first].left ELSE neighborRelations[first].right
    IN  IF own = {} \/ (own # {} /\ (side[2] = "Offline" \/ side[1] \notin Endpoints)) THEN NoNeighbor
        ELSE side[1]

ViewNext ==
    \/ \E n \in ViewNodes : AddEndpoint(n)
    \/ \E rel \in Relations : AddRelation(rel)

ViewSpec == ViewInit /\ [][ViewNext]_viewVars

-----------------------------------------------------------------------------
(* Properties.                                                             *)

(* In a view that isLinear accepts, an edge never leads nowhere: the first *)
(* relation of a node with a neighbour that is not offline gives that      *)
(* neighbour, and it is an endpoint of the view.                           *)
NeighborsResolve ==
    IsLinear =>
        \A i \in DOMAIN neighborRelations :
            LET rel == neighborRelations[i]
                Resolves(side, direction) == side[2] = "Online" =>
                    NeighborOf(rel.node, direction) = side[1] /\ side[1] \in Endpoints
            IN  (\A j \in 1 .. i - 1 : neighborRelations[j].node # rel.node)
                    => Resolves(rel.left, "Left") /\ Resolves(rel.right, "Right")

=============================================================================
