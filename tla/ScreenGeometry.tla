--------------------------- MODULE ScreenGeometry ---------------------------
(***************************************************************************)
(* The screen of the controlling Mac: MacScreenQuery with its cache and    *)
(* merge policy, DisplayReconfigListener, NativeCoordNormalizer and        *)
(* EdgeDetector (platform/mac).                                            *)
(*                                                                         *)
(* A display is its origin and size in the coordinates of CGDisplay (y     *)
(* down), a boundary its width and height: its origin is always 0.  One    *)
(* thread queries; displays change at any time, also between its reading   *)
(* of them and its publishing.                                             *)
(***************************************************************************)
EXTENDS Integers, Sequences, FiniteSetsExt

CONSTANTS
    Layouts,     \* arrangements of displays: sequences of [x, y, w, h]
    NoBoundary,  \* the cache holds no snapshot
    CoordLimit,  \* 2^31: an int32_t goes from -CoordLimit to CoordLimit - 1
    Reach        \* bound: how far beside the displays a cursor is looked for

Displays == [x : Int, y : Int, w : Nat, h : Nat]

ASSUME LayoutsAssumption ==
    /\ \A ds \in Layouts : ds # <<>> /\ ds \in Seq(Displays)
    /\ Reach \in Nat /\ CoordLimit \in Nat

VARIABLES
    displays,    \* external: the active displays
    policy,      \* policy_: "None", "Unsupported" or "BoundingBox"
    boundary,    \* ScreenBoundaryCache::snapshot_
    pending,     \* reconfigPending_
    registered,  \* DisplayReconfigListener::registered_
    queryPc,     \* the querying thread: "idle", "read" or "publish"
    seen,        \* the displays it has read
    missed,      \* history: a change not reported and not read since
    refused      \* history: the last query published nothing

screenVars == <<displays, policy, boundary, pending, registered, queryPc, seen, missed, refused>>

ScreenInit ==
    /\ displays \in Layouts /\ policy = "None" /\ boundary = NoBoundary /\ pending = FALSE
    /\ registered = FALSE /\ queryPc = "idle" /\ seen = <<>> /\ missed = FALSE /\ refused = FALSE

-----------------------------------------------------------------------------
(* NativeCoordNormalizer and EdgeDetector.                                  *)

(* static_cast<int32_t>: beyond its range the value wraps. *)
AsInt32(v) ==
    IF v \in -CoordLimit .. CoordLimit - 1 THEN v ELSE ((v + CoordLimit) % (2 * CoordLimit)) - CoordLimit

ComputeBoundingBox(ds) ==
    [left  |-> Min({ds[i].x : i \in DOMAIN ds}),           top    |-> Min({ds[i].y : i \in DOMAIN ds}),
     right |-> Max({ds[i].x + ds[i].w : i \in DOMAIN ds}), bottom |-> Max({ds[i].y + ds[i].h : i \in DOMAIN ds})]

ToScreenBoundary(d) == [width |-> d.w, height |-> d.h]

ToScreenBoundaryMerged(b) == [width |-> b.right - b.left, height |-> b.bottom - b.top]

BoundaryOf(ds) == IF Len(ds) = 1 THEN ToScreenBoundary(ds[1]) ELSE ToScreenBoundaryMerged(ComputeBoundingBox(ds))

IsValid(b) == b.width > 0 /\ b.height > 0

(* Mutant: NSScreen's upward y is not turned over. *)
SingleUnflipped(p, d, api) == [x |-> AsInt32(p.x - d.x), y |-> AsInt32(p.y - d.y)]

NormalizeSingleDisplay(p, d, api) ==
    [x |-> AsInt32(p.x - d.x), y |-> AsInt32(IF api = "NSScreen" THEN d.h + d.y - p.y ELSE p.y - d.y)]

NormalizeMultiDisplay(p, b) == [x |-> AsInt32(p.x - b.left), y |-> AsInt32(p.y - b.top)]

(* <<>>, or the direction, the distance and the row of the cursor. *)
Detect(p, b) ==
    LET width == AsInt32(b.width)
        level == IsValid(b) /\ 0 <= p.y /\ p.y <= AsInt32(b.height)
    IN  CASE level /\ p.x < 0 -> <<"Left", -p.x, p.y>>
          [] level /\ p.x >= 0 /\ p.x > width -> <<"Right", p.x - width, p.y>>
          [] OTHER -> <<>>

-----------------------------------------------------------------------------
(* Listener, cache and query.                                              *)

(* The system changes the displays and calls reconfigCallback. *)
Reconfigure(ds) ==
    /\ ds # displays /\ displays' = ds
    /\ pending' = (pending \/ registered) /\ missed' = (missed \/ ~registered)
    /\ UNCHANGED <<policy, boundary, registered, queryPc, seen, refused>>

RegisterCallback ==
    /\ ~registered /\ registered' = TRUE
    /\ UNCHANGED <<displays, policy, boundary, pending, queryPc, seen, missed, refused>>

UnregisterCallback ==
    /\ registered /\ registered' = FALSE
    /\ UNCHANGED <<displays, policy, boundary, pending, queryPc, seen, missed, refused>>

SetPolicy(p) ==
    /\ policy' = p
    /\ UNCHANGED <<displays, boundary, pending, registered, queryPc, seen, missed, refused>>

(* With a snapshot, stale or not, primaryBoundary returns that. *)
PrimaryBoundary ==
    /\ queryPc = "idle" /\ boundary = NoBoundary
    /\ queryPc' = "read"
    /\ UNCHANGED <<displays, policy, boundary, pending, registered, seen, missed, refused>>

(* consumeReconfigPending, and then requeryAndNormalize. *)
ConsumeReconfigPending ==
    /\ queryPc = "idle" /\ pending
    /\ pending' = FALSE /\ queryPc' = "read"
    /\ UNCHANGED <<displays, policy, boundary, registered, seen, missed, refused>>

(* queryAllDisplaysNativeGeometry; it may find no displays. *)
QueryAllDisplaysNativeGeometry ==
    /\ queryPc = "read" /\ queryPc' = "publish"
    /\ \/ seen' = displays /\ missed' = FALSE
       \/ seen' = <<>> /\ UNCHANGED missed
    /\ UNCHANGED <<displays, policy, boundary, pending, registered, refused>>

(* Mutant: the flag is cleared when the query is done. *)
PublishClears ==
    /\ queryPc = "publish" /\ queryPc' = "idle" /\ seen' = <<>> /\ pending' = FALSE
    /\ LET ok == seen # <<>> /\ IsValid(BoundaryOf(seen)) IN
       /\ boundary' = IF ok THEN BoundaryOf(seen) ELSE boundary
       /\ refused' = ~ok
    /\ UNCHANGED <<displays, policy, registered, missed>>

(* The rest of requeryAndNormalize: no displays, several without the       *)
(* policy, or an invalid boundary leave the cache as it is.                *)
Publish ==
    /\ queryPc = "publish" /\ queryPc' = "idle" /\ seen' = <<>>
    /\ LET ok == /\ seen # <<>> /\ (Len(seen) > 1 => policy = "BoundingBox")
                 /\ IsValid(BoundaryOf(seen))
       IN  /\ boundary' = IF ok THEN BoundaryOf(seen) ELSE boundary
           /\ refused' = ~ok
    /\ UNCHANGED <<displays, policy, pending, registered, missed>>

ScreenNext ==
    \/ \E ds \in Layouts : Reconfigure(ds)
    \/ RegisterCallback \/ UnregisterCallback
    \/ \E p \in {"Unsupported", "BoundingBox"} : SetPolicy(p)
    \/ PrimaryBoundary \/ ConsumeReconfigPending \/ QueryAllDisplaysNativeGeometry \/ Publish

ScreenSpec == ScreenInit /\ [][ScreenNext]_screenVars

-----------------------------------------------------------------------------
(* Properties.                                                             *)

(* A change of the displays, even one in the middle of a query, leaves the *)
(* cache stale only while reconfigPending_ says so, a query is under way,  *)
(* the listener was not registered, or the last query was refused.         *)
SnapshotFresh ==
    (queryPc = "idle" /\ ~pending /\ ~missed /\ ~refused /\ boundary # NoBoundary)
        => boundary = BoundaryOf(displays)

(* The points level with the displays, as far as int32_t reaches, and      *)
(* where each lies: beside which edge, how far, and how far from the top,  *)
(* which for NSScreen is where y is largest.                               *)
Around(b) == [x : b.left - Reach .. b.right + Reach, y : b.top .. b.bottom]
Fits(b) == b.right - b.left + Reach < CoordLimit /\ b.bottom - b.top < CoordLimit
Row(p, b, api) == IF api = "NSScreen" THEN b.bottom - p.y ELSE p.y - b.top
Side(p, b, api) == CASE p.x < b.left -> <<"Left", b.left - p.x, Row(p, b, api)>>
                     [] p.x > b.right -> <<"Right", p.x - b.right, Row(p, b, api)>>
                     [] OTHER -> <<>>

(* With displays anywhere around the origin, in either coordinate system,  *)
(* a cursor beside the displays is at an edge, at its true distance and in *)
(* its true row from the top, and one on them is at none: as long as the   *)
(* coordinates fit the types they are cast to.                             *)
EdgesExact ==
    LET b == ComputeBoundingBox(displays) IN
    IsValid(BoundaryOf(displays)) /\ Fits(b) =>
        \A p \in Around(b) :
            IF Len(displays) = 1
            THEN \A api \in {"CGDisplay", "NSScreen"} :
                    Detect(NormalizeSingleDisplay(p, displays[1], api), BoundaryOf(displays)) = Side(p, b, api)
            ELSE Detect(NormalizeMultiDisplay(p, b), BoundaryOf(displays)) = Side(p, b, "CGDisplay")

=============================================================================
