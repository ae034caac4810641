---------------------------- MODULE InputProofs ----------------------------
(***************************************************************************)
(* Proofs about the parts an input event passes, for every value of their  *)
(* constants: ReleaseExecutor, ModifierSync, ResyncCoordinator,            *)
(* TopologyView, ScreenGeometry, InputPath and Evidence by themselves,     *)
(* then the input path MCInput composes of them.                           *)
(***************************************************************************)
EXTENDS MCInput, FiniteSetTheorems, SequenceTheorems, WellFoundedInduction, TLAPS

-----------------------------------------------------------------------------
(* ReleaseExecutor.                                                        *)

(* The one trace of an earlier late execution.                             *)
LateIsSaid == everLate <=> (lastResult = "DeadlineReached")

(* An injection is only begun when the clock was last seen in time, so     *)
(* that none has been late before it.                                      *)
ExInv ==
    /\ snapshot \in SUBSET (1 .. Slots) /\ released \subseteq snapshot
    /\ exPc \in {"idle", "before", "inject", "after", "done"}
    /\ exPc \in {"before", "inject", "after"} => slot \in snapshot
    /\ lateInjects \in {0, 1}
    /\ lateInjects = 1 => late
    /\ exPc \in {"before", "inject"} => lateInjects = 0
    /\ lastResult \in {"Success", "PartialRelease", "Degraded", "DeadlineReached"}
    /\ LateIsSaid /\ ResultHonest

(* Counting what was released tells whether it is everything.              *)
LEMMA CountTells ==
    ASSUME NEW S \in SUBSET (1 .. Slots), NEW R \in SUBSET S
    PROVE  (Cardinality(R) = Cardinality(S)) <=> (R = S)
  <1>1. IsFiniteSet(1 .. Slots)
    BY SlotsAssumption, FS_Interval
  <1>2. IsFiniteSet(S)
    BY <1>1, FS_Subset
  <1> QED
    BY <1>2, FS_Subset

(* What execute reports when it was in time.                               *)
LEMMA VerdictHonest ==
    ASSUME ExInv
    PROVE  Verdict = IF released = snapshot THEN "Success"
                     ELSE IF released = {} THEN "Degraded" ELSE "PartialRelease"
  <1>1. (Cardinality(released) = Cardinality(snapshot)) <=> (released = snapshot)
    BY CountTells DEF ExInv
  <1> DEFINE all == Cardinality(released) = Cardinality(snapshot)
  <1>2. Verdict = IF all THEN "Success" ELSE IF released # {} THEN "PartialRelease" ELSE "Degraded"
    BY DEF Verdict
  <1>3. all <=> (released = snapshot)
    BY <1>1
  <1> HIDE DEF all
  <1>4. CASE all
    BY <1>2, <1>3, <1>4
  <1>5. CASE ~all /\ released # {}
    BY <1>2, <1>3, <1>5
  <1>6. CASE ~all /\ released = {}
    BY <1>2, <1>3, <1>6
  <1> QED
    BY <1>4, <1>5, <1>6

(* Every step keeps the invariant, whenever the deadline passes.           *)
LEMMA ExStep ==
    ASSUME ExInv, ExNext
    PROVE  ExInv'
  <1> USE DEF ExInv
  <1>1. ASSUME NEW S \in SUBSET (1 .. Slots), Execute(S)
        PROVE  ExInv'
    <2>1. exPc' # "idle" => ResultHonest' /\ LateIsSaid'
      BY <1>1, Zenon DEF Execute, ResultHonest, LateIsSaid
    <2>2. /\ snapshot' = S /\ released' = {} /\ late' = FALSE /\ lateInjects' = 0
          /\ exPc' \in {"before", "done"} /\ UNCHANGED <<lastResult, everLate>>
          /\ exPc' = "before" => slot' \in S
      BY <1>1 DEF Execute
    <2> QED
      BY <2>1, <2>2
  <1>2. CASE DeadlinePasses
    <2>1. ResultHonest' /\ LateIsSaid'
      BY <1>2, Zenon DEF DeadlinePasses, ResultHonest, LateIsSaid
    <2> QED
      BY <1>2, <2>1 DEF DeadlinePasses
  <1>3. CASE CheckBefore
    <2>1. ResultHonest'
      BY <1>3, Zenon DEF CheckBefore, Check, ResultHonest
    <2>2. LateIsSaid'
      BY <1>3, Zenon DEF CheckBefore, Check, LateIsSaid
    <2> QED
      BY <1>3, <2>1, <2>2 DEF CheckBefore, Check
  <1>4. CASE CheckAfter
    <2>1. Pressed(slot) \subseteq snapshot
      BY DEF Pressed
    <2>2. ResultHonest'
      BY <1>4 DEF CheckAfter, Check, Goto, ResultHonest
    <2>3. LateIsSaid'
      BY <1>4, Zenon DEF CheckAfter, Check, LateIsSaid
    <2> QED
      BY <1>4, <2>1, <2>2, <2>3 DEF CheckAfter, Check, Goto
  <1>5. ASSUME NEW ok \in BOOLEAN, Release(ok)
        PROVE  ExInv'
    <2>1. ResultHonest' /\ LateIsSaid'
      BY <1>5, Zenon DEF Release, ResultHonest, LateIsSaid
    <2>2. lateInjects' \in {0, 1} /\ (lateInjects' = 1 => late')
      <3>1. lateInjects = 0
        BY <1>5 DEF Release
      <3>2. CASE late
        BY <1>5, <3>1, <3>2 DEF Release
      <3>3. CASE ~late
        BY <1>5, <3>1, <3>3 DEF Release
      <3> QED
        BY <3>2, <3>3
    <2>3. slot \in snapshot /\ released \subseteq snapshot /\ released' \subseteq snapshot
      BY <1>5 DEF Release
    <2>4. UNCHANGED <<snapshot, slot, lastResult>> /\ exPc' = "after"
      BY <1>5 DEF Release
    <2> QED
      BY <2>1, <2>2, <2>3, <2>4
  <1>6. CASE Return
    <2>1. LateIsSaid' /\ ResultHonest'
      <3>1. CASE lastResult = "DeadlineReached"
        BY <1>6, <3>1, Zenon DEF Return, LateIsSaid, ResultHonest
      <3>2. CASE lastResult # "DeadlineReached"
        <4>1. lastResult' = Verdict /\ everLate' = everLate /\ released' = released /\ snapshot' = snapshot
          BY <1>6, <3>2 DEF Return
        <4>2. Verdict \in {"Success", "PartialRelease", "Degraded"}
          BY DEF Verdict
        <4>3. lastResult' = IF released' = snapshot' THEN "Success"
                            ELSE IF released' = {} THEN "Degraded" ELSE "PartialRelease"
          BY <4>1, VerdictHonest, Zenon
        <4>4. ~everLate
          BY <3>2, Zenon DEF LateIsSaid
        <4>5. ~everLate' /\ lastResult' # "DeadlineReached"
          BY <4>1, <4>2, <4>4
        <4>6. LateIsSaid'
          BY <4>5, Zenon DEF LateIsSaid
        <4>7. ResultHonest'
          BY <4>3, <4>5, Zenon DEF ResultHonest
        <4> QED
          BY <4>6, <4>7
      <3> QED
        BY <3>1, <3>2
    <2> QED
      BY <1>6, <2>1 DEF Return, Verdict
  <1> QED
    BY <1>1, <1>2, <1>3, <1>4, <1>5, <1>6 DEF ExNext

(* The invariant of every behaviour.                                       *)
LEMMA ExInvariant == ExSpec => []ExInv
  <1>1. ExInit => ExInv
    <2> SUFFICES ASSUME ExInit PROVE ExInv
      OBVIOUS
    <2>1. everLate = FALSE /\ lastResult = "Success" /\ released = snapshot
      BY DEF ExInit
    <2>2. ResultHonest
      BY <2>1, Zenon DEF ResultHonest
    <2>3. LateIsSaid
      BY <2>1 DEF LateIsSaid
    <2> QED
      BY <2>2, <2>3 DEF ExInit, ExInv
  <1>2. ASSUME ExInv, UNCHANGED exVars PROVE ExInv'
    <2>1. ResultHonest' /\ LateIsSaid'
      BY <1>2, Zenon DEF exVars, ExInv, ResultHonest, LateIsSaid
    <2> QED
      BY <1>2, <2>1 DEF exVars, ExInv
  <1>3. ExInv /\ [ExNext]_exVars => ExInv'
    BY <1>2, ExStep
  <1> QED
    BY <1>1, <1>3, PTL DEF ExSpec

(* Until an execution meets its deadline the result execute leaves is what *)
(* happened to the pressed controls; from then on it is DeadlineReached.   *)
THEOREM ResultHonestHolds == ExSpec => []ResultHonest
  <1>1. ExInv => ResultHonest
    BY DEF ExInv
  <1> QED
    BY <1>1, ExInvariant, PTL

(* However the deadline falls, at most one injection is begun after it.    *)
THEOREM DeadlineHeldHolds == ExSpec => []DeadlineHeld
  <1>1. ExInv => DeadlineHeld
    BY DEF ExInv, DeadlineHeld
  <1> QED
    BY <1>1, ExInvariant, PTL

-----------------------------------------------------------------------------
(* ModifierSync.                                                           *)

(* Outside the modifiers that went wrong, the keys at the target are as    *)
(* macOS remembers them, and on either system as the last call wanted.     *)
ModInv ==
    /\ injectorOs \in {"win", "mac"}
    /\ modsDown \subseteq Mods /\ localModifierState \subseteq Mods
    /\ synced # <<>> => synced = <<synced[1]>> /\ (injectorOs = "mac" => synced[1] = localModifierState)
    /\ injectorOs = "mac" => \A k \in Mods \ wrong : k \in modsDown <=> k \in localModifierState
    /\ injectorOs = "win" => "fn" \notin modsDown
    /\ ModifiersAligned

(* Every step keeps the two in line.                                       *)
LEMMA ModStep ==
    ASSUME ModInv, ModNext
    PROVE  ModInv'
  <1>1. ASSUME NEW flags \in SUBSET Mods, SyncModifiersWin(flags)
        PROVE  ModInv'
    <2> DEFINE m == extractModifierState(flags)
               C == {k \in Mods \ {"fn"} : (k \in m) # (k \in modsDown)}
    <2>1. m \subseteq Mods
      BY DEF extractModifierState
    <2>2. PICK F \in SUBSET C : modsDown' = Brought(m, C, F) /\ wrong' = F
      BY <1>1 DEF SyncModifiersWin
    <2>3. injectorOs = "win" /\ injectorOs' = "win" /\ localModifierState' = m
          /\ synced' = <<m \ {"fn"}>> /\ reported' = TRUE
      BY <1>1 DEF SyncModifiersWin
    <2>4. modsDown' \subseteq Mods /\ "fn" \notin modsDown'
      BY <2>1, <2>2, <2>3 DEF Brought, ModInv
    <2>5. \A k \in Mods \ wrong' : k \in modsDown' <=> k \in m \ {"fn"}
      BY <2>1, <2>2, <2>3 DEF Brought, ModInv
    <2> HIDE DEF m, C
    <2>6. synced'[1] = m \ {"fn"}
      BY <2>3
    <2>7. ModifiersAligned'
      BY <2>3, <2>5, <2>6 DEF ModifiersAligned
    <2> QED
      BY <2>1, <2>3, <2>4, <2>6, <2>7 DEF ModInv
  <1>2. ASSUME NEW flags \in SUBSET Mods, SyncModifiersMac(flags)
        PROVE  ModInv'
    <2> DEFINE m == extractModifierState(flags)
               C == {k \in Mods : (k \in m) # (k \in localModifierState)}
    <2>1. m \subseteq Mods
      BY DEF extractModifierState
    <2>2. PICK F \in SUBSET C :
              modsDown' = Brought(m, C, F) /\ wrong' = (wrong \ C) \cup F /\ reported' = (F = {})
      BY <1>2 DEF SyncModifiersMac
    <2>3. injectorOs = "mac" /\ injectorOs' = "mac" /\ localModifierState' = m /\ synced' = <<m>>
      BY <1>2 DEF SyncModifiersMac
    <2>4. modsDown' \subseteq Mods
      BY <2>1, <2>2 DEF Brought, ModInv
    <2>5. ASSUME NEW k \in Mods, k \notin wrong'
          PROVE  k \in modsDown' <=> k \in m
      <3>1. CASE k \in C
        BY <2>2, <2>5, <3>1 DEF Brought
      <3>2. CASE k \notin C
        BY <2>2, <2>3, <2>5, <3>2 DEF Brought, ModInv
      <3> QED
        BY <3>1, <3>2
    <2>6. wrong' = {} => reported'
      BY <2>2
    <2> HIDE DEF m, C
    <2>7. synced'[1] = m
      BY <2>3
    <2>8. ModifiersAligned'
      BY <2>5, <2>6, <2>7 DEF ModifiersAligned
    <2> QED
      BY <2>1, <2>3, <2>4, <2>5, <2>7, <2>8 DEF ModInv
  <1>3. ASSUME NEW S \in SUBSET (Mods \ {"fn"}), ReleaseModifiers(S)
        PROVE  ModInv'
    BY <1>3 DEF ReleaseModifiers, ModInv, ModifiersAligned
  <1>4. ASSUME NEW k \in Mods \ {"fn"}, LocalModifier(k)
        PROVE  ModInv'
    BY <1>4 DEF LocalModifier, ModInv, ModifiersAligned
  <1> QED
    BY <1>1, <1>2, <1>3, <1>4 DEF ModNext

(* After syncModifiers the target has the source's modifiers, all but      *)
(* those that went wrong and have not been made right since.               *)
THEOREM ModifiersAlignedHolds == ModSpec => []ModifiersAligned
  <1>1. ModInit => ModInv
    BY DEF ModInit, ModInv, ModifiersAligned
  <1>2. ModInv /\ [ModNext]_modVars => ModInv'
    BY ModStep DEF modVars, ModInv, ModifiersAligned
  <1>3. ModInv => ModifiersAligned
    BY DEF ModInv
  <1> QED
    BY <1>1, <1>2, <1>3, PTL DEF ModSpec

-----------------------------------------------------------------------------
(* ResyncCoordinator.                                                      *)

(* The mutex keeps handlers apart: the one that runs tells of its thread's *)
(* notice and has shut the gate.  A settled coordinator believes the link  *)
(* to be what it is, or a thread is still to tell it.                      *)
HandlersApart ==
    \A t, u \in NoticeThreads : handling[t] # "idle" /\ handling[u] # "idle" => t = u

HandlerPlaces ==
    \A t \in NoticeThreads :
        /\ handling[t] = "down" => due[t] = "down" /\ believed = "down"
        /\ handling[t] \in {"up", "resync"} => due[t] = "up" /\ believed = "up"

BelievedOrDue == settled => believed = link \/ \E t \in NoticeThreads : due[t] = link

GateInv ==
    /\ handling \in [NoticeThreads -> {"idle", "down", "up", "resync"}]
    /\ due \in [NoticeThreads -> {"none", "up", "down"}]
    /\ link \in {"up", "down"}
    /\ HandlersApart /\ HandlerPlaces /\ BelievedOrDue
    /\ HandlerMutexFree => (isInputAllowed <=> believed # "down" /\ confirmed)

(* Every access to the gate, by any thread, keeps the invariant.           *)
LEMMA GateStep ==
    ASSUME GateInv, GateNext
    PROVE  GateInv'
  <1> USE DEF GateInv, HandlersApart, HandlerPlaces, BelievedOrDue, HandlerMutexFree, isInputAllowed
  <1>1. CASE GateStart \/ GateStop
    BY <1>1 DEF GateStart, GateStop
  <1>2. ASSUME NEW t \in NoticeThreads, NEW state \in {"up", "down"}, LinkChanges(t, state)
        PROVE  GateInv'
    BY <1>2 DEF LinkChanges
  <1>3. ASSUME NEW t \in NoticeThreads, NoticeIgnored(t)
        PROVE  GateInv'
    BY <1>3 DEF NoticeIgnored, Told
  <1>4. ASSUME NEW t \in NoticeThreads, onDisconnected(t)
        PROVE  GateInv'
    BY <1>4 DEF onDisconnected, At, Hears
  <1>5. ASSUME NEW t \in NoticeThreads, DownEnds(t)
        PROVE  GateInv'
    BY <1>5 DEF DownEnds, At, Told
  <1>6. ASSUME NEW t \in NoticeThreads, onConnected(t)
        PROVE  GateInv'
    BY <1>6 DEF onConnected, At, Told, Hears
  <1>7. ASSUME NEW t \in NoticeThreads, UpResyncs(t)
        PROVE  GateInv'
    BY <1>7 DEF UpResyncs, At
  <1>8. ASSUME NEW t \in NoticeThreads, NEW ok \in BOOLEAN, UpEnds(t, ok)
        PROVE  GateInv'
    BY <1>8 DEF UpEnds, At, Told
  <1> QED
    BY <1>1, <1>2, <1>3, <1>4, <1>5, <1>6, <1>7, <1>8 DEF GateNext

(* Between notices the gate is as the last one handled and the last        *)
(* recovery say, and as the link is once nothing is left to tell.          *)
THEOREM GateHonestHolds == GateSpec => []GateHonest
  <1>1. GateInit => GateInv
    BY DEF GateInit, GateInv, HandlersApart, HandlerPlaces, BelievedOrDue, isInputAllowed
  <1>2. GateInv /\ [GateNext]_gateVars => GateInv'
    BY GateStep DEF gateVars, GateInv, HandlersApart, HandlerPlaces, BelievedOrDue, HandlerMutexFree,
       isInputAllowed
  <1>3. GateInv => GateHonest
    BY DEF GateInv, GateHonest, BelievedOrDue, NothingDue
  <1> QED
    BY <1>1, <1>2, <1>3, PTL DEF GateSpec

-----------------------------------------------------------------------------
(* TopologyView.                                                           *)

(* The sequences a view is built of.                                       *)
ViewInv == viewEndpoints \in Seq(ViewNodes) /\ neighborRelations \in Seq(Relations)

(* The first relation of a node is the one neighborOf looks at.            *)
LEMMA NeighborIs ==
    ASSUME ViewInv, NEW i \in DOMAIN neighborRelations, NEW direction,
           \A j \in 1 .. i - 1 : neighborRelations[j].node # neighborRelations[i].node,
           NEW side, side = IF direction = "Left" THEN neighborRelations[i].left ELSE neighborRelations[i].right,
           side[2] # "Offline", side[1] \in Endpoints
    PROVE  NeighborOf(neighborRelations[i].node, direction) = side[1]
  <1> DEFINE n == neighborRelations[i].node
             own == {j \in DOMAIN neighborRelations : neighborRelations[j].node = n}
             first == CHOOSE j \in own : \A k \in own : j <= k
  <1>1. DOMAIN neighborRelations \subseteq Nat \ {0} /\ i \in own
    BY DEF ViewInv
  <1>2. ASSUME NEW k \in own PROVE i <= k
    <2>1. k \in Nat \ {0} /\ i \in Nat \ {0} /\ neighborRelations[k].node = n
      BY <1>1
    <2>2. SUFFICES ASSUME k < i PROVE FALSE
      BY <2>1
    <2>3. k \in 1 .. i - 1
      BY <2>1, <2>2
    <2> QED
      BY <2>1, <2>3
  <1>3. first \in own /\ \A k \in own : first <= k
    BY <1>1, <1>2
  <1>4. first = i
    BY <1>1, <1>2, <1>3
  <1>5. own # {}
    BY <1>1
  <1>6. NeighborOf(n, direction) =
           LET s == IF direction = "Left" THEN neighborRelations[first].left ELSE neighborRelations[first].right
           IN  IF own = {} \/ (own # {} /\ (s[2] = "Offline" \/ s[1] \notin Endpoints)) THEN NoNeighbor
               ELSE s[1]
    BY DEF NeighborOf
  <1> HIDE DEF own, first
  <1> QED
    BY <1>4, <1>5, <1>6

(* Whatever a view is built of, if isLinear accepts it an edge with a      *)
(* neighbour that is online leads to that neighbour.                       *)
THEOREM NeighborsResolveHolds == ViewSpec => []NeighborsResolve
  <1>1. ViewInit => ViewInv
    BY DEF ViewInit, ViewInv
  <1>2. ViewInv /\ [ViewNext]_viewVars => ViewInv'
    <2> SUFFICES ASSUME ViewInv, [ViewNext]_viewVars PROVE ViewInv'
      OBVIOUS
    <2>1. ASSUME NEW n \in ViewNodes, AddEndpoint(n) PROVE ViewInv'
      BY <2>1 DEF ViewInv, AddEndpoint
    <2>2. ASSUME NEW rel \in Relations, AddRelation(rel) PROVE ViewInv'
      BY <2>2 DEF ViewInv, AddRelation
    <2>3. CASE UNCHANGED viewVars
      BY <2>3 DEF ViewInv, viewVars
    <2> QED
      BY <2>1, <2>2, <2>3 DEF ViewNext
  <1>3. ViewInv => NeighborsResolve
    <2> SUFFICES ASSUME ViewInv, IsLinear, NEW i \in DOMAIN neighborRelations,
                        \A j \in 1 .. i - 1 : neighborRelations[j].node # neighborRelations[i].node
                 PROVE  /\ neighborRelations[i].left[2] = "Online" =>
                              /\ NeighborOf(neighborRelations[i].node, "Left") = neighborRelations[i].left[1]
                              /\ neighborRelations[i].left[1] \in Endpoints
                        /\ neighborRelations[i].right[2] = "Online" =>
                              /\ NeighborOf(neighborRelations[i].node, "Right") = neighborRelations[i].right[1]
                              /\ neighborRelations[i].right[1] \in Endpoints
      BY Zenon DEF NeighborsResolve
    <2>0. neighborRelations[i] \in Relations
      BY DEF ViewInv
    <2>1. neighborRelations[i].left \in Sides /\ neighborRelations[i].right \in Sides
      BY <2>0 DEF Relations
    <2>2. /\ neighborRelations[i].left[1] \in Endpoints \cup {NoNeighbor}
          /\ neighborRelations[i].right[1] \in Endpoints \cup {NoNeighbor}
      BY DEF IsLinear
    <2>3. ASSUME NEW side \in Sides, side[2] = "Online"
          PROVE  side[1] # NoNeighbor
      BY <2>3, ViewAssumption DEF Sides
    <2>4. ASSUME neighborRelations[i].left[2] = "Online"
          PROVE  /\ neighborRelations[i].left[1] \in Endpoints
                 /\ NeighborOf(neighborRelations[i].node, "Left") = neighborRelations[i].left[1]
      <3>1. neighborRelations[i].left[1] \in Endpoints
        BY <2>1, <2>2, <2>3, <2>4
      <3> QED
        BY <2>4, <3>1, NeighborIs
    <2>5. ASSUME neighborRelations[i].right[2] = "Online"
          PROVE  /\ neighborRelations[i].right[1] \in Endpoints
                 /\ NeighborOf(neighborRelations[i].node, "Right") = neighborRelations[i].right[1]
      <3>1. neighborRelations[i].right[1] \in Endpoints
        BY <2>1, <2>2, <2>3, <2>5
      <3> QED
        BY <2>5, <3>1, NeighborIs
    <2> QED
      BY <2>4, <2>5
  <1> QED
    BY <1>1, <1>2, <1>3, PTL DEF ViewSpec

-----------------------------------------------------------------------------
(* ScreenGeometry.                                                         *)

(* A set of natural numbers that is not empty has a least one.             *)
LEMMA LeastNat ==
    ASSUME NEW N \in SUBSET Nat, N # {}
    PROVE  \E m \in N : \A k \in N : m <= k
  <1>1. PICK m \in N : \A k \in N : <<k, m>> \notin OpToRel(<, Nat)
    BY WFMin, NatLessThanWellFounded, Zenon
  <1>2. \A k \in N : ~(k < m)
    BY <1>1, Zenon DEF OpToRel
  <1> QED
    BY <1>2

(* Finitely many integers have a least one.                                *)
LEMMA LeastOfMany ==
    ASSUME NEW n \in Nat \ {0}, NEW f \in [1 .. n -> Int]
    PROVE  \E i \in 1 .. n : \A j \in 1 .. n : f[i] <= f[j]
  <1> DEFINE bad == {k \in 1 .. n : ~\E i \in 1 .. k : \A j \in 1 .. k : f[i] <= f[j]}
  <1>1. bad = {}
    <2>1. SUFFICES ASSUME bad # {} PROVE FALSE
      OBVIOUS
    <2>2. bad \in SUBSET Nat
      OBVIOUS
    <2> HIDE DEF bad
    <2>3. PICK m \in bad : \A k \in bad : m <= k
      BY <2>1, <2>2, LeastNat
    <2>4. m \in 1 .. n /\ ~\E i \in 1 .. m : \A j \in 1 .. m : f[i] <= f[j]
      BY <2>3 DEF bad
    <2>5. m # 1
      <3>1. ASSUME m = 1 PROVE 1 \in 1 .. m /\ \A j \in 1 .. m : f[1] <= f[j]
        <4>1. \A j \in 1 .. 1 : j = 1
          OBVIOUS
        <4> QED
          BY <3>1, <4>1
      <3> QED
        BY <2>4, <3>1
    <2>6. m - 1 \in 1 .. n /\ m - 1 \notin bad
      BY <2>3, <2>4, <2>5
    <2>7. PICK i \in 1 .. m - 1 : \A j \in 1 .. m - 1 : f[i] <= f[j]
      BY <2>6 DEF bad
    <2>8. CASE f[i] <= f[m]
      <3>1. i \in 1 .. m /\ \A j \in 1 .. m : f[i] <= f[j]
        BY <2>4, <2>7, <2>8
      <3> QED
        BY <2>4, <3>1
    <2>9. CASE ~(f[i] <= f[m])
      <3>1. m \in 1 .. m /\ \A j \in 1 .. m : f[m] <= f[j]
        BY <2>4, <2>7, <2>9
      <3> QED
        BY <2>4, <3>1
    <2> QED
      BY <2>8, <2>9
  <1>2. n \in 1 .. n
    OBVIOUS
  <1> QED
    BY <1>1, <1>2

(* So the least and the greatest of them are what their names say.         *)
LEMMA MinMaxOfMany ==
    ASSUME NEW n \in Nat \ {0}, NEW f \in [1 .. n -> Int],
           NEW S, S = {f[i] : i \in 1 .. n}
    PROVE  /\ Min(S) \in S /\ Min(S) \in Int /\ \A v \in S : Min(S) <= v
           /\ Max(S) \in S /\ Max(S) \in Int /\ \A v \in S : v <= Max(S)
  <1>0. PICK k \in 1 .. n : \A j \in 1 .. n : f[k] <= f[j]
    BY LeastOfMany
  <1>1. f[k] \in S /\ \A u \in S : f[k] <= u
    BY <1>0
  <1> DEFINE g == [i \in 1 .. n |-> -f[i]]
  <1>2. g \in [1 .. n -> Int]
    OBVIOUS
  <1>3. PICK i \in 1 .. n : \A j \in 1 .. n : g[i] <= g[j]
    BY <1>2, LeastOfMany
  <1>4. f[i] \in S /\ \A u \in S : f[i] >= u
    <2>1. ASSUME NEW j \in 1 .. n PROVE f[i] >= f[j]
      BY <1>3
    <2> QED
      BY <2>1
  <1>5. S \subseteq Int
    OBVIOUS
  <1>6. Min(S) \in S /\ \A v \in S : Min(S) <= v
    BY <1>1 DEF Min
  <1>7. Max(S) \in S /\ \A v \in S : Max(S) >= v
    BY <1>4 DEF Max
  <1> QED
    BY <1>5, <1>6, <1>7

(* What a query has read is what is there, unless a change since is        *)
(* pending or went unreported.                                             *)
ScreenInv ==
    /\ displays \in Layouts
    /\ queryPc \in {"idle", "read", "publish"}
    /\ (queryPc = "publish" /\ ~pending /\ ~missed /\ seen # <<>>) => seen = displays
    /\ SnapshotFresh

(* Every step of the listener, the query or the displays keeps it.         *)
LEMMA ScreenStep ==
    ASSUME ScreenInv, ScreenNext
    PROVE  ScreenInv'
  <1> USE DEF ScreenInv
  <1>1. ASSUME NEW ds \in Layouts, Reconfigure(ds)
        PROVE  ScreenInv'
    <2>1. pending' \/ missed'
      BY <1>1 DEF Reconfigure
    <2> QED
      BY <1>1, <2>1 DEF Reconfigure, SnapshotFresh
  <1>2. CASE RegisterCallback \/ UnregisterCallback
    BY <1>2 DEF RegisterCallback, UnregisterCallback, SnapshotFresh
  <1>3. ASSUME NEW p \in {"Unsupported", "BoundingBox"}, SetPolicy(p)
        PROVE  ScreenInv'
    BY <1>3 DEF SetPolicy, SnapshotFresh
  <1>4. CASE PrimaryBoundary \/ ConsumeReconfigPending
    BY <1>4 DEF PrimaryBoundary, ConsumeReconfigPending, SnapshotFresh
  <1>5. CASE QueryAllDisplaysNativeGeometry
    BY <1>5 DEF QueryAllDisplaysNativeGeometry, SnapshotFresh
  <1>6. CASE Publish
    <2> DEFINE ok == /\ seen # <<>> /\ (Len(seen) > 1 => policy = "BoundingBox")
                     /\ IsValid(BoundaryOf(seen))
    <2>1. /\ queryPc = "publish" /\ queryPc' = "idle" /\ refused' = ~ok
          /\ boundary' = (IF ok THEN BoundaryOf(seen) ELSE boundary)
          /\ UNCHANGED <<displays, pending, missed>>
      BY <1>6 DEF Publish
    <2>2. ok => seen # <<>>
      OBVIOUS
    <2> HIDE DEF ok
    <2>3. ASSUME ~pending, ~missed, ok PROVE boundary' = BoundaryOf(displays)
      BY <2>1, <2>2, <2>3
    <2>4. BoundaryOf(displays)' = BoundaryOf(displays)
      BY <2>1 DEF BoundaryOf, ToScreenBoundary, ToScreenBoundaryMerged, ComputeBoundingBox
    <2>5. SnapshotFresh'
      BY <2>1, <2>3, <2>4 DEF SnapshotFresh
    <2> QED
      BY <2>1, <2>5
  <1> QED
    BY <1>1, <1>2, <1>3, <1>4, <1>5, <1>6 DEF ScreenNext

(* The invariant of every behaviour.                                       *)
LEMMA ScreenInvariant == ScreenSpec => []ScreenInv
  <1>1. ScreenInit => ScreenInv
    BY DEF ScreenInit, ScreenInv, SnapshotFresh
  <1>2. ScreenInv /\ [ScreenNext]_screenVars => ScreenInv'
    <2> SUFFICES ASSUME ScreenInv, UNCHANGED screenVars PROVE ScreenInv'
      BY ScreenStep
    <2> QED
      BY DEF screenVars, ScreenInv, SnapshotFresh
  <1> QED
    BY <1>1, <1>2, PTL DEF ScreenSpec

(* A change of the displays, even in the middle of a query, leaves a stale *)
(* snapshot only while something says so.                                  *)
THEOREM SnapshotFreshHolds == ScreenSpec => []SnapshotFresh
  <1>1. ScreenInv => SnapshotFresh
    BY DEF ScreenInv
  <1> QED
    BY <1>1, ScreenInvariant, PTL

(* A value that fits is not changed by the cast.                           *)
LEMMA CastKeeps ==
    ASSUME NEW v \in -CoordLimit .. CoordLimit - 1
    PROVE  AsInt32(v) = v
  BY DEF AsInt32

(* EdgeDetector on a point level with the displays, all of which fit.      *)
LEMMA DetectIs ==
    ASSUME NEW w \in Nat \ {0}, NEW h \in Nat \ {0}, NEW x \in Int, NEW y \in 0 .. h,
           w < CoordLimit, h < CoordLimit
    PROVE  Detect([x |-> x, y |-> y], [width |-> w, height |-> h]) =
              IF x < 0 THEN <<"Left", -x, y>> ELSE IF x > w THEN <<"Right", x - w, y>> ELSE <<>>
  <1>1. AsInt32(w) = w /\ AsInt32(h) = h
    BY LayoutsAssumption, CastKeeps
  <1>2. CASE x < 0
    BY <1>1, <1>2 DEF Detect, IsValid
  <1>3. CASE x > w
    BY <1>1, <1>3 DEF Detect, IsValid
  <1>4. CASE x \in 0 .. w
    BY <1>1, <1>4 DEF Detect, IsValid
  <1> QED
    BY <1>2, <1>3, <1>4

(* The box around displays has integer sides; that of one display is it.   *)
LEMMA BoxIs ==
    ASSUME NEW ds \in Layouts, NEW b, b = ComputeBoundingBox(ds)
    PROVE  /\ b.left \in Int /\ b.right \in Int /\ b.top \in Int /\ b.bottom \in Int
           /\ Len(ds) = 1 => /\ ds[1] \in Displays
                             /\ b.left = ds[1].x /\ b.right = ds[1].x + ds[1].w
                             /\ b.top = ds[1].y /\ b.bottom = ds[1].y + ds[1].h
  <1> DEFINE n == Len(ds)
             xs == [i \in 1 .. n |-> ds[i].x]
             ys == [i \in 1 .. n |-> ds[i].y]
             rs == [i \in 1 .. n |-> ds[i].x + ds[i].w]
             bs == [i \in 1 .. n |-> ds[i].y + ds[i].h]
  <1>1. ds \in Seq(Displays) /\ ds # <<>>
    BY LayoutsAssumption
  <1>2. n \in Nat \ {0} /\ DOMAIN ds = 1 .. n
    BY <1>1
  <1>3. \A i \in 1 .. n : ds[i] \in Displays
    BY <1>1, <1>2
  <1>4. \A i \in 1 .. n : ds[i].x \in Int /\ ds[i].y \in Int /\ ds[i].w \in Nat /\ ds[i].h \in Nat
    BY <1>3 DEF Displays
  <1>5. /\ xs \in [1 .. n -> Int] /\ ys \in [1 .. n -> Int]
        /\ rs \in [1 .. n -> Int] /\ bs \in [1 .. n -> Int]
    BY <1>4
  <1>6. /\ {ds[i].x : i \in DOMAIN ds} = {xs[i] : i \in 1 .. n}
        /\ {ds[i].y : i \in DOMAIN ds} = {ys[i] : i \in 1 .. n}
        /\ {ds[i].x + ds[i].w : i \in DOMAIN ds} = {rs[i] : i \in 1 .. n}
        /\ {ds[i].y + ds[i].h : i \in DOMAIN ds} = {bs[i] : i \in 1 .. n}
    BY <1>2
  <1>7. /\ b.left = Min({xs[i] : i \in 1 .. n}) /\ b.top = Min({ys[i] : i \in 1 .. n})
        /\ b.right = Max({rs[i] : i \in 1 .. n}) /\ b.bottom = Max({bs[i] : i \in 1 .. n})
    BY <1>6 DEF ComputeBoundingBox
  <1>8. ASSUME n = 1
        PROVE  /\ {xs[i] : i \in 1 .. n} = {ds[1].x} /\ {ys[i] : i \in 1 .. n} = {ds[1].y}
               /\ {rs[i] : i \in 1 .. n} = {ds[1].x + ds[1].w}
               /\ {bs[i] : i \in 1 .. n} = {ds[1].y + ds[1].h}
    <2>1. \A i : i \in 1 .. n <=> i = 1
      BY <1>8
    <2> QED
      BY <2>1
  <1> HIDE DEF xs, ys, rs, bs, n
  <1>9. /\ b.left \in {xs[i] : i \in 1 .. n} /\ b.left \in Int
        /\ b.top \in {ys[i] : i \in 1 .. n} /\ b.top \in Int
        /\ b.right \in {rs[i] : i \in 1 .. n} /\ b.right \in Int
        /\ b.bottom \in {bs[i] : i \in 1 .. n} /\ b.bottom \in Int
    <2> DEFINE X == {xs[i] : i \in 1 .. n}
               Y == {ys[i] : i \in 1 .. n}
               R == {rs[i] : i \in 1 .. n}
               B == {bs[i] : i \in 1 .. n}
    <2>1. n \in Nat \ {0}
      BY <1>2
    <2>2. Min(X) \in X /\ Min(X) \in Int
      BY <1>5, <2>1, MinMaxOfMany
    <2>3. Min(Y) \in Y /\ Min(Y) \in Int
      BY <1>5, <2>1, MinMaxOfMany
    <2>4. Max(R) \in R /\ Max(R) \in Int
      BY <1>5, <2>1, MinMaxOfMany
    <2>5. Max(B) \in B /\ Max(B) \in Int
      BY <1>5, <2>1, MinMaxOfMany
    <2> QED
      BY <1>7, <2>2, <2>3, <2>4, <2>5, Zenon
  <1>10. n = 1 => ds[1] \in Displays
    BY <1>3
  <1> QED
    BY <1>8, <1>9, <1>10 DEF n

(* For displays anywhere around the origin, in either coordinate system,   *)
(* a cursor beside them is at its true distance from an edge and in its    *)
(* true row, and one on them is at none, as far as the casts reach.        *)
THEOREM EdgesExactHolds == ScreenSpec => []EdgesExact
  <1>1. ScreenInv => EdgesExact
    <2> SUFFICES ASSUME ScreenInv PROVE EdgesExact
      OBVIOUS
    <2> DEFINE ds == displays
               b == ComputeBoundingBox(ds)
               w == b.right - b.left
               h == b.bottom - b.top
    <2>1. ds \in Layouts
      BY DEF ScreenInv
    <2> HIDE DEF ds
    <2>2. SUFFICES ASSUME IsValid(BoundaryOf(ds)), Fits(b), NEW p \in Around(b)
                   PROVE  IF Len(ds) = 1
                          THEN \A api \in {"CGDisplay", "NSScreen"} :
                                 Detect(NormalizeSingleDisplay(p, ds[1], api), BoundaryOf(ds)) = Side(p, b, api)
                          ELSE Detect(NormalizeMultiDisplay(p, b), BoundaryOf(ds)) = Side(p, b, "CGDisplay")
      BY DEF EdgesExact, ds
    <2>3. /\ b.left \in Int /\ b.right \in Int /\ b.top \in Int /\ b.bottom \in Int
          /\ Len(ds) = 1 => /\ ds[1] \in Displays
                            /\ b.left = ds[1].x /\ b.right = ds[1].x + ds[1].w
                            /\ b.top = ds[1].y /\ b.bottom = ds[1].y + ds[1].h
      BY <2>1, BoxIs
    <2>4. BoundaryOf(ds) = [width |-> w, height |-> h]
      <3>1. CASE Len(ds) = 1
        BY <2>3, <3>1 DEF BoundaryOf, ToScreenBoundary, Displays
      <3>2. CASE Len(ds) # 1
        BY <3>2 DEF BoundaryOf, ToScreenBoundaryMerged
      <3> QED
        BY <3>1, <3>2
    <2> HIDE DEF b
    <2>5. /\ w \in Nat \ {0} /\ h \in Nat \ {0} /\ w < CoordLimit /\ h < CoordLimit
          /\ w + Reach < CoordLimit /\ Reach \in Nat /\ CoordLimit \in Nat
      BY <2>2, <2>3, <2>4, LayoutsAssumption DEF IsValid, Fits
    <2>6. /\ p.x \in Int /\ p.y \in Int /\ b.top <= p.y /\ p.y <= b.bottom
          /\ b.left - Reach <= p.x /\ p.x <= b.right + Reach
      BY <2>3, <2>5 DEF Around
    <2>7. ASSUME NEW api \in {"CGDisplay", "NSScreen"}
          PROVE  Side(p, b, api) = IF p.x - b.left < 0 THEN <<"Left", -(p.x - b.left), Row(p, b, api)>>
                              ELSE IF p.x - b.left > w THEN <<"Right", p.x - b.left - w, Row(p, b, api)>>
                              ELSE <<>>
      <3> DEFINE row == Row(p, b, api)
      <3>1. Side(p, b, api) = CASE p.x < b.left -> <<"Left", b.left - p.x, row>>
                                [] p.x > b.right -> <<"Right", p.x - b.right, row>>
                                [] OTHER -> <<>>
        BY DEF Side
      <3>2. /\ b.left <= b.right /\ b.left - p.x = -(p.x - b.left) /\ p.x - b.right = p.x - b.left - w
            /\ (p.x < b.left <=> p.x - b.left < 0) /\ (p.x > b.right <=> p.x - b.left > w)
        BY <2>3, <2>5, <2>6
      <3>3. ~(p.x < b.left /\ p.x > b.right)
        BY <2>3, <2>6, <3>2
      <3> HIDE DEF row, w
      <3> QED
        BY <3>1, <3>2, <3>3 DEF row
    <2>8. ASSUME NEW api \in {"CGDisplay", "NSScreen"}
          PROVE  Row(p, b, api) \in 0 .. h
      BY <2>3, <2>6 DEF Row
    <2>9. AsInt32(p.x - b.left) = p.x - b.left
      BY <2>3, <2>5, <2>6, CastKeeps
    <2>10. ASSUME NEW api \in {"CGDisplay", "NSScreen"}
           PROVE  AsInt32(Row(p, b, api)) = Row(p, b, api)
      BY <2>5, <2>8, CastKeeps
    <2>11. ASSUME NEW api \in {"CGDisplay", "NSScreen"}
           PROVE  Detect([x |-> p.x - b.left, y |-> Row(p, b, api)], BoundaryOf(ds)) = Side(p, b, api)
      <3> DEFINE x == p.x - b.left
                 row == Row(p, b, api)
      <3>1. x \in Int
        BY <2>3, <2>6
      <3>2. row \in 0 .. h
        BY <2>8
      <3>3. Side(p, b, api) = IF x < 0 THEN <<"Left", -x, row>> ELSE IF x > w THEN <<"Right", x - w, row>> ELSE <<>>
        BY <2>7
      <3> HIDE DEF x, row, w, h
      <3>4. Detect([x |-> x, y |-> row], [width |-> w, height |-> h]) = Side(p, b, api)
        BY <2>5, <3>1, <3>2, <3>3, DetectIs
      <3> QED
        BY <2>4, <3>4 DEF x, row
    <2>12. CASE Len(ds) = 1
      <3>1. ASSUME NEW api \in {"CGDisplay", "NSScreen"}
            PROVE  NormalizeSingleDisplay(p, ds[1], api) = [x |-> p.x - b.left, y |-> Row(p, b, api)]
        <4>1. /\ ds[1].x \in Int /\ ds[1].y \in Int /\ ds[1].h \in Nat
              /\ b.left = ds[1].x /\ b.top = ds[1].y /\ b.bottom = ds[1].y + ds[1].h
          BY <2>3, <2>12 DEF Displays
        <4>2. (IF api = "NSScreen" THEN ds[1].h + ds[1].y - p.y ELSE p.y - ds[1].y) = Row(p, b, api)
          BY <2>6, <4>1 DEF Row
        <4> QED
          BY <2>9, <2>10, <4>1, <4>2 DEF NormalizeSingleDisplay
      <3> QED
        BY <2>11, <2>12, <3>1
    <2>13. CASE Len(ds) # 1
      <3>1. Row(p, b, "CGDisplay") = p.y - b.top
        BY DEF Row
      <3>2. NormalizeMultiDisplay(p, b) = [x |-> p.x - b.left, y |-> Row(p, b, "CGDisplay")]
        BY <2>9, <2>10, <3>1 DEF NormalizeMultiDisplay
      <3> QED
        BY <2>11, <2>13, <3>2
    <2> QED
      BY <2>12, <2>13
  <1> QED
    BY <1>1, ScreenInvariant, PTL

-----------------------------------------------------------------------------
(* InputPath.                                                              *)

(* The events on the link.                                                 *)
PathEvents ==
    [kind : {"MouseMove", "MouseButtonPress", "MouseButtonRelease", "Wheel", "KeyPress", "KeyRelease"},
     control : {<<>>} \cup ({"key", "button"} \X Nat),
     source : {"controller", "stranger"}]

(* What the controls of the source are at the target.                      *)
Becomes(c) ==
    IF c[1] = "button" THEN {<<"button", mapMouseButton(c[2])>>}
    ELSE IF c[2] < 128 THEN {c} ELSE {}
Meant(S) == UNION {Becomes(c) : c \in S}

(* Only the controller's events count: a stranger's are refused.           *)
Presses(e, x) == e.source = "controller" /\ e.kind \in {"MouseButtonPress", "KeyPress"} /\ e.control = x
Releases(e, x) == e.source = "controller" /\ e.kind \in {"MouseButtonRelease", "KeyRelease"} /\ e.control = x

(* With the events s to come and the controls D down, x will be up.        *)
WillBeUp(s, D, x) ==
    \/ \E i \in 1 .. Len(s) : Releases(s[i], x) /\ \A j \in i + 1 .. Len(s) : ~Presses(s[j], x)
    \/ x \notin D /\ \A j \in 1 .. Len(s) : ~Presses(s[j], x)

(* A control nobody holds is up once the link has delivered what it has.   *)
PathInv ==
    /\ pipe \in Seq(PathEvents)
    /\ held \subseteq Controls
    /\ ~faulty => \A x : x \notin Meant(held) => WillBeUp(pipe, down, x)

(* A sequence with one more event.                                         *)
LEMMA OneMore ==
    ASSUME NEW s \in Seq(PathEvents), NEW e \in PathEvents
    PROVE  /\ s \o <<e>> \in Seq(PathEvents) /\ Len(s \o <<e>>) = Len(s) + 1
           /\ \A i \in 1 .. Len(s) : (s \o <<e>>)[i] = s[i]
           /\ (s \o <<e>>)[Len(s) + 1] = e
  OBVIOUS

(* An event that does not press a control leaves its fate as it is.        *)
LEMMA UpAfterOther ==
    ASSUME NEW s \in Seq(PathEvents), NEW e \in PathEvents, NEW D, NEW x,
           WillBeUp(s, D, x), ~Presses(e, x)
    PROVE  WillBeUp(s \o <<e>>, D, x)
  <1> DEFINE t == s \o <<e>>
             n == Len(s)
  <1>1. n \in Nat /\ Len(t) = n + 1 /\ (\A i \in 1 .. n : t[i] = s[i]) /\ t[n + 1] = e
    BY OneMore
  <1> HIDE DEF t, n
  <1>2. ASSUME NEW j \in 1 .. n + 1, j \notin 1 .. n
        PROVE  t[j] = e
    <2>1. j = n + 1
      BY <1>1, <1>2
    <2> QED
      BY <1>1, <2>1
  <1>3. CASE x \notin D /\ \A j \in 1 .. Len(s) : ~Presses(s[j], x)
    <2>1. ASSUME NEW j \in 1 .. n + 1 PROVE ~Presses(t[j], x)
      BY <1>1, <1>2, <1>3 DEF n
    <2> QED
      BY <1>1, <1>3, <2>1 DEF WillBeUp, t
  <1>4. ASSUME NEW i \in 1 .. n, Releases(s[i], x), \A j \in i + 1 .. n : ~Presses(s[j], x)
        PROVE  WillBeUp(t, D, x)
    <2>1. i \in 1 .. n + 1 /\ Releases(t[i], x)
      BY <1>1, <1>4
    <2>2. ASSUME NEW j \in i + 1 .. n + 1 PROVE ~Presses(t[j], x)
      <3>1. j \in 1 .. n + 1
        BY <1>1, <1>4
      <3>2. j \in 1 .. n => j \in i + 1 .. n
        BY <1>1, <1>4
      <3> QED
        BY <1>1, <1>2, <1>4, <3>1, <3>2
    <2> QED
      BY <1>1, <2>1, <2>2 DEF WillBeUp
  <1> QED
    BY <1>3, <1>4 DEF WillBeUp, t, n

(* After its release a control will be up, whatever came before.           *)
LEMMA UpAfterRelease ==
    ASSUME NEW s \in Seq(PathEvents), NEW e \in PathEvents, NEW D, NEW x, Releases(e, x)
    PROVE  WillBeUp(s \o <<e>>, D, x)
  <1> DEFINE t == s \o <<e>>
             n == Len(s)
  <1>1. n \in Nat /\ Len(t) = n + 1 /\ t[n + 1] = e
    BY OneMore
  <1> HIDE DEF t, n
  <1>2. n + 1 \in 1 .. Len(t) /\ \A j \in n + 1 + 1 .. Len(t) : FALSE
    BY <1>1
  <1> QED
    BY <1>1, <1>2 DEF WillBeUp, t

(* Taking an event off the link and applying it.                           *)
LEMMA UpAfterFirst ==
    ASSUME NEW s \in Seq(PathEvents), s # <<>>, NEW D, NEW E, NEW x, WillBeUp(s, D, x),
           Releases(s[1], x) => x \notin E,
           (x \notin D /\ ~Presses(s[1], x)) => x \notin E
    PROVE  WillBeUp(Tail(s), E, x)
  <1> DEFINE t == Tail(s)
             n == Len(t)
  <1>1. n \in Nat /\ Len(s) = n + 1 /\ \A i \in 1 .. n : t[i] = s[i + 1]
    OBVIOUS
  <1> HIDE DEF t, n
  <1>2. CASE x \notin D /\ \A j \in 1 .. Len(s) : ~Presses(s[j], x)
    <2>1. 1 \in 1 .. Len(s) /\ \A j \in 1 .. n : j + 1 \in 1 .. Len(s)
      BY <1>1
    <2>2. \A j \in 1 .. n : ~Presses(t[j], x)
      BY <1>1, <1>2, <2>1
    <2> QED
      BY <1>2, <2>1, <2>2 DEF WillBeUp, t, n
  <1>3. ASSUME NEW i \in 1 .. Len(s), Releases(s[i], x), \A j \in i + 1 .. Len(s) : ~Presses(s[j], x)
        PROVE  WillBeUp(t, E, x)
    <2>1. CASE i = 1
      <3>1. \A j \in 1 .. n : j + 1 \in i + 1 .. Len(s)
        BY <1>1, <2>1
      <3>2. \A j \in 1 .. n : ~Presses(t[j], x)
        BY <1>1, <1>3, <3>1
      <3> QED
        BY <1>3, <2>1, <3>2 DEF WillBeUp, n
    <2>2. CASE i # 1
      <3>1. i - 1 \in 1 .. n /\ i - 1 + 1 = i
        BY <1>1, <2>2
      <3>2. Releases(t[i - 1], x)
        BY <1>1, <1>3, <3>1
      <3>3. ASSUME NEW j \in i - 1 + 1 .. n PROVE ~Presses(t[j], x)
        <4>1. j \in 1 .. n /\ j + 1 \in i + 1 .. Len(s)
          BY <1>1, <3>1
        <4> QED
          BY <1>1, <1>3, <4>1
      <3> QED
        BY <3>1, <3>2, <3>3 DEF WillBeUp, n
    <2> QED
      BY <2>1, <2>2
  <1> QED
    BY <1>2, <1>3 DEF WillBeUp, t

(* What extract makes of a control that goes down or up.                   *)
LEMMA ExtractIs ==
    ASSUME NEW c \in Controls, NEW press \in BOOLEAN, NEW type,
           type = IF press THEN (IF c[1] = "key" THEN "KeyDown" ELSE "MouseDown")
                  ELSE (IF c[1] = "key" THEN "KeyUp" ELSE "MouseUp")
    PROVE  \/ extract(type, c) = <<>> /\ Becomes(c) = {}
           \/ \E e \in PathEvents :
                 /\ extract(type, c) = <<e>> /\ Becomes(c) = {e.control} /\ e.source = "controller"
                 /\ press <=> e.kind \in {"MouseButtonPress", "KeyPress"}
                 /\ ~press <=> e.kind \in {"MouseButtonRelease", "KeyRelease"}
  <1>0. \/ \E k \in KeyCodes : c = <<"key", k>>
        \/ \E k \in ButtonNumbers : c = <<"button", k>>
    <2>1. c \in {"key"} \X KeyCodes \/ c \in {"button"} \X ButtonNumbers
      BY DEF Controls
    <2>2. CASE c \in {"key"} \X KeyCodes
      BY <2>2
    <2>3. CASE c \in {"button"} \X ButtonNumbers
      BY <2>3
    <2> QED
      BY <2>1, <2>2, <2>3
  <1>1. ASSUME NEW k \in KeyCodes, c = <<"key", k>>
        PROVE  \/ extract(type, c) = <<>> /\ Becomes(c) = {}
               \/ \E e \in PathEvents :
                     /\ extract(type, c) = <<e>> /\ Becomes(c) = {e.control} /\ e.source = "controller"
                     /\ press <=> e.kind \in {"MouseButtonPress", "KeyPress"}
                     /\ ~press <=> e.kind \in {"MouseButtonRelease", "KeyRelease"}
    <2>0. k \in Nat
      BY InputAssumption
    <2>1. c[1] = "key" /\ c[2] = k /\ k \in Nat /\ c \in {"key", "button"} \X Nat
      BY <1>1, <2>0
    <2> DEFINE kind == IF press THEN "KeyPress" ELSE "KeyRelease"
               e == Event(kind, c, "controller")
    <2>2. type = (IF press THEN "KeyDown" ELSE "KeyUp") /\ type \in DOMAIN mapEventType
      BY <2>1 DEF mapEventType
    <2>3. mapEventType[type] = kind
      BY <2>2 DEF mapEventType
    <2>4. extract(type, c) = IF mapKeyCode(c[2]) = <<>> THEN <<>> ELSE <<e>>
      BY <2>2, <2>3 DEF extract
    <2>5. CASE c[2] < 128
      <3>1. mapKeyCode(c[2]) # <<>>
        BY <2>5 DEF mapKeyCode
      <3>2. Becomes(c) = {c}
        BY <2>1, <2>5 DEF Becomes
      <3>3. e.control = c /\ e.source = "controller" /\ e.kind = kind
        BY DEF Event
      <3>4. kind \in {"KeyPress", "KeyRelease"} /\ c \in {<<>>} \cup ({"key", "button"} \X Nat)
        BY <2>1
      <3> HIDE DEF kind
      <3>5. e \in PathEvents
        BY <3>4 DEF PathEvents, Event
      <3> QED
        BY <2>4, <3>1, <3>2, <3>3, <3>5 DEF kind
    <2>6. CASE ~(c[2] < 128)
      BY <2>1, <2>4, <2>6 DEF mapKeyCode, Becomes
    <2> QED
      BY <2>5, <2>6
  <1>2. ASSUME NEW k \in ButtonNumbers, c = <<"button", k>>
        PROVE  \E e \in PathEvents :
                  /\ extract(type, c) = <<e>> /\ Becomes(c) = {e.control} /\ e.source = "controller"
                  /\ press <=> e.kind \in {"MouseButtonPress", "KeyPress"}
                  /\ ~press <=> e.kind \in {"MouseButtonRelease", "KeyRelease"}
    <2>0. k \in Nat
      BY InputAssumption
    <2>1. c[1] = "button" /\ c[2] = k /\ k \in Nat
      BY <1>2, <2>0
    <2> DEFINE kind == IF press THEN "MouseButtonPress" ELSE "MouseButtonRelease"
               x == <<"button", mapMouseButton(c[2])>>
               e == Event(kind, x, "controller")
    <2>2. type = (IF press THEN "MouseDown" ELSE "MouseUp") /\ type \in DOMAIN mapEventType
      BY <2>1 DEF mapEventType
    <2>3. mapEventType[type] = kind
      BY <2>2 DEF mapEventType
    <2>4. extract(type, c) = <<e>>
      BY <2>2, <2>3 DEF extract
    <2>5. mapMouseButton(c[2]) \in Nat
      BY <2>1 DEF mapMouseButton
    <2>6. e \in PathEvents /\ e.control = x /\ e.source = "controller" /\ e.kind = kind
      BY <2>5 DEF PathEvents, Event
    <2>7. Becomes(c) = {x}
      BY <2>1 DEF Becomes
    <2> QED
      BY <2>4, <2>6, <2>7
  <1> QED
    BY <1>0, <1>1, <1>2

(* And of a move or a turn of the wheel: nothing that presses.             *)
LEMMA ExtractMoveIs ==
    ASSUME NEW type \in {"MouseMoved", "MouseDragged", "ScrollWheel", "FlagsChanged"}
    PROVE  \/ extract(type, <<>>) = <<>>
           \/ \E e \in PathEvents : extract(type, <<>>) = <<e>> /\ \A x : ~Presses(e, x)
  <1>1. CASE type \notin DOMAIN mapEventType
    BY <1>1 DEF extract
  <1>2. CASE type \in DOMAIN mapEventType
    <2> DEFINE e == Event(mapEventType[type], <<>>, "controller")
    <2>1. type \in {"MouseMoved", "ScrollWheel"}
      BY <1>2 DEF mapEventType
    <2>2. mapEventType[type] \in {"MouseMove", "Wheel"}
      BY <2>1 DEF mapEventType
    <2>3. extract(type, <<>>) = <<e>>
      BY <1>2, <2>1 DEF extract
    <2>4. e \in PathEvents /\ \A x : ~Presses(e, x)
      BY <2>2 DEF PathEvents, Event, Presses
    <2> QED
      BY <2>3, <2>4
  <1> QED
    BY <1>1, <1>2

(* Sending what was extracted keeps the invariant if every control that is *)
(* newly meant to be up is released by it, and none of them is pressed.    *)
LEMMA NormalizeKeeps ==
    ASSUME PathInv, NEW events, normalize(events), held' \subseteq Controls,
           \/ events = <<>> /\ \A x : x \notin Meant(held') => x \notin Meant(held)
           \/ \E e \in PathEvents :
                 /\ events = <<e>>
                 /\ \A x : x \notin Meant(held') =>
                       Releases(e, x) \/ (x \notin Meant(held) /\ ~Presses(e, x))
    PROVE  PathInv'
  <1>1. UNCHANGED down
    BY DEF normalize
  <1>2. CASE events = <<>> /\ \A x : x \notin Meant(held') => x \notin Meant(held)
    <2>1. pipe \o events = pipe
      BY <1>2 DEF PathInv
    <2>2. pipe' = pipe /\ (~faulty' => ~faulty)
      BY <2>1 DEF normalize
    <2> QED
      BY <1>1, <1>2, <2>2 DEF PathInv, WillBeUp
  <1>3. ASSUME NEW e \in PathEvents, events = <<e>>,
               \A x : x \notin Meant(held') => Releases(e, x) \/ (x \notin Meant(held) /\ ~Presses(e, x))
        PROVE  PathInv'
    <2>1. CASE pipe' = pipe /\ faulty'
      BY <1>1, <2>1 DEF PathInv
    <2>2. CASE pipe' = pipe \o <<e>> /\ faulty' = faulty
      <3>1. pipe' \in Seq(PathEvents)
        BY <2>2, OneMore DEF PathInv
      <3>2. ASSUME ~faulty', NEW x, x \notin Meant(held')
            PROVE  WillBeUp(pipe', down', x)
        <4>1. WillBeUp(pipe \o <<e>>, down, x)
          <5>1. CASE Releases(e, x)
            BY <5>1, UpAfterRelease DEF PathInv
          <5>2. CASE x \notin Meant(held) /\ ~Presses(e, x)
            <6>1. WillBeUp(pipe, down, x)
              BY <2>2, <3>2, <5>2 DEF PathInv
            <6> QED
              BY <5>2, <6>1, UpAfterOther DEF PathInv
          <5> QED
            BY <1>3, <3>2, <5>1, <5>2
        <4> QED
          BY <1>1, <2>2, <4>1
      <3>3. (Meant(held))' = Meant(held')
        BY DEF Meant, Becomes, mapMouseButton
      <3>4. \A x : (WillBeUp(pipe, down, x))' <=> WillBeUp(pipe', down', x)
        BY DEF WillBeUp, Presses, Releases
      <3> QED
        BY <3>1, <3>2, <3>3, <3>4 DEF PathInv
    <2> QED
      BY <1>3, <2>1, <2>2 DEF normalize
  <1> QED
    BY <1>2, <1>3

(* The controls meant, when one more or one less is held.                  *)
LEMMA MeantIs ==
    ASSUME NEW S, NEW c
    PROVE  /\ \A x : x \notin Meant(S \cup {c}) <=> x \notin Meant(S) /\ x \notin Becomes(c)
           /\ \A x : x \notin Meant(S \ {c}) /\ x \notin Becomes(c) => x \notin Meant(S)
  BY DEF Meant

(* Taking an event off the link, injected or not, keeps it.                *)
LEMMA FinishKeeps ==
    ASSUME PathInv, pipe # <<>>, NEW ok \in BOOLEAN, ok => Head(pipe).source = "controller",
           Finish(Head(pipe), ok)
    PROVE  PathInv'
  <1> DEFINE e == Head(pipe)
  <1>1. e \in PathEvents /\ e = pipe[1] /\ Tail(pipe) \in Seq(PathEvents)
    BY DEF PathInv
  <1>2. /\ pipe' = Tail(pipe) /\ held' = held
        /\ down' = (IF ok THEN Applied(e) ELSE down)
        /\ faulty' = (faulty \/ (~ok /\ e.source = "controller"))
    BY DEF Finish
  <1> HIDE DEF e
  <1>3. ASSUME ~faulty', NEW x, x \notin Meant(held)
        PROVE  WillBeUp(pipe', down', x)
    <2>1. ~faulty /\ (ok \/ e.source # "controller")
      BY <1>2, <1>3
    <2>2. WillBeUp(pipe, down, x)
      BY <1>3, <2>1 DEF PathInv
    <2>3. e.kind \in {"MouseMove", "MouseButtonPress", "MouseButtonRelease", "Wheel", "KeyPress", "KeyRelease"}
      BY <1>1 DEF PathEvents
    <2>4. ok => e.source = "controller"
      BY DEF e
    <2>5. Releases(e, x) => x \notin down'
      BY <1>2, <2>1, <2>3 DEF Releases, Applied, InjectMouseButtonEvent, InjectKeyEvent
    <2>6. x \notin down /\ ~Presses(e, x) => x \notin down'
      BY <1>2, <2>3, <2>4 DEF Presses, Applied, InjectMouseButtonEvent, InjectKeyEvent
    <2>7. WillBeUp(Tail(pipe), down', x)
      BY <1>1, <2>2, <2>5, <2>6, UpAfterFirst DEF PathInv
    <2> QED
      BY <1>2, <2>7
  <1>4. (Meant(held))' = Meant(held)
    BY <1>2 DEF Meant, Becomes, mapMouseButton
  <1>5. \A x : (WillBeUp(pipe, down, x))' <=> WillBeUp(pipe', down', x)
    BY DEF WillBeUp, Presses, Releases
  <1> QED
    BY <1>1, <1>2, <1>3, <1>4, <1>5 DEF PathInv

(* Every step of the source, the link and the target keeps the invariant.  *)
LEMMA PathStep ==
    ASSUME PathInv, PathNext
    PROVE  PathInv'
  <1>1. ASSUME NEW c \in Controls, PressControl(c)
        PROVE  PathInv'
    <2> DEFINE type == IF c[1] = "key" THEN "KeyDown" ELSE "MouseDown"
    <2>1. held' = held \cup {c} /\ normalize(extract(type, c))
      BY <1>1 DEF PressControl
    <2>2. held' \subseteq Controls
      BY <2>1 DEF PathInv
    <2>3. \A x : x \notin Meant(held') => x \notin Meant(held) /\ x \notin Becomes(c)
      BY <2>1, MeantIs
    <2>4. \/ extract(type, c) = <<>>
          \/ \E e \in PathEvents : extract(type, c) = <<e>> /\ Becomes(c) = {e.control}
      BY ExtractIs
    <2>5. CASE extract(type, c) = <<>>
      BY <2>1, <2>2, <2>3, <2>5, NormalizeKeeps
    <2>6. ASSUME NEW e \in PathEvents, extract(type, c) = <<e>>, Becomes(c) = {e.control}
          PROVE  PathInv'
      <3>1. \A x : x \notin Meant(held') => x \notin Meant(held) /\ ~Presses(e, x)
        BY <2>3, <2>6 DEF Presses
      <3> QED
        BY <2>1, <2>2, <2>6, <3>1, NormalizeKeeps
    <2> QED
      BY <2>4, <2>5, <2>6
  <1>2. ASSUME NEW c \in Controls, ReleaseControl(c)
        PROVE  PathInv'
    <2> DEFINE type == IF c[1] = "key" THEN "KeyUp" ELSE "MouseUp"
    <2>1. held' = held \ {c} /\ normalize(extract(type, c))
      BY <1>2 DEF ReleaseControl
    <2>2. held' \subseteq Controls
      BY <2>1 DEF PathInv
    <2>3. \A x : x \notin Meant(held') /\ x \notin Becomes(c) => x \notin Meant(held)
      BY <2>1, MeantIs
    <2>4. \/ extract(type, c) = <<>> /\ Becomes(c) = {}
          \/ \E e \in PathEvents :
                /\ extract(type, c) = <<e>> /\ Becomes(c) = {e.control} /\ e.source = "controller"
                /\ e.kind \in {"MouseButtonRelease", "KeyRelease"}
      BY ExtractIs
    <2>5. CASE extract(type, c) = <<>> /\ Becomes(c) = {}
      <3>1. \A x : x \notin Meant(held') => x \notin Meant(held)
        BY <2>3, <2>5
      <3> QED
        BY <2>1, <2>2, <2>5, <3>1, NormalizeKeeps
    <2>6. ASSUME NEW e \in PathEvents, extract(type, c) = <<e>>, Becomes(c) = {e.control},
                 e.source = "controller", e.kind \in {"MouseButtonRelease", "KeyRelease"}
          PROVE  PathInv'
      <3>1. \A x : x \notin Meant(held') => Releases(e, x) \/ (x \notin Meant(held) /\ ~Presses(e, x))
        BY <2>3, <2>6 DEF Presses, Releases
      <3> QED
        BY <2>1, <2>2, <2>6, <3>1, NormalizeKeeps
    <2> QED
      BY <2>4, <2>5, <2>6
  <1>3. ASSUME NEW type \in {"MouseMoved", "MouseDragged", "ScrollWheel", "FlagsChanged"}, MoveOrScroll(type)
        PROVE  PathInv'
    <2>1. held' = held /\ held' \subseteq Controls /\ normalize(extract(type, <<>>))
      BY <1>3 DEF MoveOrScroll, PathInv
    <2>2. CASE extract(type, <<>>) = <<>>
      BY <2>1, <2>2, NormalizeKeeps
    <2>3. ASSUME NEW e \in PathEvents, extract(type, <<>>) = <<e>>, \A x : ~Presses(e, x)
          PROVE  PathInv'
      BY <2>1, <2>3, NormalizeKeeps
    <2> QED
      BY <2>2, <2>3, ExtractMoveIs
  <1>4. ASSUME NEW code \in KeyCodes \cap 0 .. 127, StrangerSends(<<"key", code>>)
        PROVE  PathInv'
    <2> DEFINE e == Event("KeyPress", <<"key", code>>, "stranger")
    <2>1. pipe' = Append(pipe, e) /\ UNCHANGED <<held, down, faulty>>
      BY <1>4 DEF StrangerSends
    <2>2. e \in PathEvents /\ \A x : ~Presses(e, x)
      BY DEF PathEvents, Event, Presses
    <2> HIDE DEF e
    <2>3. pipe' = pipe \o <<e>>
      BY <2>1, <2>2 DEF PathInv
    <2>4. pipe' \in Seq(PathEvents)
      BY <2>1, <2>2 DEF PathInv
    <2>5. ASSUME ~faulty', NEW x, x \notin Meant(held)
          PROVE  WillBeUp(pipe', down', x)
      <3>1. WillBeUp(pipe, down, x)
        BY <2>1, <2>5 DEF PathInv
      <3>2. WillBeUp(pipe \o <<e>>, down, x)
        BY <2>2, <3>1, UpAfterOther DEF PathInv
      <3> QED
        BY <2>1, <2>3, <3>2
    <2>6. (Meant(held))' = Meant(held)
      BY <2>1 DEF Meant, Becomes, mapMouseButton
    <2>7. \A x : (WillBeUp(pipe, down, x))' <=> WillBeUp(pipe', down', x)
      BY DEF WillBeUp, Presses, Releases
    <2> QED
      BY <2>1, <2>4, <2>5, <2>6, <2>7 DEF PathInv
  <1>5. CASE LinkLoss
    BY <1>5 DEF LinkLoss, PathInv
  <1>6. CASE HandleReceivedEvent
    <2>1. PICK ok \in IF Head(pipe).source = "controller" THEN BOOLEAN ELSE {FALSE} : Finish(Head(pipe), ok)
      BY <1>6 DEF HandleReceivedEvent
    <2>2. ok \in BOOLEAN /\ (ok => Head(pipe).source = "controller") /\ pipe # <<>>
      BY <1>6, <2>1 DEF HandleReceivedEvent
    <2> QED
      BY <2>1, <2>2, FinishKeeps
  <1>7. CASE InjectOnMac
    <2>1. PICK ok \in IF ValidateOnMac(Head(pipe)) THEN BOOLEAN ELSE {FALSE} : Finish(Head(pipe), ok)
      BY <1>7 DEF InjectOnMac
    <2>2. ValidateOnMac(Head(pipe)) => Head(pipe).source = "controller"
      BY DEF ValidateOnMac
    <2>3. ok \in BOOLEAN /\ (ok => Head(pipe).source = "controller") /\ pipe # <<>>
      BY <1>7, <2>1, <2>2 DEF InjectOnMac
    <2> QED
      BY <2>1, <2>3, FinishKeeps
  <1>8. CASE SetControllerMode
    BY <1>8 DEF SetControllerMode, PathInv, Meant, WillBeUp
  <1>9. ASSUME NEW S \in SUBSET down, ReleaseAllPressed(S)
        PROVE  PathInv'
    <2>1. /\ down' \subseteq down /\ pipe' = pipe /\ held' = held
          /\ ~faulty' => ~faulty \/ (down' = {} /\ pipe = <<>>)
      BY <1>9 DEF ReleaseAllPressed
    <2>2. ASSUME ~faulty', NEW x, x \notin Meant(held)
          PROVE  WillBeUp(pipe, down', x)
      <3>1. CASE down' = {} /\ pipe = <<>>
        <4>1. x \notin down' /\ \A j \in 1 .. Len(pipe) : FALSE
          BY <3>1
        <4> QED
          BY <4>1 DEF WillBeUp
      <3>2. CASE ~faulty
        <4>1. WillBeUp(pipe, down, x)
          BY <2>2, <3>2 DEF PathInv
        <4> QED
          BY <2>1, <4>1 DEF WillBeUp
      <3> QED
        BY <2>1, <2>2, <3>1, <3>2
    <2>3. (Meant(held))' = Meant(held)
      BY <2>1 DEF Meant, Becomes, mapMouseButton
    <2>4. \A x : (WillBeUp(pipe, down, x))' <=> WillBeUp(pipe, down', x)
      BY <2>1 DEF WillBeUp, Presses, Releases
    <2> QED
      BY <2>1, <2>2, <2>3, <2>4 DEF PathInv
  <1> QED
    BY <1>1, <1>2, <1>3, <1>4, <1>5, <1>6, <1>7, <1>8, <1>9 DEF PathNext

(* However presses and releases interleave, with unknown keys and buttons  *)
(* that count as the left one: when everything is released and delivered,  *)
(* and nothing was lost or refused, nothing is down at the target.         *)
THEOREM NothingStuckHolds == PathSpec => []NothingStuck
  <1>1. PathInit => PathInv
    <2> SUFFICES ASSUME PathInit PROVE PathInv
      OBVIOUS
    <2>1. pipe = <<>> /\ down = {} /\ held = {}
      BY DEF PathInit
    <2>2. pipe \in Seq(PathEvents) /\ Len(pipe) = 0
      BY <2>1
    <2>3. \A x : WillBeUp(pipe, down, x)
      BY <2>1, <2>2 DEF WillBeUp
    <2> QED
      BY <2>1, <2>2, <2>3 DEF PathInv
  <1>2. PathInv /\ [PathNext]_pathVars => PathInv'
    <2> SUFFICES ASSUME PathInv, UNCHANGED pathVars PROVE PathInv'
      BY PathStep
    <2> QED
      BY DEF pathVars, PathInv, Meant, WillBeUp
  <1>3. PathInv => NothingStuck
    <2> SUFFICES ASSUME PathInv, held = {}, pipe = <<>>, ~faulty, NEW x \in down PROVE FALSE
      BY DEF NothingStuck
    <2>1. x \notin Meant(held)
      BY DEF Meant
    <2>2. WillBeUp(pipe, down, x)
      BY <2>1 DEF PathInv
    <2>3. \A i \in 1 .. Len(pipe) : FALSE
      OBVIOUS
    <2> QED
      BY <2>2, <2>3 DEF WillBeUp
  <1> QED
    BY <1>1, <1>2, <1>3, PTL DEF PathSpec

-----------------------------------------------------------------------------
(* Evidence.                                                               *)

(* What the collector holds.                                               *)
EvidenceRecords ==
    [type : {"Capture", "Injection", "Link"}, id : Nat, time : Nat, payload : {0} \cup {r[2] : r \in Readings}]
EvidenceInv == records \in Seq(EvidenceRecords)

(* A set of natural numbers with a bound has a greatest and a least one.   *)
LEMMA BoundedExtremes ==
    ASSUME NEW T \in SUBSET Nat, T # {}, NEW M \in Nat, \A t \in T : t <= M
    PROVE  /\ Min(T) \in T /\ \A t \in T : Min(T) <= t
           /\ Max(T) \in T /\ \A t \in T : t <= Max(T)
  <1>1. PICK m \in T : \A t \in T : m <= t
    BY LeastNat
  <1> DEFINE D == {M - t : t \in T}
  <1>2. D \in SUBSET Nat /\ D # {}
    OBVIOUS
  <1> HIDE DEF D
  <1>3. PICK d \in D : \A e \in D : d <= e
    BY <1>2, LeastNat
  <1>4. PICK g \in T : d = M - g
    BY <1>3 DEF D
  <1>5. ASSUME NEW t \in T PROVE g >= t
    <2>1. M - t \in D
      BY DEF D
    <2>2. M - g <= M - t
      BY <1>3, <1>4, <2>1
    <2>3. M \in Nat /\ g \in Nat /\ t \in Nat
      OBVIOUS
    <2> QED
      BY <2>2, <2>3
  <1>6. Min(T) \in T /\ \A t \in T : Min(T) <= t
    BY <1>1 DEF Min
  <1>7. Max(T) \in T /\ \A t \in T : Max(T) >= t
    BY <1>5 DEF Max
  <1> QED
    BY <1>6, <1>7

(* The last record of an event that has one is one of its records.         *)
LEMMA LastOfIs ==
    ASSUME EvidenceInv, NEW type, NEW e \in IdsOf(type)
    PROVE  LastOf(type, e).time \in Nat
  <1> DEFINE T == {i \in DOMAIN records : records[i].type = type /\ records[i].id = e}
  <1>1. Len(records) \in Nat /\ DOMAIN records = 1 .. Len(records)
    BY DEF EvidenceInv
  <1>2. T \in SUBSET Nat /\ \A t \in T : t <= Len(records)
    BY <1>1
  <1>3. T # {}
    BY DEF IdsOf
  <1> HIDE DEF T
  <1>4. Max(T) \in T
    BY <1>1, <1>2, <1>3, BoundedExtremes
  <1>5. LastOf(type, e) = records[Max(T)]
    BY DEF LastOf, T
  <1>6. Max(T) \in DOMAIN records
    BY <1>4 DEF T
  <1>7. records[Max(T)] \in EvidenceRecords
    BY <1>6 DEF EvidenceInv
  <1>8. records[Max(T)].time \in Nat
    BY <1>7 DEF EvidenceRecords
  <1> QED
    BY <1>5, <1>8

(* The ids of the records lie between a least and a greatest one.          *)
LEMMA IdsLie ==
    ASSUME EvidenceInv, NEW ids, ids = IdsOf("Capture") \cup IdsOf("Injection"), ids # {}
    PROVE  /\ ids \subseteq Nat
           /\ Min(ids) \in ids /\ \A e \in ids : Min(ids) <= e
           /\ Max(ids) \in ids /\ \A e \in ids : e <= Max(ids)
  <1> DEFINE n == Len(records)
             f == [i \in 1 .. n |-> records[i].id]
             all == {f[i] : i \in 1 .. n}
  <1>1. n \in Nat /\ DOMAIN records = 1 .. n
    BY DEF EvidenceInv
  <1>2. \A i \in 1 .. n : records[i] \in EvidenceRecords
    BY <1>1 DEF EvidenceInv
  <1>3. \A i \in 1 .. n : records[i].id \in Nat
    BY <1>2 DEF EvidenceRecords
  <1>4. f \in [1 .. n -> Int] /\ \A i \in 1 .. n : f[i] = records[i].id
    BY <1>3
  <1>5. \A e \in ids : \E i \in 1 .. n : e = records[i].id
    BY <1>1 DEF IdsOf
  <1> HIDE DEF n, f
  <1>6. \A e \in ids : e \in all
    BY <1>4, <1>5
  <1>7. n # 0
    <2>1. \A i \in 1 .. 0 : FALSE
      OBVIOUS
    <2> QED
      BY <1>5, <2>1
  <1>8. ids \in SUBSET Nat /\ all \subseteq Nat
    BY <1>3, <1>4, <1>5
  <1>9. Max(all) \in all /\ \A e \in all : e <= Max(all)
    BY <1>1, <1>4, <1>7, MinMaxOfMany
  <1>10. Max(all) \in Nat /\ \A e \in ids : e <= Max(all)
    BY <1>6, <1>8, <1>9
  <1> QED
    BY <1>8, <1>10, BoundedExtremes

(* Correlation passes just when each id from the smallest to the largest   *)
(* recorded one has a last capture and a last, later injection with the    *)
(* same payload, whatever was recorded and however often.                  *)
THEOREM CorrelationExactHolds == EvidenceSpec => []CorrelationExact
  <1>1. EvidenceInit => EvidenceInv
    BY DEF EvidenceInit, EvidenceInv
  <1>2. EvidenceInv /\ [EvidenceNext]_evidenceVars => EvidenceInv'
    <2> SUFFICES ASSUME EvidenceInv, [EvidenceNext]_evidenceVars PROVE EvidenceInv'
      OBVIOUS
    <2>1. ASSUME NEW record \in EvidenceRecords, AddRecord(record) PROVE EvidenceInv'
      BY <2>1 DEF EvidenceInv, AddRecord
    <2>2. ASSUME NEW e \in EventIds, NEW r \in Readings, NEW type \in {"Capture", "Injection"}, RecordEvent(type, e, r)
          PROVE  EvidenceInv'
      <3>1. e \in Nat /\ r[1] \in Nat
        BY EvidenceAssumption
      <3>2. [type |-> type, id |-> e, time |-> r[1], payload |-> r[2]] \in EvidenceRecords
        BY <3>1 DEF EvidenceRecords
      <3> QED
        BY <2>1, <2>2, <3>2 DEF RecordEvent
    <2>3. CASE RecordLink
      <3>1. [type |-> "Link", id |-> 0, time |-> 0, payload |-> 0] \in EvidenceRecords
        BY DEF EvidenceRecords
      <3> QED
        BY <2>1, <2>3, <3>1 DEF RecordLink
    <2>4. CASE ClearRecords
      BY <2>4 DEF ClearRecords, EvidenceInv
    <2>5. CASE ProbeNext \/ UNCHANGED evidenceVars
      BY <2>5 DEF ProbeNext, RecordStage, ClearLatency, evidenceVars, EvidenceInv
    <2> QED
      BY <2>2, <2>3, <2>4, <2>5 DEF EvidenceNext, CollectorNext
  <1>3. EvidenceInv => CorrelationExact
    <2> SUFFICES ASSUME EvidenceInv PROVE CorrelationExact
      OBVIOUS
    <2> DEFINE captured == IdsOf("Capture")
               injected == IdsOf("Injection")
               ids == captured \cup injected
               Good(e) == /\ LastOf("Capture", e).payload = LastOf("Injection", e).payload
                          /\ LastOf("Capture", e).time < LastOf("Injection", e).time
               gaps == IF captured = {} \/ injected = {} THEN {} ELSE (Min(ids) .. Max(ids)) \ ids
    <2>1. ASSUME NEW e \in captured \cap injected
          PROVE  Good(e) <=> /\ LastOf("Capture", e).payload = LastOf("Injection", e).payload
                             /\ ~(LastOf("Injection", e).time <= LastOf("Capture", e).time)
      <3>1. LastOf("Capture", e).time \in Nat /\ LastOf("Injection", e).time \in Nat
        BY LastOfIs
      <3> QED
        BY <3>1
    <2>2. Correlation <=> /\ captured = injected
                          /\ \A e \in captured \cap injected :
                                /\ LastOf("Capture", e).payload = LastOf("Injection", e).payload
                                /\ ~(LastOf("Injection", e).time <= LastOf("Capture", e).time)
                          /\ gaps = {}
      BY Zenon DEF Correlation
    <2>3. CorrelationExact <=>
             (Correlation <=> (ids = {} \/ \A e \in Min(ids) .. Max(ids) : e \in captured /\ e \in injected /\ Good(e)))
      BY Zenon DEF CorrelationExact
    <2> HIDE DEF captured, injected, Good
    <2>4. CASE ids = {}
      <3>1. captured = {} /\ injected = {} /\ gaps = {}
        BY <2>4
      <3> QED
        BY <2>2, <2>3, <2>4, <3>1
    <2>5. CASE ids # {}
      <3>1. /\ ids \subseteq Nat
            /\ Min(ids) \in ids /\ \A e \in ids : Min(ids) <= e
            /\ Max(ids) \in ids /\ \A e \in ids : e <= Max(ids)
        BY <2>5, IdsLie DEF captured, injected
      <3>2. ids \subseteq Min(ids) .. Max(ids)
        BY <3>1
      <3>3. ASSUME Correlation, NEW e \in Min(ids) .. Max(ids)
            PROVE  e \in captured /\ e \in injected /\ Good(e)
        <4>1. captured = injected /\ gaps = {}
          BY <2>2, <3>3
        <4>2. e \in ids
          BY <2>5, <4>1
        <4>3. e \in captured \cap injected
          BY <4>1, <4>2
        <4> QED
          BY <2>1, <2>2, <3>3, <4>3
      <3>4. ASSUME \A e \in Min(ids) .. Max(ids) : e \in captured /\ e \in injected /\ Good(e)
            PROVE  Correlation
        <4>1. \A e \in ids : e \in captured /\ e \in injected /\ Good(e)
          BY <3>2, <3>4
        <4>2. captured = injected
          BY <4>1
        <4>3. gaps = {}
          BY <3>4
        <4> QED
          BY <2>1, <2>2, <4>1, <4>2, <4>3
      <3> QED
        BY <2>3, <2>5, <3>3, <3>4
    <2> QED
      BY <2>4, <2>5
  <1> QED
    BY <1>1, <1>2, <1>3, PTL DEF EvidenceSpec

(* p is an order of the positions of f in which its values ascend.         *)
Ascending(n, f, p) ==
    p \in Bijection(1 .. n, 1 .. n) /\ \A i, j \in 1 .. n : i < j => f[p[i]] <= f[p[j]]

(* What a bijection of positions is.                                       *)
LEMMA PermutationIs ==
    ASSUME NEW n \in Nat, NEW p
    PROVE  p \in Bijection(1 .. n, 1 .. n) <=>
              /\ p \in [1 .. n -> 1 .. n]
              /\ \A a, b \in 1 .. n : p[a] = p[b] => a = b
              /\ \A c \in 1 .. n : \E a \in 1 .. n : p[a] = c
  BY DEF Bijection, Injection, Surjection, IsInjective

(* Finitely many integers have a greatest one.                             *)
LEMMA GreatestOfMany ==
    ASSUME NEW n \in Nat \ {0}, NEW f \in [1 .. n -> Int]
    PROVE  \E i \in 1 .. n : \A j \in 1 .. n : f[j] <= f[i]
  <1> DEFINE g == [i \in 1 .. n |-> -f[i]]
  <1>1. g \in [1 .. n -> Int]
    OBVIOUS
  <1>2. PICK i \in 1 .. n : \A j \in 1 .. n : g[i] <= g[j]
    BY <1>1, LeastOfMany
  <1>3. ASSUME NEW j \in 1 .. n PROVE f[j] <= f[i]
    <2>1. -f[i] <= -f[j] /\ f[i] \in Int /\ f[j] \in Int
      BY <1>2
    <2> QED
      BY <2>1
  <1> QED
    BY <1>3

(* An order of n - 1 values becomes one of n: the greatest value changes   *)
(* places with the last one, the others are ordered, it comes last.        *)
LEMMA SortOneMore ==
    ASSUME NEW n \in Nat \ {0}, NEW f \in [1 .. n -> Int],
           \A g \in [1 .. n - 1 -> Int] : \E q : Ascending(n - 1, g, q)
    PROVE  \E p : Ascending(n, f, p)
  <1>1. PICK i \in 1 .. n : \A j \in 1 .. n : f[j] <= f[i]
    BY GreatestOfMany
  <1> DEFINE r(k) == IF k = i THEN n ELSE k
             g == [k \in 1 .. n - 1 |-> f[r(k)]]
  <1>3. /\ \A k \in 1 .. n - 1 : r(k) \in 1 .. n /\ r(k) # i
        /\ \A k, l \in 1 .. n - 1 : r(k) = r(l) => k = l
        /\ \A c \in 1 .. n : c # i => \E k \in 1 .. n - 1 : r(k) = c
    <2>1. ASSUME NEW c \in 1 .. n, c # i PROVE \E k \in 1 .. n - 1 : r(k) = c
      <3>1. CASE c = n
        BY <2>1, <3>1
      <3>2. CASE c # n
        BY <2>1, <3>2
      <3> QED
        BY <3>1, <3>2
    <2> QED
      BY <2>1
  <1> HIDE DEF r
  <1>4. g \in [1 .. n - 1 -> Int] /\ \A k \in 1 .. n - 1 : g[k] = f[r(k)]
    BY <1>3
  <1> HIDE DEF g
  <1>5. PICK q : Ascending(n - 1, g, q)
    BY <1>4
  <1>6. /\ q \in [1 .. n - 1 -> 1 .. n - 1]
        /\ \A a, b \in 1 .. n - 1 : q[a] = q[b] => a = b
        /\ \A c \in 1 .. n - 1 : \E a \in 1 .. n - 1 : q[a] = c
        /\ \A a, b \in 1 .. n - 1 : a < b => g[q[a]] <= g[q[b]]
    <2>1. n - 1 \in Nat /\ q \in Bijection(1 .. n - 1, 1 .. n - 1)
      BY <1>5 DEF Ascending
    <2> QED
      BY <1>5, <2>1, PermutationIs DEF Ascending
  <1> DEFINE p == [k \in 1 .. n |-> IF k = n THEN i ELSE r(q[k])]
  <1>7. /\ p[n] = i
        /\ \A k \in 1 .. n : k # n => k \in 1 .. n - 1 /\ q[k] \in 1 .. n - 1 /\ p[k] = r(q[k])
    <2>1. n \in 1 .. n /\ \A k \in 1 .. n : k # n => k \in 1 .. n - 1
      OBVIOUS
    <2>2. \A k \in 1 .. n - 1 : q[k] \in 1 .. n - 1
      BY <1>6
    <2>3. \A k \in 1 .. n : p[k] = IF k = n THEN i ELSE r(q[k])
      OBVIOUS
    <2> HIDE DEF p
    <2> QED
      BY <2>1, <2>2, <2>3, Zenon
  <1>8. p \in [1 .. n -> 1 .. n]
    <2>1. \A k \in 1 .. n : p[k] \in 1 .. n
      BY <1>3, <1>7
    <2> QED
      BY <2>1
  <1> HIDE DEF p
  <1>9. ASSUME NEW a \in 1 .. n, NEW b \in 1 .. n, p[a] = p[b] PROVE a = b
    <2>1. CASE a = n
      BY <1>3, <1>7, <1>9, <2>1
    <2>2. CASE a # n
      <3>1. b # n
        BY <1>3, <1>7, <1>9, <2>2
      <3>2. r(q[a]) = r(q[b]) /\ q[a] \in 1 .. n - 1 /\ q[b] \in 1 .. n - 1
        BY <1>7, <1>9, <2>2, <3>1
      <3> QED
        BY <1>3, <1>6, <1>7, <2>2, <3>1, <3>2
    <2> QED
      BY <2>1, <2>2
  <1>10. ASSUME NEW c \in 1 .. n PROVE \E a \in 1 .. n : p[a] = c
    <2>1. CASE c = i
      <3>1. n \in 1 .. n
        OBVIOUS
      <3> QED
        BY <1>7, <2>1, <3>1
    <2>2. CASE c # i
      <3>1. PICK k \in 1 .. n - 1 : r(k) = c
        BY <1>3, <2>2
      <3>2. PICK a \in 1 .. n - 1 : q[a] = k
        BY <1>6
      <3>3. a \in 1 .. n /\ a # n
        OBVIOUS
      <3> QED
        BY <1>7, <3>1, <3>2, <3>3
    <2> QED
      BY <2>1, <2>2
  <1>11. ASSUME NEW a \in 1 .. n, NEW b \in 1 .. n, a < b PROVE f[p[a]] <= f[p[b]]
    <2>1. a # n
      BY <1>11
    <2>2. CASE b = n
      <3>1. p[a] \in 1 .. n
        BY <1>8
      <3> QED
        BY <1>1, <1>7, <2>2, <3>1
    <2>3. CASE b # n
      <3>1. /\ a \in 1 .. n - 1 /\ q[a] \in 1 .. n - 1 /\ p[a] = r(q[a])
            /\ b \in 1 .. n - 1 /\ q[b] \in 1 .. n - 1 /\ p[b] = r(q[b])
        BY <1>7, <2>1, <2>3
      <3>2. g[q[a]] <= g[q[b]]
        BY <1>6, <1>11, <3>1
      <3> QED
        BY <1>4, <3>1, <3>2
    <2> QED
      BY <2>2, <2>3
  <1>12. p \in Bijection(1 .. n, 1 .. n)
    BY <1>8, <1>9, <1>10, PermutationIs
  <1> QED
    BY <1>11, <1>12 DEF Ascending

(* Any finite number of integers can be brought into ascending order.      *)
LEMMA SortExists ==
    ASSUME NEW n \in Nat, NEW f \in [1 .. n -> Int]
    PROVE  \E p : Ascending(n, f, p)
  <1> DEFINE bad == {k \in Nat : \E g \in [1 .. k -> Int] : ~\E p : Ascending(k, g, p)}
  <1>1. bad = {}
    <2>1. SUFFICES ASSUME bad # {} PROVE FALSE
      OBVIOUS
    <2>2. bad \in SUBSET Nat
      OBVIOUS
    <2> HIDE DEF bad
    <2>3. PICK m \in bad : \A k \in bad : m <= k
      BY <2>1, <2>2, LeastNat
    <2>4. m \in Nat /\ \E g \in [1 .. m -> Int] : ~\E p : Ascending(m, g, p)
      BY <2>3 DEF bad
    <2>5. PICK g \in [1 .. m -> Int] : ~\E p : Ascending(m, g, p)
      BY <2>4
    <2>6. CASE m = 0
      <3> DEFINE none == [k \in 1 .. 0 |-> k]
      <3>1. \A k \in 1 .. 0 : FALSE
        OBVIOUS
      <3>2. none \in [1 .. 0 -> 1 .. 0]
        OBVIOUS
      <3> HIDE DEF none
      <3>3. none \in Bijection(1 .. 0, 1 .. 0)
        BY <3>1, <3>2, PermutationIs
      <3>4. Ascending(m, g, none)
        BY <2>6, <3>1, <3>3 DEF Ascending
      <3> QED
        BY <2>5, <3>4
    <2>7. CASE m # 0
      <3>1. m \in Nat \ {0} /\ m - 1 \in Nat /\ m - 1 \notin bad
        BY <2>3, <2>4, <2>7
      <3>2. \A h \in [1 .. m - 1 -> Int] : \E q : Ascending(m - 1, h, q)
        BY <3>1 DEF bad
      <3> QED
        BY <2>5, <3>1, <3>2, SortOneMore
    <2> QED
      BY <2>6, <2>7
  <1> QED
    BY <1>1

(* So the sort returns the values in an ascending order.                   *)
LEMMA SortedIs ==
    ASSUME NEW n \in Nat, NEW f \in [1 .. n -> Int]
    PROVE  \E p : /\ Ascending(n, f, p)
                  /\ Sorted(f) = [i \in 1 .. n |-> f[p[i]]]
  <1> DEFINE p == CHOOSE q \in Bijection(1 .. n, 1 .. n) : \A i, j \in 1 .. n : i < j => f[q[i]] <= f[q[j]]
  <1>1. DOMAIN f = 1 .. n
    OBVIOUS
  <1>2. Sorted(f) = [i \in 1 .. n |-> f[p[i]]]
    BY <1>1 DEF Sorted
  <1>3. \E q \in Bijection(1 .. n, 1 .. n) : \A i, j \in 1 .. n : i < j => f[q[i]] <= f[q[j]]
    BY SortExists DEF Ascending
  <1>4. p \in Bijection(1 .. n, 1 .. n) /\ \A i, j \in 1 .. n : i < j => f[p[i]] <= f[p[j]]
    BY <1>3
  <1>5. Ascending(n, f, p)
    BY <1>4 DEF Ascending
  <1> HIDE DEF p
  <1> QED
    BY <1>2, <1>5

(* As many values as its rank are not above a value of the sorted ones.    *)
LEMMA NoSlowerThanRank ==
    ASSUME NEW n \in Nat, NEW f \in [1 .. n -> Int], NEW p, Ascending(n, f, p), NEW k \in 1 .. n
    PROVE  LET T == {i \in 1 .. n : f[i] <= f[p[k]]}
           IN  Cardinality(T) \in Nat /\ Cardinality(T) >= k
  <1> DEFINE T == {i \in 1 .. n : f[i] <= f[p[k]]}
             h == [j \in 1 .. k |-> p[j]]
  <1>1. /\ p \in [1 .. n -> 1 .. n] /\ \A a, b \in 1 .. n : p[a] = p[b] => a = b
        /\ \A a, b \in 1 .. n : a < b => f[p[a]] <= f[p[b]]
    BY PermutationIs DEF Ascending
  <1>2. \A j \in 1 .. k : j \in 1 .. n /\ p[j] \in 1 .. n /\ f[p[j]] \in Int
    BY <1>1
  <1>3. \A j \in 1 .. k : p[j] \in T
    <2>1. ASSUME NEW j \in 1 .. k PROVE f[p[j]] <= f[p[k]]
      <3>1. CASE j = k
        BY <1>2, <3>1
      <3>2. CASE j # k
        <4>1. j < k /\ j \in 1 .. n /\ k \in 1 .. n
          BY <3>2
        <4> QED
          BY <1>1, <4>1, Zenon
      <3> QED
        BY <3>1, <3>2
    <2> QED
      BY <1>2, <2>1
  <1>4. T \in SUBSET (1 .. n)
    OBVIOUS
  <1> HIDE DEF T
  <1>5. h \in [1 .. k -> T] /\ \A a, b \in 1 .. k : h[a] = h[b] => a = b
    BY <1>1, <1>2, <1>3
  <1> HIDE DEF h
  <1>6. h \in Injection(1 .. k, T)
    BY <1>5 DEF Injection, IsInjective
  <1>7. IsFiniteSet(1 .. n)
    BY FS_Interval
  <1>8. IsFiniteSet(T)
    BY <1>4, <1>7, FS_Subset
  <1>9. Cardinality(1 .. k) <= Cardinality(T)
    BY <1>6, <1>8, FS_Injection
  <1>10. Cardinality(1 .. k) = k
    BY FS_Interval
  <1>11. Cardinality(T) \in Nat
    BY <1>8, FS_CardinalityType
  <1> QED
    BY <1>9, <1>10, <1>11 DEF T

(* A function on the first n numbers is a sequence of this length.         *)
LEMMA LenOf ==
    ASSUME NEW n \in Nat, NEW S, NEW f \in [1 .. n -> S]
    PROVE  f \in Seq(S) /\ Len(f) = n
  OBVIOUS

(* The ranks computeStats looks at exist, and are high enough.             *)
LEMMA RanksOf ==
    ASSUME NEW n \in Nat \ {0}
    PROVE  /\ n \div 2 + 1 \in 1 .. n /\ 2 * (n \div 2 + 1) >= n
           /\ (n * 99) \div 100 + 1 \in 1 .. n /\ 100 * ((n * 99) \div 100 + 1) >= 99 * n
           /\ n \div 2 <= (n * 99) \div 100
           /\ ~((n * 99) \div 100 >= n)
  OBVIOUS

(* The figures of computeStats are values of the sample in this order,     *)
(* below and above all others, with enough values below the percentiles.   *)
LEMMA StatsAre ==
    ASSUME NEW n \in Nat \ {0}, NEW f \in [1 .. n -> Int]
    PROVE  LET stats == ComputeStats(f)
               NoSlower(v) == Cardinality({i \in 1 .. n : f[i] <= v})
           IN  /\ stats.min \in Int /\ stats.max \in Int
               /\ \A i \in 1 .. n : stats.min <= f[i] /\ f[i] <= stats.max
               /\ \E i \in 1 .. n : f[i] = stats.max
               /\ stats.min <= stats.p50 /\ stats.p50 <= stats.p99 /\ stats.p99 <= stats.max
               /\ 2 * NoSlower(stats.p50) >= n /\ 100 * NoSlower(stats.p99) >= 99 * n
  <1> DEFINE stats == ComputeStats(f)
             half == n \div 2 + 1
             high == (n * 99) \div 100 + 1
             Below(v) == {i \in 1 .. n : f[i] <= v}
  <1>1. PICK p : Ascending(n, f, p) /\ Sorted(f) = [i \in 1 .. n |-> f[p[i]]]
    BY SortedIs
  <1>2. /\ half \in 1 .. n /\ 2 * half >= n /\ high \in 1 .. n /\ 100 * high >= 99 * n
        /\ half <= high /\ 1 \in 1 .. n /\ n \in 1 .. n
    BY RanksOf
  <1>3. /\ stats.min = f[p[1]] /\ stats.max = f[p[n]]
        /\ stats.p50 = f[p[half]] /\ stats.p99 = f[p[high]]
    <2>1. Len(f) = n
      BY LenOf
    <2>2. stats = [min |-> Sorted(f)[1], max |-> Sorted(f)[n], p50 |-> Sorted(f)[half], p99 |-> Sorted(f)[high]]
      BY <2>1, RanksOf DEF ComputeStats
    <2>3. \A i \in 1 .. n : Sorted(f)[i] = f[p[i]]
      BY <1>1
    <2> HIDE DEF stats, half, high
    <2> QED
      BY <1>2, <2>2, <2>3
  <1> HIDE DEF stats, half, high
  <1>4. /\ p \in [1 .. n -> 1 .. n] /\ \A c \in 1 .. n : \E a \in 1 .. n : p[a] = c
        /\ \A a, b \in 1 .. n : a < b => f[p[a]] <= f[p[b]]
    BY <1>1, PermutationIs DEF Ascending
  <1>5. \A a \in 1 .. n : p[a] \in 1 .. n /\ f[p[a]] \in Int
    BY <1>4
  <1>6. \A a, b \in 1 .. n : a <= b => f[p[a]] <= f[p[b]]
    <2>1. ASSUME NEW a \in 1 .. n, NEW b \in 1 .. n, a <= b PROVE f[p[a]] <= f[p[b]]
      <3>1. CASE a = b
        BY <1>5, <3>1
      <3>2. CASE a # b
        <4>1. a < b
          BY <2>1, <3>2
        <4> QED
          BY <1>4, <4>1, Zenon
      <3> QED
        BY <3>1, <3>2
    <2> QED
      BY <2>1
  <1>7. ASSUME NEW i \in 1 .. n PROVE stats.min <= f[i] /\ f[i] <= stats.max
    <2>1. PICK a \in 1 .. n : p[a] = i
      BY <1>4
    <2>2. 1 <= a /\ a <= n
      OBVIOUS
    <2> QED
      BY <1>2, <1>3, <1>6, <2>1, <2>2
  <1>8. stats.min <= stats.p50 /\ stats.p50 <= stats.p99 /\ stats.p99 <= stats.max
    <2>1. 1 <= half /\ high <= n
      BY <1>2
    <2> QED
      BY <1>2, <1>3, <1>6, <2>1
  <1>9. stats.min \in Int /\ stats.max \in Int /\ p[n] \in 1 .. n
    BY <1>2, <1>3, <1>5
  <1>10. 2 * Cardinality(Below(stats.p50)) >= n
    <2>1. Cardinality(Below(f[p[half]])) \in Nat /\ Cardinality(Below(f[p[half]])) >= half
      <3>1. n \in Nat /\ half \in 1 .. n /\ Ascending(n, f, p)
        BY <1>1, <1>2
      <3> QED
        BY <3>1, NoSlowerThanRank, Zenon
    <2> HIDE DEF Below
    <2> QED
      BY <1>2, <1>3, <2>1
  <1>11. 100 * Cardinality(Below(stats.p99)) >= 99 * n
    <2>1. Cardinality(Below(f[p[high]])) \in Nat /\ Cardinality(Below(f[p[high]])) >= high
      <3>1. n \in Nat /\ high \in 1 .. n /\ Ascending(n, f, p)
        BY <1>1, <1>2
      <3> QED
        BY <3>1, NoSlowerThanRank, Zenon
    <2> HIDE DEF Below
    <2> QED
      BY <1>2, <1>3, <2>1
  <1>12. \E i \in 1 .. n : f[i] = stats.max
    BY <1>3, <1>9
  <1> QED
    BY <1>7, <1>8, <1>9, <1>10, <1>11, <1>12 DEF stats

(* What the probe holds: of the ids there may be, finitely many have been  *)
(* recorded, so the report is about finitely many events.                  *)
LatencyInv ==
    /\ latency \in [ProbeIds -> [Stages -> Times \cup {Unset}]]
    /\ IsFiniteSet({e \in ProbeIds : latency[e] # NoStages})

(* Recording a stage adds at most one event, clearing leaves none.         *)
LEMMA LatencyStep == LatencyInv /\ [EvidenceNext]_evidenceVars => LatencyInv'
  <1> SUFFICES ASSUME LatencyInv, [EvidenceNext]_evidenceVars PROVE LatencyInv'
    OBVIOUS
  <1> DEFINE recorded == {e \in ProbeIds : latency[e] # NoStages}
  <1>t. latency \in [ProbeIds -> [Stages -> Times \cup {Unset}]] /\ IsFiniteSet(recorded)
    BY DEF LatencyInv
  <1>n. NoStages' = NoStages
    BY DEF NoStages
  <1>1. ASSUME NEW e \in ProbeIds, NEW s \in Stages, NEW t \in Times, RecordStage(e, s, t)
        PROVE  LatencyInv'
    <2>1. latency' = [latency EXCEPT ![e][s] = t]
      BY <1>1 DEF RecordStage
    <2>2. latency' \in [ProbeIds -> [Stages -> Times \cup {Unset}]]
      BY <1>t, <2>1
    <2>3. \A d \in ProbeIds : d # e => latency'[d] = latency[d]
      BY <1>t, <2>1
    <2>4. {d \in ProbeIds : latency'[d] # NoStages} \in SUBSET (recorded \cup {e})
      BY <2>3
    <2> HIDE DEF recorded
    <2>5. IsFiniteSet(recorded \cup {e})
      BY <1>t, FS_AddElement
    <2>6. IsFiniteSet({d \in ProbeIds : latency'[d] # NoStages})
      BY <2>4, <2>5, FS_Subset
    <2> QED
      BY <1>n, <2>2, <2>6 DEF LatencyInv
  <1>2. CASE ClearLatency
    <2>1. latency' = [e \in ProbeIds |-> NoStages]
      BY <1>2 DEF ClearLatency
    <2>2. {e \in ProbeIds : latency'[e] # NoStages} = {}
      BY <2>1
    <2>3. latency' \in [ProbeIds -> [Stages -> Times \cup {Unset}]]
      BY <2>1 DEF NoStages
    <2> QED
      BY <1>n, <2>2, <2>3, FS_EmptySet DEF LatencyInv
  <1>3. CASE CollectorNext \/ UNCHANGED evidenceVars
    <2>1. latency' = latency
      BY <1>3 DEF CollectorNext, RecordEvent, RecordLink, AddRecord, ClearRecords, evidenceVars
    <2> QED
      BY <1>n, <2>1 DEF LatencyInv
  <1> QED
    BY <1>1, <1>2, <1>3 DEF EvidenceNext, ProbeNext

(* The report lists finitely many events, each with all its times.         *)
LEMMA CompleteIs ==
    ASSUME LatencyInv
    PROVE  \E n \in Nat : /\ Complete \in [1 .. n -> ProbeIds]
                          /\ \A i \in 1 .. n : latency[Complete[i]] \in [Stages -> Nat]
  <1> DEFINE S == {e \in ProbeIds : IsComplete(latency[e])}
             n == Cardinality(S)
             seq == SetToSeq(S)
  <1>1. S \in SUBSET {e \in ProbeIds : latency[e] # NoStages}
    BY DEF IsComplete, NoStages, Stages
  <1>2. \A e \in S : latency[e] \in [Stages -> Nat]
    <2>1. ASSUME NEW e \in S PROVE latency[e] \in [Stages -> Nat]
      <3>1. latency[e] \in [Stages -> Times \cup {Unset}] /\ \A s \in Stages : latency[e][s] # Unset
        BY DEF LatencyInv, IsComplete
      <3>2. \A s \in Stages : latency[e][s] \in Nat
        BY <3>1, EvidenceAssumption
      <3> QED
        BY <3>1, <3>2
    <2> QED
      BY <2>1
  <1>3. S \subseteq ProbeIds /\ ProbeIds \subseteq Nat
    BY EvidenceAssumption
  <1>4. Complete = Sorted(seq)
    BY DEF Complete
  <1> HIDE DEF S
  <1>5. IsFiniteSet(S)
    BY <1>1, FS_Subset DEF LatencyInv
  <1>6. n \in Nat /\ Bijection(1 .. n, S) # {}
    BY <1>5, FS_CardinalityType DEF ExistsBijection
  <1>7. \E f \in [1 .. n -> S] : IsInjective(f)
    BY <1>6 DEF Bijection, Injection
  <1>8. seq \in [1 .. n -> S]
    BY <1>7 DEF SetToSeq
  <1> HIDE DEF n, seq
  <1>9. seq \in [1 .. n -> Int]
    <2>1. S \subseteq Int
      BY <1>3
    <2> QED
      BY <1>8, <2>1
  <1>10. PICK p : Ascending(n, seq, p) /\ Sorted(seq) = [i \in 1 .. n |-> seq[p[i]]]
    BY <1>6, <1>9, SortedIs
  <1>11. p \in [1 .. n -> 1 .. n]
    BY <1>6, <1>10, PermutationIs DEF Ascending
  <1>12. Complete \in [1 .. n -> S]
    BY <1>4, <1>8, <1>10, <1>11
  <1>13. Complete \in [1 .. n -> ProbeIds] /\ \A i \in 1 .. n : latency[Complete[i]] \in [Stages -> Nat]
    BY <1>2, <1>3, <1>12
  <1> QED
    BY <1>6, <1>13

(* A segment takes no negative time, and the segments add up.              *)
LEMMA SegmentsAddUp ==
    ASSUME NEW rec \in [Stages -> Nat]
    PROVE  /\ \A from, to \in Stages : Segment(rec, from, to) \in Nat
           /\ Segment(rec, "capture", "injection")
                  <= Segment(rec, "capture", "queue") + Segment(rec, "queue", "receive")
                         + Segment(rec, "receive", "injection")
  <1>1. \A s \in Stages : rec[s] \in Nat
    OBVIOUS
  <1>2. \A from, to \in Stages : Segment(rec, from, to) \in Nat
    BY <1>1 DEF Segment
  <1>3. rec["capture"] \in Nat /\ rec["queue"] \in Nat /\ rec["receive"] \in Nat /\ rec["injection"] \in Nat
    BY <1>1 DEF Stages
  <1> QED
    BY <1>2, <1>3 DEF Segment

(* The lengths of a segment, or of the whole, in the report.               *)
LEMMA DurationsAre ==
    ASSUME LatencyInv, NEW n \in Nat, Complete \in [1 .. n -> ProbeIds],
           \A i \in 1 .. n : latency[Complete[i]] \in [Stages -> Nat],
           NEW from \in Stages, NEW to \in Stages
    PROVE  /\ Durations(from, to) \in [1 .. n -> Int]
           /\ \A i \in 1 .. n : Durations(from, to)[i] = Segment(latency[Complete[i]], from, to)
  <1>1. DOMAIN Complete = 1 .. n
    OBVIOUS
  <1>2. \A i \in 1 .. n : Segment(latency[Complete[i]], from, to) \in Int
    <2>1. ASSUME NEW i \in 1 .. n PROVE Segment(latency[Complete[i]], from, to) \in Int
      <3>1. Segment(latency[Complete[i]], from, to) \in Nat
        BY SegmentsAddUp
      <3> QED
        BY <3>1
    <2> QED
      BY <2>1
  <1>3. Durations(from, to) = [i \in 1 .. n |-> Segment(latency[Complete[i]], from, to)]
    BY <1>1 DEF Durations
  <1> QED
    BY <1>2, <1>3

(* Whatever stages are recorded, in whatever order and with whatever       *)
(* clocks, the latency report is right about its percentiles, extremes and *)
(* segments.                                                               *)
THEOREM LatencyHonestHolds == EvidenceSpec => []LatencyHonest
  <1>1. EvidenceInit => LatencyInv
    <2> SUFFICES ASSUME EvidenceInit PROVE LatencyInv
      OBVIOUS
    <2>1. latency = [e \in ProbeIds |-> NoStages]
      BY DEF EvidenceInit
    <2>2. {e \in ProbeIds : latency[e] # NoStages} = {}
      BY <2>1
    <2>3. latency \in [ProbeIds -> [Stages -> Times \cup {Unset}]]
      BY <2>1 DEF NoStages
    <2> QED
      BY <2>2, <2>3, FS_EmptySet DEF LatencyInv
  <1>2. LatencyInv => PercentilesHonest
    <2> SUFFICES ASSUME LatencyInv, Complete # <<>> PROVE PercentilesHonest
      BY DEF PercentilesHonest
    <2>1. PICK n \in Nat : /\ Complete \in [1 .. n -> ProbeIds]
                           /\ \A i \in 1 .. n : latency[Complete[i]] \in [Stages -> Nat]
      BY CompleteIs
    <2> DEFINE values == Durations("capture", "injection")
    <2>2. n # 0
      BY <2>1, LenOf, EmptySeq
    <2>3. values \in [1 .. n -> Int]
      BY <2>1, DurationsAre DEF Stages
    <2>4. DOMAIN values = 1 .. n /\ Len(values) = n
      BY <2>3, LenOf
    <2> HIDE DEF values
    <2> DEFINE stats == ComputeStats(values)
               NoSlower(v) == Cardinality({i \in 1 .. n : values[i] <= v})
    <2>5. /\ stats.min \in Int /\ stats.max \in Int
          /\ \A i \in 1 .. n : stats.min <= values[i] /\ values[i] <= stats.max
          /\ stats.min <= stats.p50 /\ stats.p50 <= stats.p99 /\ stats.p99 <= stats.max
          /\ 2 * NoSlower(stats.p50) >= n /\ 100 * NoSlower(stats.p99) >= 99 * n
      BY <2>2, <2>3, StatsAre
    <2> HIDE DEF stats
    <2>6. \A i \in 1 .. n : values[i] \in stats.min .. stats.max
      BY <2>3, <2>5
    <2> QED
      BY <2>4, <2>5, <2>6, Zenon DEF PercentilesHonest, values, stats
  <1>3. LatencyInv => SegmentsCoverTotal
    <2> SUFFICES ASSUME LatencyInv PROVE SegmentsCoverTotal
      OBVIOUS
    <2>1. ASSUME NEW e \in ProbeIds, IsComplete(latency[e])
          PROVE  Segment(latency[e], "capture", "injection")
                     <= Segment(latency[e], "capture", "queue") + Segment(latency[e], "queue", "receive")
                            + Segment(latency[e], "receive", "injection")
      <3>1. latency[e] \in [Stages -> Times \cup {Unset}] /\ \A s \in Stages : latency[e][s] # Unset
        BY <2>1 DEF LatencyInv, IsComplete
      <3>2. \A s \in Stages : latency[e][s] \in Nat
        BY <3>1, EvidenceAssumption
      <3>3. latency[e] \in [Stages -> Nat]
        BY <3>1, <3>2
      <3> QED
        BY <3>3, SegmentsAddUp
    <2>2. ASSUME Complete # <<>>
          PROVE  ComputeStats(Durations("capture", "injection")).max
                    <= ComputeStats(Durations("capture", "queue")).max + ComputeStats(Durations("queue", "receive")).max
                           + ComputeStats(Durations("receive", "injection")).max
      <3>1. PICK n \in Nat : /\ Complete \in [1 .. n -> ProbeIds]
                             /\ \A i \in 1 .. n : latency[Complete[i]] \in [Stages -> Nat]
        BY CompleteIs
      <3>2. n # 0
        BY <2>2, <3>1, LenOf, EmptySeq
      <3> DEFINE Greatest(from, to) == ComputeStats(Durations(from, to)).max
                 Took(i, from, to) == Segment(latency[Complete[i]], from, to)
      <3>3. ASSUME NEW from \in Stages, NEW to \in Stages
            PROVE  /\ Greatest(from, to) \in Int
                   /\ \A i \in 1 .. n : Took(i, from, to) \in Int /\ Took(i, from, to) <= Greatest(from, to)
                   /\ \E i \in 1 .. n : Took(i, from, to) = Greatest(from, to)
        <4> DEFINE values == Durations(from, to)
        <4>1. values \in [1 .. n -> Int] /\ \A i \in 1 .. n : values[i] = Took(i, from, to)
          BY <3>1, DurationsAre
        <4>2. /\ ComputeStats(values).max \in Int
              /\ \A i \in 1 .. n : values[i] <= ComputeStats(values).max
              /\ \E i \in 1 .. n : values[i] = ComputeStats(values).max
          <5> HIDE DEF values
          <5> QED
            BY <3>2, <4>1, StatsAre
        <4> HIDE DEF Took
        <4> QED
          BY <4>1, <4>2
      <3>4. \A i \in 1 .. n : Took(i, "capture", "injection")
                                 <= Took(i, "capture", "queue") + Took(i, "queue", "receive")
                                        + Took(i, "receive", "injection")
        BY <3>1, SegmentsAddUp
      <3> HIDE DEF Greatest, Took
      <3>5. PICK i \in 1 .. n : Took(i, "capture", "injection") = Greatest("capture", "injection")
        BY <3>3 DEF Stages
      <3>6. /\ Took(i, "capture", "queue") \in Int /\ Took(i, "capture", "queue") <= Greatest("capture", "queue")
            /\ Took(i, "queue", "receive") \in Int /\ Took(i, "queue", "receive") <= Greatest("queue", "receive")
            /\ Took(i, "receive", "injection") \in Int
            /\ Took(i, "receive", "injection") <= Greatest("receive", "injection")
            /\ Took(i, "capture", "injection") \in Int
            /\ Greatest("capture", "queue") \in Int /\ Greatest("queue", "receive") \in Int
            /\ Greatest("receive", "injection") \in Int
        BY <3>3 DEF Stages
      <3>7. Greatest("capture", "injection")
               <= Greatest("capture", "queue") + Greatest("queue", "receive") + Greatest("receive", "injection")
        BY <3>4, <3>5, <3>6
      <3> QED
        BY <3>7 DEF Greatest
    <2> QED
      BY <2>1, <2>2, Zenon DEF SegmentsCoverTotal
  <1> QED
    BY <1>1, <1>2, <1>3, LatencyStep, PTL DEF EvidenceSpec, LatencyHonest

-----------------------------------------------------------------------------
(* The parts together.                                                     *)

(* In the composition that is model-checked each part keeps to its own     *)
(* specification, so what is proved of a part holds of the composition.    *)
THEOREM PathIsModular ==
    Spec => /\ BacklogSpec /\ PathSpec /\ ModSpec /\ ExSpec
            /\ ScreenSpec /\ EvidenceSpec /\ ViewSpec /\ GateSpec
  <1>1. Init => /\ BacklogInit /\ PathInit /\ ModInit /\ ExInit
                /\ ScreenInit /\ EvidenceInit /\ ViewInit /\ GateInit
    BY Zenon DEF Init
  <1>2. [Next]_vars => [BacklogNext]_backlogVars /\ [PathNext]_pathVars /\ [ModNext]_modVars /\ [ExNext]_exVars
    BY Zenon DEF Next, vars
  <1>3. [Next]_vars => [ScreenNext]_screenVars /\ [ViewNext]_viewVars /\ [GateNext]_gateVars
    BY Zenon DEF Next, vars
  <1>4. [Next]_vars => [EvidenceNext]_evidenceVars
    BY Zenon DEF Next, vars, EvidenceNext
  <1> QED
    BY <1>1, <1>2, <1>3, <1>4, PTL
       DEF Spec, BacklogSpec, PathSpec, ModSpec, ExSpec, ScreenSpec, EvidenceSpec, ViewSpec, GateSpec

=============================================================================
