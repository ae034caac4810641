---------------------------- MODULE StoreProofs ----------------------------
(***************************************************************************)
(* Proofs about what a node keeps in files, for every value of the         *)
(* constants: IdentityStore and TrustStore, with writes that fail, files   *)
(* that are damaged and crashes between the truncation and the writing.    *)
(***************************************************************************)
EXTENDS IdentityStore, TrustStore, SequenceTheorems, WellFoundedInduction, TLAPS

-----------------------------------------------------------------------------
(* IdentityStore.                                                          *)

(* What a recovery is about to store can be loaded again.                  *)
RepairSound ==
    idPc = "repair" => /\ identity.nodeId # NullId /\ identity.epoch # 0
                       /\ identity.topology \notin OddTopologies

IdInv == IdTypeOK /\ RepairSound /\ RecoveryIsDurable

(* A node that has neither an identity nor a file.                         *)
LEMMA IdInvInit == IdInit => IdInv
  <1> SUFFICES ASSUME IdInit PROVE IdInv
    OBVIOUS
  <1>1. minted \in 0 .. MaxIds /\ storedId \in 0 .. MaxIds
    BY IdentityAssumption DEF IdInit, NullId
  <1>2. IdTypeOK
    BY <1>1 DEF IdInit, IdTypeOK
  <1>3. idPc # "repair" /\ ~settled
    BY DEF IdInit
  <1> QED
    BY <1>2, <1>3 DEF IdInv, RepairSound, RecoveryIsDurable

(* Some first lines of a stored identity are a file.                       *)
LEMMA LinesAreFile ==
    ASSUME NEW n \in 0 .. 3, NEW id \in 0 .. MaxIds, NEW e \in 0 .. MaxEpoch, NEW t \in Topologies
    PROVE  /\ Lines(n, id, e, t) \in IdFiles /\ Lines(n, id, e, t) # Absent
           /\ Lines(n, id, e, t).lines = n
           /\ n = 3 => /\ Lines(n, id, e, t).nodeId = id /\ Lines(n, id, e, t).epoch = e
                       /\ Lines(n, id, e, t).topology = t
  <1>1. NoTopology \in Topologies /\ NullId \in 0 .. MaxIds /\ 0 \in 0 .. MaxEpoch
    BY IdentityAssumption DEF Topologies, NullId
  <1>2. Lines(n, id, e, t) \in IdFiles
    BY <1>1 DEF Lines, IdFiles
  <1> QED
    BY <1>2, IdentityValues DEF Lines

(* A truncated file is an empty one.                                       *)
LEMMA EmptyIsFile == EmptyFile \in IdFiles /\ EmptyFile # Absent
  <1>1. NoTopology \in Topologies /\ NullId \in 0 .. MaxIds /\ 0 \in 0 .. MaxEpoch /\ 0 \in 0 .. 3
    BY IdentityAssumption DEF Topologies, NullId
  <1> QED
    BY <1>1, LinesAreFile DEF EmptyFile

(* What load leaves in memory is an identity, with the node id and the     *)
(* epoch of the file, and its topology too when load succeeds.             *)
LEMMA LoadedIs ==
    ASSUME NEW f \in IdFiles \cup {Absent}, NEW i \in NodeIdentity \cup {NoIdentity}
    PROVE  /\ Loaded(f, i) \in NodeIdentity \cup {NoIdentity}
           /\ ~LoadFails(f) =>
                 /\ Loaded(f, i) \in NodeIdentity
                 /\ Loaded(f, i).nodeId = f.nodeId /\ Loaded(f, i).epoch = f.epoch
                 /\ Loaded(f, i).topology = f.topology
                 /\ f.nodeId # NullId /\ f.topology \notin OddTopologies
  <1>1. CASE f = Absent \/ (f # Absent /\ (f.lines < 3 \/ f.nodeId = NullId))
    BY <1>1 DEF Loaded, LoadFails
  <1>2. CASE ~(f = Absent \/ (f # Absent /\ (f.lines < 3 \/ f.nodeId = NullId)))
    <2> DEFINE t == IF f.topology \notin OddTopologies THEN f.topology
                    ELSE IF i = NoIdentity THEN NoTopology ELSE i.topology
               a == IF i = NoIdentity THEN {} ELSE i.attributes
    <2>1. f \in IdFiles /\ f.nodeId \in 0 .. MaxIds /\ f.epoch \in 0 .. MaxEpoch /\ f.topology \in Topologies
      BY <1>2 DEF IdFiles
    <2>2. i # NoIdentity => i.topology \in Topologies /\ i.attributes \in SUBSET Attributes
      BY DEF NodeIdentity
    <2>3. t \in Topologies
      <3>1. CASE f.topology \notin OddTopologies
        BY <2>1, <3>1
      <3>2. CASE f.topology \in OddTopologies /\ i = NoIdentity
        BY <3>2 DEF Topologies
      <3>3. CASE f.topology \in OddTopologies /\ i # NoIdentity
        BY <2>2, <3>3
      <3> QED
        BY <3>1, <3>2, <3>3
    <2>4. a \in SUBSET Attributes
      BY <2>2
    <2>5. f.topology \notin OddTopologies => t = f.topology
      OBVIOUS
    <2>6. Loaded(f, i) = [nodeId |-> f.nodeId, epoch |-> f.epoch, topology |-> t, attributes |-> a]
      BY <1>2 DEF Loaded
    <2>7. ~LoadFails(f) => f.nodeId # NullId /\ f.topology \notin OddTopologies
      BY <1>2 DEF LoadFails
    <2> HIDE DEF t, a
    <2> QED
      BY <2>1, <2>3, <2>4, <2>5, <2>6, <2>7 DEF NodeIdentity
  <1> QED
    BY <1>1, <1>2

(* A step after which no recovery is reported or under way.                *)
LEMMA IdUnsettled ==
    ASSUME IdTypeOK', settled' = FALSE, idPc' # "repair"
    PROVE  IdInv'
  BY DEF IdInv, RepairSound, RecoveryIsDurable

(* The operations in memory leave the file alone and end any recovery.     *)
LEMMA BecomeKeeps ==
    ASSUME IdInv, idPc = "idle", NEW i \in NodeIdentity \cup {NoIdentity}, Become(i)
    PROVE  IdInv'
  <1>1. IdTypeOK'
    BY DEF IdInv, IdTypeOK, Become
  <1> QED
    BY <1>1, IdUnsettled DEF Become

(* What a recovery leaves in memory is valid, and equals the file or is    *)
(* about to be written to it.                                              *)
LEMMA RecoverAnewKeeps ==
    ASSUME IdInv, RecoverAnew
    PROVE  IdInv'
  <1> DEFINE a == IF identity = NoIdentity THEN {} ELSE identity.attributes
             i == [nodeId |-> minted + 1, epoch |-> 1, topology |-> NoTopology, attributes |-> a]
  <1>1. a \in SUBSET Attributes
    BY DEF IdInv, IdTypeOK, NodeIdentity
  <1>2. minted + 1 \in 0 .. MaxIds /\ minted + 1 # 0 /\ 1 \in 0 .. MaxEpoch
    BY IdentityAssumption DEF IdInv, IdTypeOK, RecoverAnew
  <1>3. NoTopology \in Topologies /\ NoTopology \notin OddTopologies
    BY IdentityAssumption DEF Topologies
  <1> HIDE DEF a
  <1>4. i \in NodeIdentity /\ i.nodeId # NullId /\ i.epoch # 0 /\ i.topology \notin OddTopologies
    BY <1>1, <1>2, <1>3 DEF NodeIdentity, NullId
  <1>5. identity' = i /\ minted' = minted + 1 /\ settled' = FALSE /\ storedId' = storedId /\ idPc = "idle"
    BY DEF RecoverAnew, a
  <1> HIDE DEF i
  <1>6. identity' # NoIdentity
    BY <1>4, <1>5, IdentityValues
  <1>7. CASE idFile' = EmptyFile /\ idPc' = "repair"
    <2>1. IdTypeOK'
      BY <1>2, <1>4, <1>5, <1>6, <1>7, EmptyIsFile DEF IdInv, IdTypeOK
    <2> QED
      BY <2>1, <1>4, <1>5 DEF IdInv, RepairSound, RecoveryIsDurable
  <1>8. CASE UNCHANGED <<idFile, idPc>>
    <2>1. IdTypeOK'
      BY <1>2, <1>4, <1>5, <1>8 DEF IdInv, IdTypeOK
    <2> QED
      BY <2>1, <1>5, <1>8, IdUnsettled
  <1> QED
    BY <1>7, <1>8 DEF RecoverAnew, OpenForWriting

(* The same when the file could be read.                                   *)
LEMMA RecoverLoadedKeeps ==
    ASSUME IdInv, RecoverLoaded
    PROVE  IdInv'
  <1> DEFINE i == Loaded(idFile, identity)
             j == [i EXCEPT !.epoch = IF @ = 0 THEN 1 ELSE @]
  <1>0. /\ idFile \in IdFiles \cup {Absent} /\ identity \in NodeIdentity \cup {NoIdentity}
        /\ idPc = "idle" /\ ~LoadFails(idFile) /\ minted' = minted /\ storedId' = storedId
        /\ minted \in 0 .. MaxIds /\ storedId \in 0 .. MaxIds
    BY DEF IdInv, IdTypeOK, RecoverLoaded
  <1>1. /\ i \in NodeIdentity /\ i.nodeId = idFile.nodeId /\ i.epoch = idFile.epoch
        /\ i.topology = idFile.topology /\ i.nodeId # NullId /\ i.topology \notin OddTopologies
    BY <1>0, LoadedIs
  <1>2. identity' = j
    BY DEF RecoverLoaded
  <1>3. IF i.epoch = 0 THEN OpenForWriting("repair") /\ settled' = FALSE
                       ELSE UNCHANGED <<idFile, idPc>> /\ settled' = TRUE
    BY DEF RecoverLoaded
  <1> HIDE DEF i
  <1>4. /\ j \in NodeIdentity /\ j.nodeId = i.nodeId /\ j.topology = i.topology
        /\ j.epoch # 0 /\ (i.epoch # 0 => j.epoch = i.epoch)
    BY <1>1, IdentityAssumption DEF NodeIdentity
  <1> HIDE DEF j
  <1>5. identity' # NoIdentity
    BY <1>2, <1>4, IdentityValues
  <1>6. CASE i.epoch = 0 /\ idFile' = EmptyFile /\ idPc' = "repair"
    <2>1. settled' = FALSE
      BY <1>3, <1>6
    <2>2. IdTypeOK'
      BY <1>0, <1>2, <1>4, <1>5, <1>6, <2>1, EmptyIsFile DEF IdTypeOK
    <2> QED
      BY <2>1, <2>2, <1>1, <1>2, <1>4 DEF IdInv, RepairSound, RecoveryIsDurable
  <1>7. CASE i.epoch = 0 /\ UNCHANGED <<idFile, idPc>>
    <2>1. settled' = FALSE
      BY <1>3, <1>7
    <2>2. IdTypeOK'
      BY <1>0, <1>2, <1>4, <1>7, <2>1 DEF IdTypeOK
    <2> QED
      BY <2>1, <2>2, <1>0, <1>7, IdUnsettled
  <1>8. CASE i.epoch # 0
    <2>1. settled' = TRUE /\ UNCHANGED <<idFile, idPc>>
      BY <1>3, <1>8
    <2>2. IdTypeOK'
      BY <1>0, <1>2, <1>4, <2>1 DEF IdTypeOK
    <2>3. /\ Loaded(idFile, NoIdentity).nodeId = idFile.nodeId
          /\ Loaded(idFile, NoIdentity).epoch = idFile.epoch
          /\ Loaded(idFile, NoIdentity).topology = idFile.topology
      BY <1>0, LoadedIs
    <2>4. RecoveryIsDurable'
      BY <1>0, <1>1, <1>2, <1>4, <1>8, <2>1, <2>3 DEF RecoveryIsDurable
    <2>5. RepairSound'
      BY <1>0, <2>1 DEF RepairSound
    <2> QED
      BY <2>2, <2>4, <2>5 DEF IdInv
  <1> QED
    BY <1>3, <1>6, <1>7, <1>8 DEF OpenForWriting

(* Closing the stream stores what was in memory: it can be loaded again    *)
(* when a recovery put it there.                                           *)
LEMMA FlushKeeps ==
    ASSUME IdInv, Flush
    PROVE  IdInv'
  <1>0. /\ idPc' = "idle" /\ idFile' = IdText(identity) /\ storedId' = identity.nodeId
        /\ identity' = identity /\ minted' = minted /\ settled' = (idPc = "repair")
    BY DEF Flush
  <1>1. /\ identity \in NodeIdentity /\ identity # NoIdentity /\ identity.nodeId \in 0 .. MaxIds
        /\ identity.epoch \in 0 .. MaxEpoch /\ identity.topology \in Topologies
    BY DEF IdInv, IdTypeOK, Flush, NodeIdentity
  <1>2. /\ idFile' \in IdFiles /\ idFile' # Absent /\ idFile'.lines = 3 /\ idFile'.nodeId = identity.nodeId
        /\ idFile'.epoch = identity.epoch /\ idFile'.topology = identity.topology
    BY <1>0, <1>1, LinesAreFile DEF IdText
  <1>3. IdTypeOK'
    BY <1>0, <1>1, <1>2 DEF IdInv, IdTypeOK
  <1>4. RepairSound'
    BY <1>0 DEF RepairSound
  <1>5. ASSUME settled' PROVE RecoveryIsDurable'
    <2>1. identity.nodeId # NullId /\ identity.epoch # 0 /\ identity.topology \notin OddTopologies
      BY <1>0, <1>5 DEF IdInv, RepairSound
    <2>2. ~LoadFails(idFile')
      BY <1>2, <2>1 DEF LoadFails
    <2>3. /\ Loaded(idFile', NoIdentity).nodeId = idFile'.nodeId
          /\ Loaded(idFile', NoIdentity).epoch = idFile'.epoch
          /\ Loaded(idFile', NoIdentity).topology = idFile'.topology
      BY <1>2, <2>2, LoadedIs
    <2> QED
      BY <1>0, <1>2, <2>1, <2>2, <2>3 DEF RecoveryIsDurable
  <1>6. RecoveryIsDurable'
    BY <1>5 DEF RecoveryIsDurable
  <1> QED
    BY <1>3, <1>4, <1>6 DEF IdInv

(* Damage leaves a file or none.                                           *)
LEMMA DamageKeeps ==
    ASSUME IdInv, DamageFile
    PROVE  IdInv'
  <1>0. /\ idPc = "idle" /\ idFile # Absent /\ settled' = FALSE
        /\ UNCHANGED <<identity, idPc, minted, storedId>>
    BY DEF DamageFile
  <1>1. /\ idFile \in IdFiles /\ idFile.nodeId \in 0 .. MaxIds /\ idFile.epoch \in 0 .. MaxEpoch
        /\ idFile.topology \in Topologies
    BY <1>0 DEF IdInv, IdTypeOK, IdFiles
  <1>2. idFile' \in IdFiles \cup {Absent}
    <2>1. ASSUME NEW n \in 0 .. 2, idFile' = Lines(n, idFile.nodeId, idFile.epoch, idFile.topology)
          PROVE  idFile' \in IdFiles
      <3>1. n \in 0 .. 3
        OBVIOUS
      <3> QED
        BY <1>1, <2>1, <3>1, LinesAreFile
    <2>2. CASE idFile' = [idFile EXCEPT !.nodeId = NullId]
      BY <1>1, <2>2, IdentityAssumption DEF IdFiles, NullId
    <2>3. CASE idFile' = [idFile EXCEPT !.epoch = 0]
      BY <1>1, <2>3, IdentityAssumption DEF IdFiles
    <2>4. ASSUME NEW t \in OddTopologies, idFile' = [idFile EXCEPT !.topology = t]
          PROVE  idFile' \in IdFiles
      BY <1>1, <2>4 DEF IdFiles, Topologies
    <2> QED
      BY <2>1, <2>2, <2>3, <2>4 DEF DamageFile
  <1>3. IdTypeOK'
    BY <1>0, <1>2 DEF IdInv, IdTypeOK
  <1> QED
    BY <1>0, <1>3, IdUnsettled

(* Every operation, crash and damage keeps the invariant.                  *)
LEMMA IdStep ==
    ASSUME IdInv, IdNext
    PROVE  IdInv'
  <1>t. /\ identity \in NodeIdentity \cup {NoIdentity} /\ idFile \in IdFiles \cup {Absent}
        /\ minted \in 0 .. MaxIds /\ storedId \in 0 .. MaxIds
        /\ idPc \in {"idle", "flush", "repair"}
        /\ idPc # "idle" => identity # NoIdentity
    BY DEF IdInv, IdTypeOK
  <1>1. CASE Initialize
    <2> DEFINE id == IF identity = NoIdentity THEN minted + 1 ELSE identity.nodeId
    <2>1. minted' \in 0 .. MaxIds /\ id \in 0 .. MaxIds /\ 0 \in 0 .. MaxEpoch
      BY <1>1, <1>t, IdentityAssumption DEF Initialize, NodeIdentity
    <2>2. identity' = [nodeId |-> id, epoch |-> 0, topology |-> NoTopology, attributes |-> {"capabilities"}]
      BY <1>1 DEF Initialize
    <2> HIDE DEF id
    <2>3. identity' \in NodeIdentity
      BY <2>1, <2>2 DEF NodeIdentity, Topologies, Attributes
    <2>4. IdTypeOK' /\ settled' = FALSE /\ idPc' = "idle"
      BY <1>1, <1>t, <2>1, <2>3 DEF Initialize, IdTypeOK
    <2> QED
      BY <2>4, IdUnsettled
  <1>2. ASSUME NEW a \in Attributes, AddAttribute(a)
        PROVE  IdInv'
    <2>1. [identity EXCEPT !.attributes = @ \cup {a}] \in NodeIdentity
      BY <1>2, <1>t DEF AddAttribute, NodeIdentity
    <2> QED
      BY <1>2, <2>1, BecomeKeeps DEF AddAttribute
  <1>3. CASE RemoveEndpointAddress
    <2>1. [identity EXCEPT !.attributes = @ \ {"endpointAddress"}] \in NodeIdentity
      BY <1>3, <1>t DEF RemoveEndpointAddress, NodeIdentity
    <2> QED
      BY <1>3, <2>1, BecomeKeeps DEF RemoveEndpointAddress
  <1>4. ASSUME NEW t \in Topologies, JoinTopology(t)
        PROVE  IdInv'
    <2>1. [identity EXCEPT !.topology = t] \in NodeIdentity
      BY <1>4, <1>t DEF JoinTopology, NodeIdentity
    <2> QED
      BY <1>4, <2>1, BecomeKeeps DEF JoinTopology
  <1>5. CASE IncrementEpoch
    <2>1. [identity EXCEPT !.epoch = @ + 1] \in NodeIdentity
      BY <1>5, <1>t, IdentityAssumption DEF IncrementEpoch, NodeIdentity
    <2> QED
      BY <1>5, <2>1, BecomeKeeps DEF IncrementEpoch
  <1>6. CASE Load
    <2>1. Loaded(idFile, identity) \in NodeIdentity \cup {NoIdentity}
      BY <1>t, LoadedIs
    <2> QED
      BY <1>6, <2>1, BecomeKeeps DEF Load
  <1>7. CASE Persist
    <2>1. IdTypeOK' /\ settled' = FALSE /\ idPc' # "repair"
      BY <1>7, <1>t, EmptyIsFile DEF Persist, OpenForWriting, IdTypeOK
    <2> QED
      BY <2>1, IdUnsettled
  <1>8. CASE Flush
    BY <1>8, FlushKeeps
  <1>9. CASE FlushFails
    <2>1. PICK n \in 0 .. 2 : idFile' = Lines(n, identity.nodeId, identity.epoch, identity.topology)
      BY <1>9 DEF FlushFails
    <2>2. n \in 0 .. 3
      OBVIOUS
    <2>3. /\ identity.nodeId \in 0 .. MaxIds /\ identity.epoch \in 0 .. MaxEpoch
          /\ identity.topology \in Topologies
      BY <1>9, <1>t DEF FlushFails, NodeIdentity
    <2>4. idFile' \in IdFiles
      BY <2>1, <2>2, <2>3, LinesAreFile
    <2>5. IdTypeOK' /\ settled' = FALSE /\ idPc' = "idle"
      BY <1>9, <1>t, <2>4 DEF FlushFails, IdTypeOK
    <2> QED
      BY <2>5, IdUnsettled
  <1>10. CASE RecoverAnew
    BY <1>10, RecoverAnewKeeps
  <1>11. CASE RecoverLoaded
    BY <1>11, RecoverLoadedKeeps
  <1>12. CASE Crash
    <2>1. IdTypeOK' /\ settled' = FALSE /\ idPc' = "idle"
      BY <1>12, <1>t DEF Crash, IdTypeOK
    <2> QED
      BY <2>1, IdUnsettled
  <1>13. CASE DamageFile
    BY <1>13, DamageKeeps
  <1> QED
    BY <1>1, <1>2, <1>3, <1>4, <1>5, <1>6, <1>7, <1>8, <1>9, <1>10, <1>11, <1>12, <1>13 DEF IdNext

(* The invariant holds through any number of crashes, failed writes and    *)
(* damages.                                                                *)
LEMMA IdInvariant == IdSpec => []IdInv
  <1>1. ASSUME IdInv, UNCHANGED idVars PROVE IdInv'
    BY <1>1, Zenon DEF idVars, IdInv, IdTypeOK, RepairSound, RecoveryIsDurable
  <1>2. IdInv /\ [IdNext]_idVars => IdInv'
    BY <1>1, IdStep
  <1> QED
    BY <1>2, IdInvInit, PTL DEF IdSpec

(* Whatever damage, failed write or crash came before it, a recovery that  *)
(* ended leaves a valid file with the identity it left in memory.          *)
THEOREM RecoveryIsDurableHolds == IdSpec => []RecoveryIsDurable
  <1>1. IdInv => RecoveryIsDurable
    BY DEF IdInv
  <1> QED
    BY <1>1, IdInvariant, PTL

(* A step of the manager in which no crash falls between the truncation of *)
(* the file and its writing.                                               *)
CleanNext == IdNext /\ (Crash => idPc = "idle")

(* What costs a node its id: on a disk without faults and with topology    *)
(* names of one word, a stored id is found again after every sequence of   *)
(* restarts, loads, recoveries and stores, unless the process ends in the  *)
(* window that persist opens by truncating the only copy.                  *)
THEOREM OnlyTheWindowLosesTheId ==
    ASSUME ~DiskFaults, OddTopologies = {}
    PROVE  IdInit /\ [][CleanNext]_idVars => []NodeIdSurvives
  <1>1. IdInit => NodeIdSurvives
    BY DEF IdInit, NodeIdSurvives
  <1>2. IdInv /\ NodeIdSurvives /\ [CleanNext]_idVars => NodeIdSurvives'
    <2> SUFFICES ASSUME IdInv, NodeIdSurvives, [CleanNext]_idVars PROVE NodeIdSurvives'
      OBVIOUS
    <2>0. ASSUME UNCHANGED <<idFile, idPc, storedId>> PROVE NodeIdSurvives'
      BY <2>0, Zenon DEF NodeIdSurvives, LoadFails
    <2>o. ASSUME NEW pc \in {"flush", "repair"}, OpenForWriting(pc) PROVE NodeIdSurvives'
      BY <2>o DEF OpenForWriting, NodeIdSurvives
    <2>1. CASE Initialize \/ RemoveEndpointAddress \/ IncrementEpoch \/ Load
      BY <2>0, <2>1 DEF Initialize, RemoveEndpointAddress, IncrementEpoch, Load, Become
    <2>2. ASSUME NEW a \in Attributes, AddAttribute(a) PROVE NodeIdSurvives'
      BY <2>0, <2>2 DEF AddAttribute, Become
    <2>3. ASSUME NEW t \in Topologies, JoinTopology(t) PROVE NodeIdSurvives'
      BY <2>0, <2>3 DEF JoinTopology, Become
    <2>4. CASE Persist \/ RecoverAnew
      BY <2>o, <2>4 DEF Persist, RecoverAnew
    <2>5. CASE Flush
      <3>1. idFile' = Lines(3, identity.nodeId, identity.epoch, identity.topology) /\ storedId' = identity.nodeId
        BY <2>5 DEF Flush, IdText
      <3>2. idFile'.lines = 3 /\ idFile'.nodeId = storedId'
        BY <3>1 DEF Lines
      <3>3. storedId' # NullId => ~(idFile'.lines < 3 \/ idFile'.nodeId = NullId \/ idFile'.topology \in OddTopologies)
        BY <3>2
      <3>4. idFile' # Absent
        <4>1. identity \in NodeIdentity
          BY <2>5 DEF Flush, IdInv, IdTypeOK
        <4>2. /\ identity.nodeId \in 0 .. MaxIds /\ identity.epoch \in 0 .. MaxEpoch
              /\ identity.topology \in Topologies
          BY <4>1 DEF NodeIdentity
        <4> QED
          BY <3>1, <4>2, LinesAreFile
      <3> QED
        BY <3>2, <3>3, <3>4 DEF NodeIdSurvives, LoadFails
    <2>6. CASE RecoverLoaded
      <3>1. CASE Loaded(idFile, identity).epoch = 0
        BY <2>6, <2>o, <3>1 DEF RecoverLoaded
      <3>2. CASE Loaded(idFile, identity).epoch # 0
        BY <2>6, <2>0, <3>2 DEF RecoverLoaded
      <3> QED
        BY <3>1, <3>2
    <2>7. CASE Crash
      <3>1. idPc = "idle" \/ UNCHANGED idVars
        BY <2>7 DEF CleanNext
      <3> QED
        BY <2>0, <2>7, <3>1 DEF Crash, idVars
    <2>8. ~FlushFails /\ ~DamageFile
      BY DEF FlushFails, DamageFile
    <2>9. CASE UNCHANGED idVars
      BY <2>0, <2>9 DEF idVars
    <2> QED
      BY <2>1, <2>2, <2>3, <2>4, <2>5, <2>6, <2>7, <2>8, <2>9 DEF CleanNext, IdNext
  <1>3. [CleanNext]_idVars => [IdNext]_idVars
    BY DEF CleanNext
  <1> QED
    BY <1>1, <1>2, <1>3, IdInvariant, PTL DEF IdSpec

-----------------------------------------------------------------------------
(* TrustStore.                                                             *)

(* A set of natural numbers that is not empty has a least one.             *)
LEMMA LeastNat ==
    ASSUME NEW N \in SUBSET Nat, N # {}
    PROVE  \E m \in N : \A k \in N : m <= k
  <1>1. PICK m \in N : \A k \in N : <<k, m>> \notin OpToRel(<, Nat)
    BY WFMin, NatLessThanWellFounded, Zenon
  <1>2. \A k \in N : ~(k < m)
    BY <1>1, Zenon DEF OpToRel
  <1> QED
    BY <1>2

(* A sequence is one over the values it has.                               *)
LEMMA SeqOver ==
    ASSUME NEW S, NEW s \in Seq(S), NEW T, \A i \in 1 .. Len(s) : s[i] \in T
    PROVE  s \in Seq(T)
  OBVIOUS

(* Without drops every x, and brings in nothing.                           *)
LEMMA WithoutIs ==
    ASSUME NEW S, NEW s \in Seq(S), NEW x
    PROVE  Without(s, x) \in Seq(S \ {x})
  <1> DEFINE T == S \ {x}
             len == Len(s)
             step(n, q) == IF s[n] = x THEN q ELSE Append(q, s[n])
             filters(n, g) == /\ g \in [0 .. n -> Seq(T)] /\ g[0] = <<>>
                              /\ \A m \in 1 .. n : g[m] = step(m, g[m - 1])
             kept[n \in 0 .. Len(s)] ==
                IF n = 0 THEN <<>> ELSE IF s[n] = x THEN kept[n - 1] ELSE Append(kept[n - 1], s[n])
             bad == {n \in 0 .. len : ~\E g : filters(n, g)}
  <1>0. len \in Nat /\ \A n \in 1 .. len : s[n] \in S
    OBVIOUS
  <1>s. \A n \in 1 .. len : \A q \in Seq(T) : step(n, q) \in Seq(T)
    BY <1>0
  <1>1. bad = {}
    <2>1. SUFFICES ASSUME bad # {} PROVE FALSE
      OBVIOUS
    <2>2. bad \in SUBSET Nat
      BY <1>0
    <2> HIDE DEF bad
    <2>3. PICK m \in bad : \A k \in bad : m <= k
      BY <2>1, <2>2, LeastNat
    <2>4. m \in 0 .. len /\ ~\E g : filters(m, g)
      BY <2>3 DEF bad
    <2>5. m # 0
      <3>1. filters(0, [i \in 0 .. 0 |-> <<>>])
        OBVIOUS
      <3> QED
        BY <2>4, <3>1
    <2>6. m - 1 \in 0 .. len /\ m - 1 \notin bad
      BY <1>0, <2>3, <2>4, <2>5
    <2>7. PICK g : filters(m - 1, g)
      BY <2>6 DEF bad
    <2> DEFINE h == [i \in 0 .. m |-> IF i = m THEN step(m, g[m - 1]) ELSE g[i]]
    <2>8. g[m - 1] \in Seq(T) /\ m \in 1 .. len
      BY <1>0, <2>4, <2>5, <2>7
    <2>9. step(m, g[m - 1]) \in Seq(T)
      BY <1>s, <2>8
    <2> HIDE DEF step, T
    <2>10. h \in [0 .. m -> Seq(T)] /\ h[0] = <<>>
      BY <1>0, <2>7, <2>8, <2>9
    <2>11. ASSUME NEW k \in 1 .. m PROVE h[k] = step(k, h[k - 1])
      <3>1. CASE k = m
        BY <1>0, <2>8, <3>1
      <3>2. CASE k # m
        BY <1>0, <2>7, <2>8, <3>2
      <3> QED
        BY <3>1, <3>2
    <2> HIDE DEF h
    <2>12. filters(m, h)
      BY <2>10, <2>11
    <2> QED
      BY <2>4, <2>12
  <1>2. PICK g : filters(len, g)
    <2>1. len \in 0 .. len
      BY <1>0
    <2> HIDE DEF filters, len
    <2> QED
      BY <1>1, <2>1, Zenon
  <1>3. g = [n \in 0 .. Len(s) |-> IF n = 0 THEN <<>>
                                   ELSE IF s[n] = x THEN g[n - 1] ELSE Append(g[n - 1], s[n])]
    <2>1. g = [n \in 0 .. Len(s) |-> g[n]]
      BY <1>2
    <2>2. ASSUME NEW n \in 0 .. Len(s)
          PROVE  g[n] = IF n = 0 THEN <<>> ELSE IF s[n] = x THEN g[n - 1] ELSE Append(g[n - 1], s[n])
      <3>1. CASE n = 0
        BY <1>2, <3>1, Zenon
      <3>2. CASE n # 0
        <4>1. n \in 1 .. len
          BY <1>0, <3>2
        <4>2. g[n] = step(n, g[n - 1])
          BY <1>2, <4>1, Zenon
        <4> QED
          BY <3>2, <4>2, Zenon
      <3> QED
        BY <3>1, <3>2
    <2> QED
      BY <2>1, <2>2, Zenon
  <1>4. kept = [n \in 0 .. Len(s) |-> IF n = 0 THEN <<>>
                                      ELSE IF s[n] = x THEN kept[n - 1] ELSE Append(kept[n - 1], s[n])]
    BY <1>3, Zenon
  <1>5. Without(s, x) = kept[len]
    BY DEF Without
  <1> HIDE DEF kept, T
  <1>6. kept[0] = <<>> /\ \A n \in 1 .. len : kept[n] = step(n, kept[n - 1])
    <2>1. 0 \in 0 .. Len(s)
      BY <1>0
    <2>2. kept[0] = <<>>
      BY <1>4, <2>1, Zenon
    <2>3. ASSUME NEW n \in 1 .. len PROVE kept[n] = step(n, kept[n - 1])
      <3>1. n \in 0 .. Len(s) /\ n # 0
        BY <1>0
      <3> QED
        BY <1>4, <3>1, Zenon
    <2> QED
      BY <2>2, <2>3, Zenon
  <1> HIDE DEF step
  <1> DEFINE odd == {n \in 0 .. len : kept[n] \notin Seq(T)}
  <1>7. odd = {}
    <2>1. SUFFICES ASSUME odd # {} PROVE FALSE
      OBVIOUS
    <2>2. odd \in SUBSET Nat
      BY <1>0
    <2> HIDE DEF odd
    <2>3. PICK m \in odd : \A k \in odd : m <= k
      BY <2>1, <2>2, LeastNat
    <2>4. m \in 0 .. len /\ kept[m] \notin Seq(T)
      BY <2>3 DEF odd
    <2>5. m # 0
      <3>1. <<>> \in Seq(T)
        OBVIOUS
      <3> QED
        BY <1>6, <2>4, <3>1, Zenon
    <2>6. m - 1 \in 0 .. len /\ m - 1 \notin odd /\ m \in 1 .. len
      BY <1>0, <2>3, <2>4, <2>5
    <2>7. kept[m - 1] \in Seq(T)
      BY <2>6 DEF odd
    <2> QED
      BY <1>s, <1>6, <2>4, <2>6, <2>7
  <1> QED
    BY <1>0, <1>5, <1>7 DEF T

(* A prefix of a sequence is one over the same values.                     *)
LEMMA PrefixOver ==
    ASSUME NEW S, NEW s \in Seq(S), NEW n \in 0 .. Len(s)
    PROVE  SubSeq(s, 1, n) \in Seq(S)
  BY SubSeqProperties

(* What load reads of a file holds no garbage.                             *)
LEMMA ReadableIs ==
    ASSUME NEW S, NEW f \in Seq(S \cup {Garbage})
    PROVE  ReadableLines(f) \in Seq(S)
  <1> DEFINE I == {i \in 1 .. Len(f) : f[i] = Garbage}
             n == (IF Contains(f, Garbage) THEN SelectInSeq(f, LAMBDA l : l = Garbage) ELSE Len(f) + 1) - 1
  <1>1. Len(f) \in Nat
    OBVIOUS
  <1>2. n \in 0 .. Len(f) /\ \A i \in 1 .. n : f[i] # Garbage
    <2>1. CASE ~Contains(f, Garbage)
      BY <1>1, <2>1 DEF Contains
    <2>2. CASE Contains(f, Garbage)
      <3>1. I # {} /\ I \in SUBSET Nat
        BY <1>1, <2>2 DEF Contains
      <3>2. SelectInSeq(f, LAMBDA l : l = Garbage) = Min(I)
        BY <3>1, Zenon DEF SelectInSeq
      <3> HIDE DEF I
      <3>3. \E m \in I : \A k \in I : m <= k
        BY <3>1, LeastNat
      <3>4. Min(I) \in I /\ \A k \in I : Min(I) <= k
        BY <3>3 DEF Min
      <3>5. n = Min(I) - 1
        BY <2>2, <3>2
      <3>6. Min(I) \in 1 .. Len(f) /\ \A k \in 1 .. Len(f) : f[k] = Garbage => Min(I) <= k
        BY <3>4 DEF I
      <3>7. PICK m \in 1 .. Len(f) : n = m - 1 /\ \A k \in 1 .. Len(f) : f[k] = Garbage => m <= k
        BY <3>5, <3>6
      <3> HIDE DEF n
      <3> QED
        BY <1>1, <3>7
    <2> QED
      BY <2>1, <2>2
  <1>3. ReadableLines(f) = SubSeq(f, 1, n)
    BY DEF ReadableLines
  <1> HIDE DEF n
  <1>4. n \in Int /\ \A i \in 1 .. n : f[i] \in S
    BY <1>1, <1>2
  <1> QED
    BY <1>3, <1>4, SubSeqProperties

(* Those a list or a readable line may name.                               *)
Unrevoked == (TrustPeers \ revoked) \cup {ZeroLine}

(* Revoked peers are neither in the list nor in the file, which is empty   *)
(* while the list is about to be written.                                  *)
TrustInv ==
    /\ trustList \in Seq(Unrevoked)
    /\ trustFile = NoFile \/ trustFile \in Seq(Unrevoked \cup {Garbage})
    /\ trustPc \in {"idle", "flush"} /\ (trustPc = "flush" => trustFile = <<>>)
    /\ activeRecoveries \subseteq TrustPeers /\ revoked \subseteq TrustPeers

(* Nobody is trusted, nobody has been revoked.                             *)
LEMMA TrustInvInit == TrustInit => TrustInv
  BY DEF TrustInit, TrustInv

(* Adding a peer is the one way back.                                      *)
LEMMA TrustAddKeeps ==
    ASSUME TrustInv, NEW p \in TrustPeers, TrustAdd(p)
    PROVE  TrustInv'
  <1>1. /\ trustList' = IF isTrusted(p) THEN trustList ELSE Append(trustList, p)
        /\ revoked' = revoked \ {p} /\ UNCHANGED <<trustFile, trustPc, activeRecoveries>>
    BY DEF TrustAdd
  <1>2. Unrevoked \subseteq Unrevoked' /\ p \in Unrevoked'
        /\ Unrevoked \cup {Garbage} \subseteq Unrevoked' \cup {Garbage}
    BY <1>1 DEF Unrevoked
  <1>3. trustList \in Seq(Unrevoked') /\ (trustFile = NoFile \/ trustFile \in Seq(Unrevoked' \cup {Garbage}))
    BY <1>2, SeqMonotonic, Zenon DEF TrustInv
  <1>4. trustList' \in Seq(Unrevoked')
    BY <1>1, <1>2, <1>3
  <1> QED
    BY <1>1, <1>3, <1>4 DEF TrustInv

(* Storing the list revokes everybody who is not in it.                    *)
LEMMA TrustFlushKeeps ==
    ASSUME TrustInv, TrustFlush
    PROVE  TrustInv'
  <1>1. /\ trustPc' = "idle" /\ trustFile' = <<>> \o trustList /\ trustList' = trustList
        /\ activeRecoveries' = activeRecoveries /\ revoked' = {p \in TrustPeers : ~isTrusted(p)}
    BY DEF TrustFlush, TrustInv
  <1>2. ASSUME NEW i \in 1 .. Len(trustList) PROVE trustList[i] \in Unrevoked'
    <2>1. trustList[i] \in TrustPeers \cup {ZeroLine}
      BY DEF TrustInv, Unrevoked
    <2>2. isTrusted(trustList[i])
      BY DEF isTrusted, Contains
    <2> QED
      BY <1>1, <2>1, <2>2 DEF Unrevoked
  <1>3. trustList \in Seq(Unrevoked')
    <2>1. trustList \in Seq(Unrevoked)
      BY DEF TrustInv
    <2> QED
      BY <1>2, <2>1, SeqOver
  <1>4. trustFile' \in Seq(Unrevoked' \cup {Garbage})
    <2>1. <<>> \o trustList = trustList
      BY <1>3
    <2>2. trustList \in Seq(Unrevoked' \cup {Garbage})
      BY <1>3, SeqMonotonic
    <2> QED
      BY <1>1, <2>1, <2>2
  <1> QED
    BY <1>1, <1>3, <1>4 DEF TrustInv

(* The steps that revoke nobody and pardon nobody.                         *)
LEMMA TrustKeeps ==
    ASSUME TrustInv, revoked' = revoked,
           trustList' \in Seq(Unrevoked),
           trustFile' = NoFile \/ trustFile' \in Seq(Unrevoked \cup {Garbage}),
           trustPc' \in {"idle", "flush"}, trustPc' = "flush" => trustFile' = <<>>,
           activeRecoveries' \subseteq TrustPeers
    PROVE  TrustInv'
  <1>1. Unrevoked' = Unrevoked
    BY DEF Unrevoked
  <1> QED
    BY <1>1 DEF TrustInv

(* Reading the file, with or without repair, brings nobody back.           *)
LEMMA TrustRecoverKeeps ==
    ASSUME TrustInv, TrustLoad \/ TrustRecover
    PROVE  TrustInv'
  <1>1. /\ trustFile \in Seq(Unrevoked \cup {Garbage}) /\ trustPc = "idle"
        /\ UNCHANGED <<activeRecoveries, revoked>> /\ activeRecoveries \subseteq TrustPeers
    BY DEF TrustInv, TrustLoad, TrustRecover
  <1>2. ReadableLines(trustFile) \in Seq(Unrevoked)
    BY <1>1, ReadableIs
  <1>3. CASE TrustLoad
    <2>1. trustList' = ReadableLines(trustFile) /\ UNCHANGED <<trustFile, trustPc>>
      BY <1>3 DEF TrustLoad
    <2>2. trustPc' # "flush"
      BY <1>1, <2>1
    <2> QED
      BY <2>2, <1>1, <1>2, <2>1, TrustKeeps
  <1>4. CASE TrustRecover
    <2>1. trustList' = Without(ReadableLines(trustFile), ZeroLine)
      BY <1>4 DEF TrustRecover
    <2>2. trustList' \in Seq(Unrevoked)
      <3>1. Without(ReadableLines(trustFile), ZeroLine) \in Seq(Unrevoked \ {ZeroLine})
        BY <1>2, WithoutIs
      <3>2. Unrevoked \ {ZeroLine} \subseteq Unrevoked
        OBVIOUS
      <3> QED
        BY <2>1, <3>1, <3>2, SeqMonotonic, Zenon
    <2>3. (trustFile' = <<>> /\ trustPc' = "flush") \/ UNCHANGED <<trustFile, trustPc>>
      BY <1>4, Zenon DEF TrustRecover, TrustOpen
    <2>4. trustFile' \in Seq(Unrevoked \cup {Garbage}) /\ trustPc' \in {"idle", "flush"}
      <3>1. <<>> \in Seq(Unrevoked \cup {Garbage})
        OBVIOUS
      <3> QED
        BY <1>1, <2>3, <3>1, Zenon
    <2>5. trustPc' = "flush" => trustFile' = <<>>
      BY <1>1, <2>3
    <2> QED
      BY <1>1, <2>2, <2>4, <2>5, TrustKeeps
  <1> QED
    BY <1>3, <1>4

(* Every operation, crash and damage keeps the invariant.                  *)
LEMMA TrustStep ==
    ASSUME TrustInv, TrustNext
    PROVE  TrustInv'
  <1>t. /\ trustList \in Seq(Unrevoked) /\ trustPc \in {"idle", "flush"}
        /\ trustPc = "flush" => trustFile = <<>>
        /\ trustFile = NoFile \/ trustFile \in Seq(Unrevoked \cup {Garbage})
        /\ activeRecoveries \subseteq TrustPeers
    BY DEF TrustInv
  <1>1. ASSUME NEW p \in TrustPeers, TrustAdd(p)
        PROVE  TrustInv'
    BY <1>1, TrustAddKeeps
  <1>2. ASSUME NEW p \in TrustPeers, TrustRemove(p)
        PROVE  TrustInv'
    <2>1. Without(trustList, p) \in Seq(Unrevoked \ {p}) /\ Unrevoked \ {p} \subseteq Unrevoked
      BY <1>t, WithoutIs
    <2>2. Without(trustList, p) \in Seq(Unrevoked)
      BY <2>1, SeqMonotonic, Zenon
    <2> QED
      BY <1>2, <1>t, <2>2, TrustKeeps DEF TrustRemove
  <1>3. ASSUME NEW p \in TrustPeers, InitiateRecovery(p) \/ RecoveryRefused(p) \/ HandleRecoveryResponse(p)
        PROVE  TrustInv'
    <2>1. activeRecoveries' \subseteq TrustPeers /\ UNCHANGED <<trustList, trustFile, trustPc, revoked>>
      BY <1>3, <1>t DEF InitiateRecovery, RecoveryRefused, HandleRecoveryResponse
    <2> QED
      BY <1>t, <2>1, TrustKeeps
  <1>4. CASE TrustPersist
    <2>1. /\ (trustFile' = <<>> /\ trustPc' = "flush") \/ UNCHANGED <<trustFile, trustPc>>
          /\ UNCHANGED <<trustList, activeRecoveries, revoked>>
      BY <1>4 DEF TrustPersist, TrustOpen
    <2>2. <<>> \in Seq(Unrevoked \cup {Garbage})
      OBVIOUS
    <2> QED
      BY <1>t, <2>1, <2>2, TrustKeeps
  <1>5. CASE TrustFlush
    BY <1>5, TrustFlushKeeps
  <1>6. CASE TrustFlushFails
    <2>1. PICK n \in 0 .. Len(trustList) - 1 : trustFile' = <<>> \o SubSeq(trustList, 1, n)
      BY <1>6, <1>t DEF TrustFlushFails
    <2>2. n \in 0 .. Len(trustList)
      BY <1>t
    <2>3. SubSeq(trustList, 1, n) \in Seq(Unrevoked)
      BY <1>t, <2>2, PrefixOver
    <2>4. trustFile' \in Seq(Unrevoked \cup {Garbage})
      <3>1. <<>> \o SubSeq(trustList, 1, n) = SubSeq(trustList, 1, n)
        BY <2>3
      <3>2. SubSeq(trustList, 1, n) \in Seq(Unrevoked \cup {Garbage})
        BY <2>3, SeqMonotonic
      <3> QED
        BY <2>1, <3>1, <3>2
    <2> QED
      BY <1>6, <1>t, <2>4, TrustKeeps DEF TrustFlushFails
  <1>7. CASE TrustLoad \/ TrustRecover
    BY <1>7, TrustRecoverKeeps
  <1>8. CASE TrustRecoverCleared \/ TrustCrash
    <2>1. /\ trustList' = <<>> /\ UNCHANGED <<trustFile, revoked>> /\ trustPc' = "idle"
          /\ activeRecoveries' \subseteq TrustPeers
      BY <1>8, <1>t DEF TrustRecoverCleared, TrustCrash
    <2>2. <<>> \in Seq(Unrevoked)
      OBVIOUS
    <2> QED
      BY <1>t, <2>1, <2>2, TrustKeeps
  <1>9. CASE DamageTrustFile
    <2>1. /\ UNCHANGED <<trustList, trustPc, activeRecoveries, revoked>> /\ trustPc' = "idle"
          /\ trustFile \in Seq(Unrevoked \cup {Garbage})
      BY <1>9, <1>t DEF DamageTrustFile
    <2>2. ASSUME NEW n \in 1 .. Len(trustFile), trustFile' = SubSeq(trustFile, 1, n - 1)
          PROVE  trustFile' \in Seq(Unrevoked \cup {Garbage})
      <3>1. n - 1 \in 0 .. Len(trustFile)
        BY <2>1
      <3> QED
        BY <2>1, <2>2, <3>1, PrefixOver
    <2>3. ASSUME NEW n \in 1 .. Len(trustFile), NEW bad \in {ZeroLine, Garbage},
                 trustFile' = [trustFile EXCEPT ![n] = bad]
          PROVE  trustFile' \in Seq(Unrevoked \cup {Garbage})
      <3>1. bad \in Unrevoked \cup {Garbage}
        BY DEF Unrevoked
      <3> QED
        BY <2>1, <2>3, <3>1, ExceptSeq
    <2>4. trustFile' = NoFile \/ trustFile' \in Seq(Unrevoked \cup {Garbage})
      BY <1>9, <2>2, <2>3 DEF DamageTrustFile
    <2> QED
      BY <1>t, <2>1, <2>4, TrustKeeps
  <1> QED
    BY <1>1, <1>2, <1>3, <1>4, <1>5, <1>6, <1>7, <1>8, <1>9 DEF TrustNext

(* No operation, crash or damage of the file breaks the invariant.         *)
LEMMA TrustInvariant == TrustSpec => []TrustInv
  <1>1. ASSUME TrustInv, UNCHANGED trustVars PROVE TrustInv'
    BY <1>1, Zenon DEF trustVars, TrustInv, Unrevoked
  <1>2. TrustInv /\ [TrustNext]_trustVars => TrustInv'
    BY <1>1, TrustStep
  <1> QED
    BY <1>2, TrustInvInit, PTL DEF TrustSpec

(* A peer whose removal was stored is not trusted again until it is added: *)
(* no load, recovery, failed write, damage or crash brings it back.        *)
THEOREM RevocationSticksHolds == TrustSpec => []RevocationSticks
  <1>1. TrustInv => RevocationSticks
    <2> SUFFICES ASSUME TrustInv, NEW p \in revoked, NEW i \in 1 .. Len(trustList), trustList[i] = p
                 PROVE  FALSE
      BY DEF RevocationSticks, isTrusted, Contains
    <2>1. trustList[i] \in Unrevoked /\ p \in TrustPeers
      BY DEF TrustInv
    <2> QED
      BY <2>1, TrustAssumption DEF Unrevoked
  <1> QED
    BY <1>1, TrustInvariant, PTL

=============================================================================
