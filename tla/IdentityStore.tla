--------------------------- MODULE IdentityStore ---------------------------
(***************************************************************************)
(* NodeIdentityManager (core/s06_identity): the node's identity in memory  *)
(* and in its file, through crashes, failed writes and damaged files.      *)
(*                                                                         *)
(* A file is Absent or has `lines' readable lines: the node id, the epoch  *)
(* and the topology.  A topology name with a blank in it, or an empty one, *)
(* is written as a line that load cannot read back.  persist truncates the *)
(* file when it opens it and the text reaches the disk when the stream is  *)
(* closed, so it is two steps.  Everything else is one call of a           *)
(* single-threaded object.                                                 *)
(***************************************************************************)
EXTENDS Integers

CONSTANTS
    MaxIds,          \* bound: node ids generated, NodeId::generate never repeats one
    MaxEpoch,        \* bound: session epochs
    PlainTopologies, \* topology names that are one word
    OddTopologies,   \* names that do not survive the file
    NoTopology,      \* no topology membership
    NoIdentity,      \* identity_ is empty
    Absent,          \* there is no file
    DiskFaults       \* TRUE: writes may fail and the file may be damaged

ASSUME IdentityAssumption ==
    /\ MaxIds \in Nat \ {0} /\ MaxEpoch \in Nat \ {0}
    /\ DiskFaults \in BOOLEAN
    /\ PlainTopologies \cap OddTopologies = {}
    /\ NoTopology \notin PlainTopologies \cup OddTopologies

VARIABLES
    identity,   \* NodeIdentityManager::identity_
    idFile,     \* the file at persistPath_
    idPc,       \* "idle", or "flush" / "repair": persist / recovery has truncated the file
    minted,     \* history: the number of node ids generated so far
    storedId,   \* history: the node id of the last completed persist, 0 before it
    settled     \* history: a recovery has ended and nothing has changed since

idVars == <<identity, idFile, idPc, minted, storedId, settled>>

NullId == 0
Topologies == PlainTopologies \cup OddTopologies \cup {NoTopology}
Attributes == {"publicKey", "capabilities", "endpointAddress"}

(* What is not in the file (key, capabilities, addresses) is the set of    *)
(* the attributes that are present.                                        *)
NodeIdentity == [nodeId : 0 .. MaxIds, epoch : 0 .. MaxEpoch, topology : Topologies,
                 attributes : SUBSET Attributes]

IdFiles == [lines : 0 .. 3, nodeId : 0 .. MaxIds, epoch : 0 .. MaxEpoch, topology : Topologies]

ASSUME IdentityValues == NoIdentity \notin NodeIdentity /\ Absent \notin IdFiles

(* The first n lines of a file. *)
Lines(n, id, epoch, topology) ==
    [lines |-> n, nodeId |-> IF n >= 1 THEN id ELSE NullId,
     epoch |-> IF n >= 2 THEN epoch ELSE 0, topology |-> IF n >= 3 THEN topology ELSE NoTopology]

IdText(i) == Lines(3, i.nodeId, i.epoch, i.topology)
EmptyFile == Lines(0, NullId, 0, NoTopology)

IdInit ==
    /\ identity = NoIdentity /\ idFile = Absent /\ idPc = "idle"
    /\ minted = 0 /\ storedId = NullId /\ settled = FALSE

-----------------------------------------------------------------------------
(* The operations on the identity in memory.                               *)

Become(i) ==
    /\ identity' = i /\ settled' = FALSE
    /\ UNCHANGED <<idFile, idPc, minted, storedId>>

(* A new identity, or the attributes of the present one given again.  An   *)
(* identity that is not valid or has another node id is refused.           *)
Initialize ==
    /\ idPc = "idle"
    /\ IF identity = NoIdentity THEN minted < MaxIds /\ minted' = minted + 1
                                ELSE UNCHANGED minted
    /\ identity' = [nodeId |-> IF identity = NoIdentity THEN minted + 1 ELSE identity.nodeId,
                    epoch |-> 0, topology |-> NoTopology, attributes |-> {"capabilities"}]
    /\ settled' = FALSE
    /\ UNCHANGED <<idFile, idPc, storedId>>

(* updatePublicKey, updateCapabilities, addEndpointAddress. *)
AddAttribute(a) ==
    /\ idPc = "idle" /\ identity # NoIdentity
    /\ Become([identity EXCEPT !.attributes = @ \cup {a}])

RemoveEndpointAddress ==
    /\ idPc = "idle" /\ identity # NoIdentity
    /\ Become([identity EXCEPT !.attributes = @ \ {"endpointAddress"}])

(* joinTopology, or leaveTopology with NoTopology. *)
JoinTopology(t) ==
    /\ idPc = "idle" /\ identity # NoIdentity
    /\ Become([identity EXCEPT !.topology = t])

IncrementEpoch ==
    /\ idPc = "idle" /\ identity # NoIdentity /\ identity.epoch < MaxEpoch
    /\ Become([identity EXCEPT !.epoch = @ + 1])

-----------------------------------------------------------------------------
(* The file.                                                               *)

(* load returns an error. *)
LoadFails(f) ==
    \/ f = Absent
    \/ f # Absent /\ (f.lines < 3 \/ f.nodeId = NullId \/ f.topology \in OddTopologies)

(* What load leaves in memory: node id and epoch are assigned before the   *)
(* topology line is read, so that they stay assigned when it fails.        *)
Loaded(f, i) ==
    IF f = Absent \/ (f # Absent /\ (f.lines < 3 \/ f.nodeId = NullId)) THEN i
    ELSE [nodeId |-> f.nodeId, epoch |-> f.epoch,
          topology |-> IF f.topology \notin OddTopologies THEN f.topology
                       ELSE IF i = NoIdentity THEN NoTopology ELSE i.topology,
          attributes |-> IF i = NoIdentity THEN {} ELSE i.attributes]

(* load, and recoverNodeId, which only adds a test load has already made. *)
Load ==
    /\ idPc = "idle"
    /\ Become(Loaded(idFile, identity))

(* Opening the stream for writing truncates the file; it may fail. *)
OpenForWriting(pc) ==
    \/ idFile' = EmptyFile /\ idPc' = pc
    \/ DiskFaults /\ UNCHANGED <<idFile, idPc>>

Persist ==
    /\ idPc = "idle" /\ identity # NoIdentity
    /\ OpenForWriting("flush")
    /\ settled' = FALSE
    /\ UNCHANGED <<identity, minted, storedId>>

(* The stream is closed and the text written. *)
Flush ==
    /\ idPc # "idle"
    /\ idPc' = "idle" /\ idFile' = IdText(identity)
    /\ storedId' = identity.nodeId /\ settled' = (idPc = "repair")
    /\ UNCHANGED <<identity, minted>>

(* Nothing looks at the state of the stream after the writes. *)
FlushFails ==
    /\ DiskFaults /\ idPc # "idle"
    /\ idPc' = "idle" /\ settled' = FALSE
    /\ \E n \in 0 .. 2 : idFile' = Lines(n, identity.nodeId, identity.epoch, identity.topology)
    /\ UNCHANGED <<identity, minted, storedId>>

(* recoverFromCorruption when load fails: everything is new, and stored. *)
RecoverAnew ==
    /\ idPc = "idle" /\ LoadFails(idFile) /\ minted < MaxIds
    /\ identity' = [nodeId |-> minted + 1, epoch |-> 1, topology |-> NoTopology,
                    attributes |-> IF identity = NoIdentity THEN {} ELSE identity.attributes]
    /\ minted' = minted + 1
    /\ OpenForWriting("repair")
    /\ settled' = FALSE /\ UNCHANGED storedId

(* Mutant: the repaired epoch is not stored. *)
RecoverLoadedUnsaved ==
    LET i == Loaded(idFile, identity) IN
    /\ idPc = "idle" /\ ~LoadFails(idFile)
    /\ identity' = [i EXCEPT !.epoch = IF @ = 0 THEN 1 ELSE @]
    /\ settled' = TRUE /\ UNCHANGED <<idFile, idPc, minted, storedId>>

(* recoverFromCorruption when load succeeds: an epoch 0 becomes 1 and is   *)
(* stored.  A loaded node id is never null and a loaded topology name      *)
(* never empty, so the other repairs of this path are not reached.         *)
RecoverLoaded ==
    LET i == Loaded(idFile, identity) IN
    /\ idPc = "idle" /\ ~LoadFails(idFile)
    /\ identity' = [i EXCEPT !.epoch = IF @ = 0 THEN 1 ELSE @]
    /\ IF i.epoch = 0 THEN OpenForWriting("repair") /\ settled' = FALSE
                      ELSE UNCHANGED <<idFile, idPc>> /\ settled' = TRUE
    /\ UNCHANGED <<minted, storedId>>

-----------------------------------------------------------------------------
(* The environment.                                                        *)

(* The process ends, perhaps between the truncation and the writing. *)
Crash ==
    /\ identity # NoIdentity
    /\ identity' = NoIdentity /\ idPc' = "idle" /\ settled' = FALSE
    /\ UNCHANGED <<idFile, minted, storedId>>

(* A file lost or cut short, its node id or its epoch zero, its topology   *)
(* unreadable: the damage the tests of recoverFromCorruption make.         *)
DamageFile ==
    /\ DiskFaults /\ idPc = "idle" /\ idFile # Absent
    /\ \/ idFile' = Absent
       \/ \E n \in 0 .. 2 : idFile' = Lines(n, idFile.nodeId, idFile.epoch, idFile.topology)
       \/ idFile.lines >= 1 /\ idFile' = [idFile EXCEPT !.nodeId = NullId]
       \/ idFile.lines >= 2 /\ idFile' = [idFile EXCEPT !.epoch = 0]
       \/ \E t \in OddTopologies : idFile.lines = 3 /\ idFile' = [idFile EXCEPT !.topology = t]
    /\ settled' = FALSE
    /\ UNCHANGED <<identity, idPc, minted, storedId>>

IdNext ==
    \/ Initialize \/ RemoveEndpointAddress \/ IncrementEpoch
    \/ \E a \in Attributes : AddAttribute(a)
    \/ \E t \in Topologies : JoinTopology(t)
    \/ Load \/ Persist \/ Flush \/ FlushFails \/ RecoverAnew \/ RecoverLoaded
    \/ Crash \/ DamageFile

IdSpec == IdInit /\ [][IdNext]_idVars

-----------------------------------------------------------------------------
(* Properties.                                                             *)

(* Every variable has its type; a truncated file is empty until it is      *)
(* written.                                                                *)
IdTypeOK ==
    /\ identity \in NodeIdentity \cup {NoIdentity}
    /\ idFile \in IdFiles \cup {Absent}
    /\ idPc \in {"idle", "flush", "repair"}
    /\ minted \in 0 .. MaxIds /\ storedId \in 0 .. MaxIds /\ settled \in BOOLEAN
    /\ idPc # "idle" => identity # NoIdentity /\ idFile = EmptyFile

(* recoverFromCorruption repairs for good: when it has ended and its       *)
(* writes have succeeded, whatever damage it met, the next start loads     *)
(* without an error the very node id, epoch and topology that it left in   *)
(* memory, and they are valid.                                             *)
RecoveryIsDurable ==
    settled =>
        /\ ~LoadFails(idFile)
        /\ LET i == Loaded(idFile, NoIdentity) IN
           /\ i.nodeId = identity.nodeId /\ i.epoch = identity.epoch
           /\ i.topology = identity.topology
           /\ i.nodeId # NullId /\ i.epoch # 0

(* The specification of the node id: once written to the local store it is *)
(* not lost by a crash, a power failure or a restart, so that a start of   *)
(* the node finds it in the file.                                          *)
NodeIdSurvives ==
    (storedId # NullId /\ idPc = "idle") => ~LoadFails(idFile) /\ idFile.nodeId = storedId

=============================================================================
