----------------------------- MODULE TrustStore -----------------------------
(***************************************************************************)
(* TrustedNodeList (core/s08_pairing) with its file, and                   *)
(* IdentityRecoveryManager (core/s06_identity), which asks it whom to      *)
(* trust.                                                                  *)
(*                                                                         *)
(* The list and the lines of the file are sequences of peers.  A line with *)
(* a null node id or a zero pairing time is ZeroLine; a line load cannot   *)
(* read is Garbage.  persist truncates the file when it opens it and       *)
(* writes when the stream is closed.  Nobody persists on its own: add and  *)
(* remove change the memory only.                                          *)
(***************************************************************************)
EXTENDS Integers, Sequences, SequencesExt

CONSTANTS
    TrustPeers,         \* the node ids of other nodes
    ZeroLine,      \* an entry that recovery removes
    Garbage,       \* a line that cannot be read
    NoFile,        \* there is no file
    MaxTrusted,    \* bound: entries of the list
    TrustFaults    \* TRUE: writes may fail and the file may be damaged

ASSUME TrustAssumption ==
    /\ ZeroLine \notin TrustPeers /\ Garbage \notin TrustPeers /\ ZeroLine # Garbage
    /\ MaxTrusted \in Nat /\ TrustFaults \in BOOLEAN

VARIABLES
    trustList,           \* TrustedNodeList::entries_
    trustFile,         \* the lines of the file, or NoFile
    trustPc,           \* "idle", or "flush": persist has truncated the file
    activeRecoveries,  \* IdentityRecoveryManager::activeRecoveries_
    revoked            \* history: removed, the removal persisted, not added since

trustVars == <<trustList, trustFile, trustPc, activeRecoveries, revoked>>

TrustInit ==
    /\ trustList = <<>> /\ trustFile = NoFile /\ trustPc = "idle"
    /\ activeRecoveries = {} /\ revoked = {}

isTrusted(p) == Contains(trustList, p)

(* The entries of s other than x, in their order. *)
Without(s, x) ==
    LET kept[n \in 0 .. Len(s)] ==
            IF n = 0 THEN <<>> ELSE IF s[n] = x THEN kept[n - 1] ELSE Append(kept[n - 1], s[n])
    IN  kept[Len(s)]

-----------------------------------------------------------------------------
(* TrustedNodeList.                                                        *)

(* An entry of a known peer is replaced in place. *)
TrustAdd(p) ==
    /\ trustPc = "idle" /\ (isTrusted(p) \/ Len(trustList) < MaxTrusted)
    /\ trustList' = IF isTrusted(p) THEN trustList ELSE Append(trustList, p)
    /\ revoked' = revoked \ {p}
    /\ UNCHANGED <<trustFile, trustPc, activeRecoveries>>

TrustRemove(p) ==
    /\ trustPc = "idle"
    /\ trustList' = Without(trustList, p)
    /\ UNCHANGED <<trustFile, trustPc, activeRecoveries, revoked>>

(* Mutant: the file is opened for appending, the old lines stay. *)
TrustOpenAppends ==
    \/ trustFile' = (IF trustFile = NoFile THEN <<>> ELSE trustFile) /\ trustPc' = "flush"
    \/ TrustFaults /\ UNCHANGED <<trustFile, trustPc>>

(* The std::ofstream of persist: an existing file is truncated. *)
TrustOpen ==
    \/ trustFile' = <<>> /\ trustPc' = "flush"
    \/ TrustFaults /\ UNCHANGED <<trustFile, trustPc>>

TrustPersist ==
    /\ trustPc = "idle"
    /\ TrustOpen
    /\ UNCHANGED <<trustList, activeRecoveries, revoked>>

(* The lines follow what the file holds since it was opened. *)
TrustFlush ==
    /\ trustPc = "flush"
    /\ trustPc' = "idle" /\ trustFile' = trustFile \o trustList
    /\ revoked' = {p \in TrustPeers : ~isTrusted(p)}
    /\ UNCHANGED <<trustList, activeRecoveries>>

(* The state of the stream is not looked at: a part of the lines is there. *)
TrustFlushFails ==
    /\ TrustFaults /\ trustPc = "flush"
    /\ trustPc' = "idle"
    /\ \E n \in 0 .. Len(trustList) - 1 : trustFile' = trustFile \o SubSeq(trustList, 1, n)
    /\ UNCHANGED <<trustList, activeRecoveries, revoked>>

(* load stops silently at the first line it cannot read. *)
ReadableLines(f) ==
    SubSeq(f, 1, (IF Contains(f, Garbage) THEN SelectInSeq(f, LAMBDA l : l = Garbage) ELSE Len(f) + 1) - 1)

TrustLoad ==
    /\ trustPc = "idle" /\ trustFile # NoFile
    /\ trustList' = ReadableLines(trustFile)
    /\ UNCHANGED <<trustFile, trustPc, activeRecoveries, revoked>>

(* recoverFromCorruption without a file: the list is cleared. *)
TrustRecoverCleared ==
    /\ trustPc = "idle" /\ trustFile = NoFile
    /\ trustList' = <<>>
    /\ UNCHANGED <<trustFile, trustPc, activeRecoveries, revoked>>

(* Entries without a node id or a pairing time are removed, and only then  *)
(* is the list stored; what follows an unreadable line stays in the file.  *)
TrustRecover ==
    /\ trustPc = "idle" /\ trustFile # NoFile
    /\ LET read == ReadableLines(trustFile) IN
       /\ trustList' = Without(read, ZeroLine)
       /\ IF Contains(read, ZeroLine) THEN TrustOpen ELSE UNCHANGED <<trustFile, trustPc>>
    /\ UNCHANGED <<activeRecoveries, revoked>>

-----------------------------------------------------------------------------
(* IdentityRecoveryManager.                                                *)

(* Only a trusted peer; a recovery under way is left as it is. *)
InitiateRecovery(p) ==
    /\ trustPc = "idle" /\ isTrusted(p) /\ p \notin activeRecoveries
    /\ activeRecoveries' = activeRecoveries \cup {p}
    /\ UNCHANGED <<trustList, trustFile, trustPc, revoked>>

(* A refusal, or cancelRecovery. *)
RecoveryRefused(p) ==
    /\ trustPc = "idle"
    /\ activeRecoveries' = activeRecoveries \ {p}
    /\ UNCHANGED <<trustList, trustFile, trustPc, revoked>>

(* An answer with an identity is handed to the caller; whether the peer is *)
(* still trusted is not asked again.  An answer without one, or to no      *)
(* recovery, changes nothing.                                              *)
HandleRecoveryResponse(p) ==
    /\ trustPc = "idle" /\ p \in activeRecoveries
    /\ activeRecoveries' = activeRecoveries \ {p}
    /\ UNCHANGED <<trustList, trustFile, trustPc, revoked>>

-----------------------------------------------------------------------------
(* The environment.                                                        *)

TrustCrash ==
    /\ trustList' = <<>> /\ trustPc' = "idle" /\ activeRecoveries' = {}
    /\ UNCHANGED <<trustFile, revoked>>

(* The file is lost or cut short, or a line of it is zeroed or garbled. *)
DamageTrustFile ==
    /\ TrustFaults /\ trustPc = "idle" /\ trustFile # NoFile
    /\ \/ trustFile' = NoFile
       \/ \E n \in 1 .. Len(trustFile) :
             \/ trustFile' = SubSeq(trustFile, 1, n - 1)
             \/ \E bad \in {ZeroLine, Garbage} : trustFile' = [trustFile EXCEPT ![n] = bad]
    /\ UNCHANGED <<trustList, trustPc, activeRecoveries, revoked>>

TrustNext ==
    \/ \E p \in TrustPeers : \/ TrustAdd(p) \/ TrustRemove(p)
                        \/ InitiateRecovery(p) \/ RecoveryRefused(p) \/ HandleRecoveryResponse(p)
    \/ TrustPersist \/ TrustFlush \/ TrustFlushFails \/ TrustLoad
    \/ TrustRecoverCleared \/ TrustRecover \/ TrustCrash \/ DamageTrustFile

TrustSpec == TrustInit /\ [][TrustNext]_trustVars

-----------------------------------------------------------------------------
(* Properties.                                                             *)

(* Every variable has its type. *)
TrustTypeOK ==
    /\ trustList \in Seq(TrustPeers \cup {ZeroLine})
    /\ trustFile = NoFile \/ trustFile \in Seq(TrustPeers \cup {ZeroLine, Garbage})
    /\ trustPc \in {"idle", "flush"}
    /\ activeRecoveries \subseteq TrustPeers /\ revoked \subseteq TrustPeers

(* A peer whose removal was persisted is never trusted again until it is   *)
(* added again: not by a load, not by the recovery of a damaged file, not  *)
(* after crashes or failed writes.                                         *)
RevocationSticks == \A p \in revoked : ~isTrusted(p)

=============================================================================
