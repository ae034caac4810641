---------------------------- MODULE SessionFence ----------------------------
(***************************************************************************)
(* SessionFenceImpl (core/s06_identity): a message carries the fence of    *)
(* its session (IdentityRecoveryManager echoes the fence of the request),  *)
(* and checkIncoming decides whether it belongs to the session under way.  *)
(* Messages are delayed, repeated and overtaken at will: `mail' only       *)
(* grows.  A restarted process builds a new fence from constants, not from *)
(* the stored epoch.                                                       *)
(***************************************************************************)
EXTENDS Integers, FiniteSets

CONSTANTS
    Self, Other,    \* the local node and another one
    Nobody,         \* the null node id
    MaxFenceEpoch,  \* bound: epochs of the fence
    MaxLives,       \* bound: starts of the process
    MaxMail         \* bound: messages in flight

ASSUME FenceAssumption ==
    /\ Self # Other /\ Nobody \notin {Self, Other}
    /\ MaxFenceEpoch \in Nat \ {0} /\ MaxLives \in Nat \ {0} /\ MaxMail \in Nat

VARIABLES
    fence,     \* SessionFenceImpl::fence_ of the local node
    mail,      \* fences in flight, with the session and the life they were stamped in
    session,   \* history: the changes of the fence in this life
    life       \* history: the starts of the process

fenceVars == <<fence, mail, session, life>>

(* SessionFence::newSession; instanceId.isActive is never made false. *)
NewSession(n) == [nodeId |-> n, epoch |-> 1, createdAt |-> 0]

FenceInit == fence = NewSession(Self) /\ mail = {} /\ session = 1 /\ life = 1

(* Mutant: the epoch is not compared. *)
VerdictIgnoresEpoch(m) ==
    CASE m.nodeId \in {Nobody, Other} -> "UnknownNode"
      [] m.createdAt # fence.createdAt -> "InstanceConflict"
      [] OTHER -> "Accept"

(* checkIncoming. *)
CheckIncoming(m) ==
    CASE m.nodeId # fence.nodeId -> "UnknownNode"
      [] m.nodeId = fence.nodeId /\ m.createdAt # fence.createdAt -> "InstanceConflict"
      [] m.nodeId = fence.nodeId /\ m.createdAt = fence.createdAt /\ m.epoch < fence.epoch -> "StaleEpoch"
      [] OTHER -> "Accept"

StartNewSession ==
    /\ fence.epoch < MaxFenceEpoch
    /\ fence' = [fence EXCEPT !.epoch = @ + 1, !.createdAt = @ + 1]
    /\ session' = session + 1
    /\ UNCHANGED <<mail, life>>

(* updateEpoch refuses an epoch that is not newer. *)
UpdateEpoch ==
    /\ \E e \in fence.epoch + 1 .. MaxFenceEpoch : fence' = [fence EXCEPT !.epoch = e]
    /\ session' = session + 1
    /\ UNCHANGED <<mail, life>>

(* A message is stamped with the current fence, or comes from elsewhere. *)
Stamp ==
    /\ Cardinality(mail) < MaxMail
    /\ \E n \in {Self, Other, Nobody} :
          mail' = mail \cup {[nodeId |-> n, epoch |-> fence.epoch, createdAt |-> fence.createdAt,
                              session |-> session, life |-> life]}
    /\ UNCHANGED <<fence, session, life>>

Restart ==
    /\ life < MaxLives
    /\ fence' = NewSession(Self) /\ session' = 1 /\ life' = life + 1
    /\ UNCHANGED mail

FenceNext == StartNewSession \/ UpdateEpoch \/ Stamp \/ Restart

FenceSpec == FenceInit /\ [][FenceNext]_fenceVars

-----------------------------------------------------------------------------
(* The fence separates sessions: of the messages stamped since the process *)
(* started, however late they arrive, checkIncoming accepts those of the   *)
(* session under way and no other.                                         *)
FenceSeparates ==
    \A m \in mail : m.life = life =>
        ((CheckIncoming(m) = "Accept") <=> (m.nodeId = Self /\ m.session = session))

=============================================================================
