--------------------------- MODULE ChannelContract ---------------------------
(***************************************************************************)
(* What a CrossFlow-X single-producer single-consumer channel promises to  *)
(* its two threads, whatever the ring underneath does.                     *)
(*                                                                         *)
(* Items are numbered by the order of their pushes: 0, 1, 2, ...  A push   *)
(* is an interval (BeginPush .. EndPush), a pop and a discard are single   *)
(* steps.  The contract is: an item is received only after its push ended, *)
(* in push order, at most once and complete; an item is discarded only     *)
(* when the push that reuses its place, Capacity items later, has begun.   *)
(***************************************************************************)
EXTENDS Integers

CONSTANTS
    Capacity,    \* number of slots of the ring
    Word,        \* the words a payload is made of
    DropOldest   \* TRUE: tryPushDropOldest feeds the ring; FALSE: tryPush

VARIABLES
    begun,   \* number of pushes that have begun to write
    done,    \* number of pushes that have returned
    next,    \* number of the oldest item that is neither received nor discarded
    out      \* payload the consumer received last

cvars == <<begun, done, next, out>>

(* The payload of item n: every word carries the item's mark. *)
Payload(n) == [k \in Word |-> n + 1]

ContractInit ==
    /\ begun = 0
    /\ done = 0
    /\ next = 0
    /\ out = [k \in Word |-> 0]

(* A lossless channel accepts a push only while it has room. *)
BeginPush ==
    /\ begun = done
    /\ DropOldest \/ begun - next < Capacity
    /\ begun' = begun + 1
    /\ UNCHANGED <<done, next, out>>

EndPush ==
    /\ begun > done
    /\ done' = begun
    /\ UNCHANGED <<begun, next, out>>

(* Items next .. m-1 are given up: the push that overwrites the last of    *)
(* them, number m-1+Capacity, has begun.                                   *)
Discard ==
    /\ \E m \in next + 1 .. begun - Capacity : next' = m
    /\ UNCHANGED <<begun, done, out>>

Receive ==
    /\ next < done
    /\ out' = Payload(next)
    /\ next' = next + 1
    /\ UNCHANGED <<begun, done>>

ContractNext == BeginPush \/ EndPush \/ Discard \/ Receive

ContractSpec == ContractInit /\ [][ContractNext]_cvars

=============================================================================
