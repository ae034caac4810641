------------------------------ MODULE SpscRing ------------------------------
(***************************************************************************)
(* platform/common/spsc_ring_buffer.hpp, spsc_slot.hpp and                 *)
(* atomic_payload.hpp: the wait-free ring between the event-tap callback   *)
(* (producer) and the capture thread (consumer).                           *)
(*                                                                         *)
(* One action per access to a shared atomic, so that the threads           *)
(* interleave between any two of them.  The payload is a vector of words   *)
(* stored and loaded one at a time; item n (the n-th push, from 0) writes  *)
(* the mark n+1 into each of its words, so that a mixture of two items is  *)
(* visible.  The uint64 cursors do not wrap: 2^64 pushes are out of reach. *)
(***************************************************************************)
EXTENDS Integers

CONSTANTS
    Capacity,      \* slots (SPSC_DATA_CAPACITY, SPSC_STATE_CAPACITY)
    WordCount,     \* AtomicPayload<T>::N
    DropOldest,    \* TRUE: the data ring (tryPushDropOldest); FALSE: the state ring (tryPush)
    LoadsInOrder,  \* TRUE: the CPU performs loads in program order (x86-64);
                   \* FALSE: relaxed loads may be delayed past later acquire loads (arm64)
    MaxPush        \* bound: number of pushes

ASSUME RingAssumption ==
    /\ Capacity \in Nat \ {0}
    /\ WordCount \in Nat \ {0}
    /\ DropOldest \in BOOLEAN
    /\ LoadsInOrder \in BOOLEAN
    /\ MaxPush \in Nat

SlotIndex == 0 .. Capacity - 1
Word == 0 .. WordCount - 1

VARIABLES
    head, tail, cumulativeDropCount,   \* the ring's atomics
    seq, writeVersion, words,          \* per slot: Slot<T>
    ppc, stored, pushResult,           \* producer: place, words stored, last result
    cpc, ct, h, v1, s1, s2,            \* consumer: place and locals of tryPop
    loaded, item,                      \* consumer: words loaded so far, their values
    out                                \* consumer: payload last returned by tryPop

slotVars == <<seq, writeVersion, words>>
prodVars == <<head, cumulativeDropCount, slotVars, ppc, stored, pushResult>>
consVars == <<tail, cpc, ct, h, v1, s1, s2, loaded, item, out>>
vars == <<prodVars, consVars>>

(* buffer_[n % Capacity] *)
SlotOf(n) == n % Capacity

Init ==
    /\ head = 0 /\ tail = 0 /\ cumulativeDropCount = 0
    /\ seq = [i \in SlotIndex |-> i]
    /\ writeVersion = [i \in SlotIndex |-> 0]
    /\ words = [i \in SlotIndex |-> [k \in Word |-> 0]]
    /\ ppc = "idle" /\ stored = 0 /\ pushResult = TRUE
    /\ cpc = "idle" /\ ct = 0 /\ h = 0 /\ v1 = 0 /\ s1 = 0 /\ s2 = 0
    /\ loaded = {} /\ item = [k \in Word |-> 0]
    /\ out = [k \in Word |-> 0]

-----------------------------------------------------------------------------
(* Producer: tryPush and tryPushDropOldest.  Only the producer writes head *)
(* so its local h is head itself until the final store.                    *)

(* tryPush finds the ring full: h - ct == Capacity. *)
PushFull ==
    /\ ppc = "idle" /\ head < MaxPush
    /\ ~DropOldest
    /\ head - tail = Capacity
    /\ pushResult' = FALSE
    /\ UNCHANGED <<head, cumulativeDropCount, slotVars, ppc, stored, consVars>>

(* Mutant: tryPush does not look at the tail. *)
PushCallAlways ==
    /\ ppc = "idle" /\ head < MaxPush
    /\ ppc' = "open"
    /\ UNCHANGED <<head, cumulativeDropCount, slotVars, stored, pushResult, consVars>>

(* The call is entered; tryPush has read a tail that leaves room. *)
PushCall ==
    /\ ppc = "idle" /\ head < MaxPush
    /\ DropOldest \/ head - tail # Capacity
    /\ ppc' = "open"
    /\ UNCHANGED <<head, cumulativeDropCount, slotVars, stored, pushResult, consVars>>

(* writeVersion.fetch_add(1): odd while the slot is being written. *)
PushOpen ==
    /\ ppc = "open"
    /\ writeVersion' = [writeVersion EXCEPT ![SlotOf(head)] = @ + 1]
    /\ stored' = 0
    /\ ppc' = "words"
    /\ UNCHANGED <<head, cumulativeDropCount, seq, words, pushResult, consVars>>

(* AtomicPayload::store, one word. *)
PushWord ==
    /\ ppc = "words"
    /\ words' = [words EXCEPT ![SlotOf(head)][stored] = head + 1]
    /\ stored' = stored + 1
    /\ ppc' = IF stored + 1 = WordCount THEN "seq" ELSE "words"
    /\ UNCHANGED <<head, cumulativeDropCount, seq, writeVersion, pushResult, consVars>>

(* Mutant: the epoch of the item before. *)
PushSeqOld ==
    /\ ppc = "seq"
    /\ seq' = [seq EXCEPT ![SlotOf(head)] = head]
    /\ ppc' = "close"
    /\ UNCHANGED <<head, cumulativeDropCount, writeVersion, words, stored, pushResult, consVars>>

(* seq.store(h + 1): the epoch of the item now in the slot. *)
PushSeq ==
    /\ ppc = "seq"
    /\ seq' = [seq EXCEPT ![SlotOf(head)] = head + 1]
    /\ ppc' = "close"
    /\ UNCHANGED <<head, cumulativeDropCount, writeVersion, words, stored, pushResult, consVars>>

(* The second writeVersion.fetch_add(1): even again, the slot is at rest. *)
PushClose ==
    /\ ppc = "close"
    /\ writeVersion' = [writeVersion EXCEPT ![SlotOf(head)] = @ + 1]
    /\ ppc' = "head"
    /\ UNCHANGED <<head, cumulativeDropCount, seq, words, stored, pushResult, consVars>>

(* head_.store(h + 1): tryPush returns true, tryPushDropOldest goes on. *)
PushHead ==
    /\ ppc = "head"
    /\ head' = head + 1
    /\ ppc' = IF DropOldest THEN "count" ELSE "idle"
    /\ pushResult' = TRUE
    /\ UNCHANGED <<cumulativeDropCount, slotVars, stored, consVars>>

(* Mutant: an item overwritten in a ring that is just full is not counted. *)
PushCountLate ==
    /\ ppc = "count"
    /\ cumulativeDropCount' = IF head - 1 - tail > Capacity
                              THEN cumulativeDropCount + 1
                              ELSE cumulativeDropCount
    /\ ppc' = "idle"
    /\ UNCHANGED <<head, slotVars, stored, pushResult, consVars>>

(* The drop statistic, from a tail read after the item was published. *)
PushCount ==
    /\ ppc = "count"
    /\ cumulativeDropCount' = IF head - 1 - tail >= Capacity
                              THEN cumulativeDropCount + 1
                              ELSE cumulativeDropCount
    /\ ppc' = "idle"
    /\ UNCHANGED <<head, slotVars, stored, pushResult, consVars>>

Producer == \/ PushFull \/ PushCall \/ PushOpen \/ PushWord
            \/ PushSeq \/ PushClose \/ PushHead \/ PushCount

-----------------------------------------------------------------------------
(* Consumer: tryPop.                                                       *)

(* Mutant: the boundary is one item too far. *)
LogicalDropBoundaryPast(t, hd) ==
    LET hMinusCap == IF hd > Capacity THEN hd - Capacity + 1 ELSE 0
    IN  IF t > hMinusCap THEN t ELSE hMinusCap

(* max(t, hd - Capacity), with the code's guard against unsigned wrap. *)
LogicalDropBoundary(t, hd) ==
    LET hMinusCap == IF hd > Capacity THEN hd - Capacity ELSE 0
    IN  IF t > hMinusCap THEN t ELSE hMinusCap

(* Mutant: the last item counts as an empty ring. *)
PopLoadButLast ==
    /\ cpc \in {"idle", "retry"}
    /\ ct' = tail
    /\ h' = head
    /\ cpc' = IF tail < LogicalDropBoundary(tail, head) THEN "align"
              ELSE IF tail + 1 >= head THEN "idle" ELSE "ver1"
    /\ UNCHANGED <<tail, v1, s1, s2, loaded, item, out, prodVars>>

(* Top of the loop: read tail and head, decide whether to align. *)
PopLoad ==
    /\ cpc \in {"idle", "retry"}
    /\ ct' = tail
    /\ h' = head
    /\ cpc' = IF tail < LogicalDropBoundary(tail, head) THEN "align"
              ELSE IF tail >= head THEN "idle" ELSE "ver1"
    /\ UNCHANGED <<tail, v1, s1, s2, loaded, item, out, prodVars>>

(* tail_.store(logicalDropBoundary): everything older is given up at once. *)
PopAlign ==
    /\ cpc = "align"
    /\ tail' = LogicalDropBoundary(ct, h)
    /\ ct' = LogicalDropBoundary(ct, h)
    /\ cpc' = IF LogicalDropBoundary(ct, h) >= h THEN "idle" ELSE "ver1"
    /\ UNCHANGED <<h, v1, s1, s2, loaded, item, out, prodVars>>

(* First version load; an odd version makes tryPop give up. *)
PopVer1 ==
    /\ cpc = "ver1"
    /\ v1' = writeVersion[SlotOf(ct)]
    /\ cpc' = IF v1' % 2 # 0 THEN "idle" ELSE "seq1"
    /\ UNCHANGED <<tail, ct, h, s1, s2, loaded, item, out, prodVars>>

(* First epoch load; another epoch means the item was overwritten. *)
PopSeq1 ==
    /\ cpc = "seq1"
    /\ s1' = seq[SlotOf(ct)]
    /\ cpc' = IF s1' # ct + 1 THEN "skip" ELSE "words"
    /\ loaded' = {}
    /\ UNCHANGED <<tail, ct, h, v1, s2, item, out, prodVars>>

(* tail_.store(ct + 1) and continue: the overwritten item is passed over. *)
PopSkip ==
    /\ cpc = "skip"
    /\ tail' = ct + 1
    /\ cpc' = "retry"
    /\ UNCHANGED <<ct, h, v1, s1, s2, loaded, item, out, prodVars>>

(* AtomicPayload::load, one word.  Word 0 is an acquire load and comes     *)
(* first; the others are relaxed: in program order on x86-64, at any later *)
(* point before the release store of tail on arm64.                        *)
PopWord(k) ==
    /\ cpc \in IF LoadsInOrder THEN {"words"} ELSE {"words", "ver2", "commit"}
    /\ k \notin loaded
    /\ IF LoadsInOrder THEN \A j \in 0 .. k - 1 : j \in loaded
                       ELSE k = 0 \/ 0 \in loaded
    /\ item' = [item EXCEPT ![k] = words[SlotOf(ct)][k]]
    /\ loaded' = loaded \cup {k}
    /\ UNCHANGED <<tail, cpc, ct, h, v1, s1, s2, out, prodVars>>

(* Second epoch load, after the payload. *)
PopSeq2 ==
    /\ cpc = "words"
    /\ 0 \in loaded
    /\ LoadsInOrder => loaded = Word
    /\ s2' = seq[SlotOf(ct)]
    /\ cpc' = "ver2"
    /\ UNCHANGED <<tail, ct, h, v1, s1, loaded, item, out, prodVars>>

(* Mutant: only the epochs are compared. *)
PopVer2EpochOnly ==
    /\ cpc = "ver2"
    /\ cpc' = IF s1 # s2 THEN "idle" ELSE "commit"
    /\ UNCHANGED <<tail, ct, h, v1, s1, s2, loaded, item, out, prodVars>>

(* Second version load and the validation; a failed one returns false. *)
PopVer2 ==
    /\ cpc = "ver2"
    /\ cpc' = IF v1 # writeVersion[SlotOf(ct)] \/ s1 # s2 THEN "idle" ELSE "commit"
    /\ UNCHANGED <<tail, ct, h, v1, s1, s2, loaded, item, out, prodVars>>

(* tail_.store(ct + 1) and return the item. *)
PopCommit ==
    /\ cpc = "commit"
    /\ loaded = Word
    /\ tail' = ct + 1
    /\ out' = item
    /\ cpc' = "idle"
    /\ UNCHANGED <<ct, h, v1, s1, s2, loaded, item, prodVars>>

Consumer == \/ PopLoad \/ PopAlign \/ PopVer1 \/ PopSeq1 \/ PopSkip
            \/ (\E k \in Word : PopWord(k))
            \/ PopSeq2 \/ PopVer2 \/ PopCommit

Next == Producer \/ Consumer

Spec == Init /\ [][Next]_vars

(* A push that was entered runs to its end (the callback does not block),  *)
(* and the capture thread polls the ring forever.                          *)
PushStep == PushOpen \/ PushWord \/ PushSeq \/ PushClose \/ PushHead \/ PushCount

FairSpec == Spec /\ WF_vars(PushStep) /\ WF_vars(Consumer)

-----------------------------------------------------------------------------
(* Properties.                                                             *)

Writing == ppc \in {"words", "seq", "close", "head"}

(* Number of pushes that have begun to overwrite their slot. *)
begun == IF Writing THEN head + 1 ELSE head

Payload(n) == [k \in Word |-> n + 1]

(* Every variable of the ring holds a value of its C++ type. *)
TypeOK ==
    /\ head \in Nat /\ tail \in Nat /\ cumulativeDropCount \in Nat
    /\ seq \in [SlotIndex -> Nat]
    /\ writeVersion \in [SlotIndex -> Nat]
    /\ words \in [SlotIndex -> [Word -> Nat]]
    /\ ppc \in {"idle", "open", "words", "seq", "close", "head", "count"}
    /\ stored \in 0 .. WordCount
    /\ pushResult \in BOOLEAN
    /\ cpc \in {"idle", "retry", "align", "ver1", "seq1", "skip", "words", "ver2", "commit"}
    /\ ct \in Nat /\ h \in Nat /\ v1 \in Nat /\ s1 \in Nat /\ s2 \in Nat
    /\ loaded \in SUBSET Word
    /\ item \in [Word -> Nat]
    /\ out \in [Word -> Nat]

(* Cursors: what the two threads know of each other's cursor. *)
CursorInv ==
    /\ tail <= head
    /\ h <= head
    /\ cpc \notin {"idle", "retry"} => ct = tail
    /\ cpc \in {"ver1", "seq1", "words", "ver2", "commit"} => ct < h
    /\ cpc = "align" => ct < h - Capacity
    /\ ppc = "count" => head > 0
    /\ ppc = "words" => stored < WordCount
    /\ ~DropOldest => /\ head - tail <= Capacity
                      /\ ppc \in {"open", "words", "seq", "close", "head"}
                             => head - tail < Capacity

(* A slot: its version is odd exactly while the producer is inside it; a   *)
(* slot at rest holds one whole item, the one its epoch names.             *)
SlotInv ==
    /\ \A i \in SlotIndex :
          writeVersion[i] % 2 = 1 <=> ppc \in {"words", "seq", "close"} /\ i = SlotOf(head)
    /\ \A i \in SlotIndex :
          writeVersion[i] % 2 = 0 => \/ writeVersion[i] = 0 /\ seq[i] = i
                                     \/ words[i] = [k \in Word |-> seq[i]]
    /\ ppc = "words" => \A k \in Word : k < stored => words[SlotOf(head)][k] = head + 1
    /\ ppc \in {"seq", "close"} => words[SlotOf(head)] = Payload(head)
    /\ ppc \in {"close", "head"} => seq[SlotOf(head)] = head + 1

(* The newest items are in place: an item whose slot no later push has     *)
(* begun to reuse is the one its slot's epoch names.                       *)
WindowInv ==
    \A n \in 0 .. head - 1 : n + Capacity >= begun => seq[SlotOf(n)] = n + 1

(* What an optimistic read knows: while the version is still the one it    *)
(* saw first, everything it has loaded is still there.  A producer that    *)
(* waits for room stays out of the slot altogether, in whatever order the  *)
(* words are loaded.                                                       *)
ReadInv ==
    LET i == SlotOf(ct) IN
    /\ cpc \in {"seq1", "skip", "words", "ver2", "commit"} => v1 % 2 = 0
    /\ cpc \in {"seq1", "words", "ver2"} => v1 <= writeVersion[i]
    /\ cpc \in {"words", "ver2", "commit"} => s1 = ct + 1
    /\ cpc \in {"words", "ver2"} /\ v1 = writeVersion[i] =>
          /\ seq[i] = s1
          /\ \A k \in loaded : item[k] = words[i][k]
    /\ cpc = "skip" => ct + 1 <= begun - Capacity
    /\ LoadsInOrder /\ cpc \in {"ver2", "commit"} => loaded = Word
    /\ LoadsInOrder /\ cpc = "commit" => item = Payload(ct)
    /\ ~DropOldest /\ cpc \in {"words", "ver2", "commit"} => \A k \in loaded : item[k] = ct + 1

(* The drop statistic never lags behind what the producer has published,   *)
(* except for the push whose bookkeeping is still to come.                 *)
DropCountInv ==
    DropOldest =>
        cumulativeDropCount >= (IF ppc = "count" THEN head - 1 ELSE head) - tail - Capacity

(* The inductive invariant: the five parts above hold together. *)
RingInv == TypeOK /\ CursorInv /\ SlotInv /\ WindowInv /\ ReadInv /\ DropCountInv

(* tryPop hands out whole items: what passes the version and epoch checks  *)
(* is exactly what the ct-th push stored, never words of two pushes.       *)
PopIntegrity == cpc = "commit" /\ loaded = Word => item = Payload(ct)

(* INV7b of the design: between pushes cumulativeDropCount is at least     *)
(* pendingDropped, the items overwritten and not yet passed by the tail.   *)
DropCountCoversPending ==
    DropOldest /\ ppc = "idle" =>
        cumulativeDropCount >= LogicalDropBoundary(tail, head) - tail

(* Refinement: the ring is a channel in the sense of ChannelContract, with *)
(* a push beginning at its first write to the slot.                        *)
Contract == INSTANCE ChannelContract
                WITH begun <- begun, done <- head, next <- tail, out <- out

ContractSpec == Contract!ContractSpec

(* Once the producer pauses, polling empties the ring: no failed           *)
(* validation, skip or alignment keeps the consumer from the last items.   *)
EventuallyDrained == <>[](tail = head)

=============================================================================
