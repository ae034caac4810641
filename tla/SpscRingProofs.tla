--------------------------- MODULE SpscRingProofs ---------------------------
(***************************************************************************)
(* Proofs about SpscRing, for every capacity, payload size, push policy    *)
(* and number of pushes.  RingInv is shown inductive, one lemma for the    *)
(* producer's steps and one for the consumer's; integrity, the drop        *)
(* statistic and the refinement of ChannelContract follow from it.         *)
(***************************************************************************)
EXTENDS SpscRing, TLAPS

(* The index h % Capacity of tryPush and tryPop is a slot of the buffer.   *)
LEMMA SlotOfType ==
    \A n \in Nat : SlotOf(n) \in SlotIndex /\ SlotOf(n) <= n
  BY RingAssumption DEF SlotOf, SlotIndex

(* Two items less than Capacity apart do not share a slot: a push disturbs *)
(* no item of the window but the one Capacity before it.                   *)
LEMMA SlotOfDistinct ==
    \A n, m \in Nat : n < m /\ m < n + Capacity => SlotOf(n) # SlotOf(m)
<1> SUFFICES ASSUME NEW n \in Nat, NEW m \in Nat,
                    n < m, m < n + Capacity, SlotOf(n) = SlotOf(m)
             PROVE  FALSE
    OBVIOUS
<1> DEFINE p == n \div Capacity
           q == m \div Capacity
<1>1. p \in Nat /\ q \in Nat /\ n = Capacity * p + SlotOf(n) /\ m = Capacity * q + SlotOf(m)
    BY RingAssumption DEF SlotOf
<1>2. m - n = Capacity * (q - p)
    BY <1>1, RingAssumption, SlotOfType DEF SlotIndex
<1> HIDE DEF p, q
<1>3. CASE q - p <= 0
    <2>1. Capacity * (q - p) <= 0
        BY <1>1, <1>3, RingAssumption
    <2> QED
        BY <1>2, <2>1
<1>4. CASE q - p >= 1
    <2>1. Capacity * (q - p) >= Capacity
        BY <1>1, <1>4, RingAssumption
    <2> QED
        BY <1>2, <2>1, RingAssumption
<1> QED
    BY <1>1, <1>3, <1>4

(* The two fetch_add(1) on writeVersion turn an even version odd and back. *)
LEMMA Parity ==
    \A v \in Nat : /\ v % 2 \in {0, 1}
                   /\ v % 2 = 0 <=> (v + 1) % 2 = 1
                   /\ v % 2 = 1 <=> (v + 1) % 2 = 0
  OBVIOUS

-----------------------------------------------------------------------------
(* The ring as constructed, every slot with its own index as epoch,        *)
(* satisfies the invariant.                                                *)
LEMMA InvInit == Init => RingInv
<1> SUFFICES ASSUME Init PROVE RingInv
    OBVIOUS
<1>1. TypeOK /\ CursorInv /\ SlotInv
    BY RingAssumption DEF Init, TypeOK, CursorInv, SlotInv, SlotIndex, Word
<1>2. WindowInv /\ ReadInv /\ DropCountInv
    BY RingAssumption DEF Init, WindowInv, ReadInv, DropCountInv, begun, Writing
<1> QED
    BY <1>1, <1>2 DEF RingInv

(* Every step of tryPush, tryPushDropOldest and tryPop keeps the types.    *)
LEMMA TypeStep == RingInv /\ [Next]_vars => TypeOK'
<1> SUFFICES ASSUME RingInv, [Next]_vars PROVE TypeOK'
    OBVIOUS
<1> USE RingAssumption DEF RingInv, TypeOK, prodVars, consVars, slotVars
<1>1. SlotOf(head) \in SlotIndex /\ SlotOf(ct) \in SlotIndex
    BY SlotOfType
<1>2. CASE PushFull \/ PushCall
    BY <1>2 DEF PushFull, PushCall
<1>3. CASE PushOpen
    BY <1>1, <1>3 DEF PushOpen
<1>4. CASE PushWord
    <2>1. stored \in Word
        BY <1>4 DEF PushWord, CursorInv, Word
    <2>2. words' \in [SlotIndex -> [Word -> Nat]]
        BY <1>1, <1>4, <2>1 DEF PushWord
    <2>3. stored' \in 0 .. WordCount
        BY <1>4, <2>1 DEF PushWord, Word
    <2> QED
        BY <1>4, <2>2, <2>3 DEF PushWord
<1>5. CASE PushSeq
    BY <1>1, <1>5 DEF PushSeq
<1>6. CASE PushClose
    BY <1>1, <1>6 DEF PushClose
<1>7. CASE PushHead
    BY <1>7 DEF PushHead
<1>8. CASE PushCount
    BY <1>8 DEF PushCount
<1>9. CASE PopLoad
    BY <1>9 DEF PopLoad
<1>10. CASE PopAlign
    BY <1>10 DEF PopAlign, LogicalDropBoundary
<1>11. CASE PopVer1
    BY <1>1, <1>11 DEF PopVer1
<1>12. CASE PopSeq1
    BY <1>1, <1>12 DEF PopSeq1
<1>13. CASE PopSkip
    BY <1>13 DEF PopSkip
<1>14. ASSUME NEW k \in Word, PopWord(k) PROVE TypeOK'
    <2>1. words[SlotOf(ct)][k] \in Nat
        BY <1>1
    <2> QED
        BY <1>14, <2>1 DEF PopWord
<1>15. CASE PopSeq2
    BY <1>1, <1>15 DEF PopSeq2
<1>16. CASE PopVer2
    BY <1>16 DEF PopVer2
<1>17. CASE PopCommit
    BY <1>17 DEF PopCommit
<1>18. CASE UNCHANGED vars
    BY <1>18 DEF vars
<1> QED
    BY <1>2, <1>3, <1>4, <1>5, <1>6, <1>7, <1>8, <1>9, <1>10, <1>11, <1>12,
       <1>13, <1>14, <1>15, <1>16, <1>17, <1>18 DEF Next, Producer, Consumer

(* A step of tryPush or tryPushDropOldest keeps the invariant, the         *)
(* knowledge of a reader that is inside the same slot included.            *)
LEMMA ProducerStep ==
    ASSUME RingInv, Producer, TypeOK'
    PROVE  RingInv'
<1> USE RingAssumption DEF RingInv, TypeOK, prodVars, consVars, slotVars
<1>1. SlotOf(head) \in SlotIndex /\ SlotOf(ct) \in SlotIndex
    BY SlotOfType
<1>2. CASE PushFull
    BY <1>2 DEF PushFull, CursorInv, SlotInv, WindowInv, ReadInv, DropCountInv, begun, Writing
<1>3. CASE PushCall
    BY <1>3 DEF PushCall, CursorInv, SlotInv, WindowInv, ReadInv, DropCountInv, begun, Writing
<1>4. CASE PushOpen
    <2>1. CursorInv' /\ DropCountInv'
        BY <1>4 DEF PushOpen, CursorInv, DropCountInv
    <2>0. /\ writeVersion'[SlotOf(head)] = writeVersion[SlotOf(head)] + 1
          /\ writeVersion'[SlotOf(head)] % 2 = 1
          /\ \A i \in SlotIndex \ {SlotOf(head)} : writeVersion'[i] = writeVersion[i]
        BY <1>1, <1>4, Parity DEF PushOpen, SlotInv
    <2>2. SlotInv'
        <3>1. \A i \in SlotIndex : writeVersion'[i] % 2 = 1 <=> i = SlotOf(head)
            BY <1>4, <2>0, Parity DEF PushOpen, SlotInv
        <3>2. \A i \in SlotIndex : writeVersion'[i] % 2 = 0 => writeVersion'[i] = writeVersion[i]
            BY <2>0, <3>1
        <3>3. \A i \in SlotIndex :
                 writeVersion'[i] % 2 = 0 => \/ writeVersion'[i] = 0 /\ seq[i] = i
                                             \/ words[i] = [k \in Word |-> seq[i]]
            BY <3>2 DEF SlotInv
        <3>4. \A k \in Word : ~(k < 0)
            BY DEF Word
        <3> QED
            BY <1>4, <3>1, <3>3, <3>4 DEF PushOpen, SlotInv
    <2>3. WindowInv'
        BY <1>4, SlotOfType DEF PushOpen, WindowInv, begun, Writing
    <2>4. ReadInv'
        <3>1. \A i \in SlotIndex : /\ writeVersion[i] <= writeVersion'[i]
                                   /\ writeVersion'[i] % 2 = 0 => writeVersion'[i] = writeVersion[i]
            BY <2>0
        <3>2. v1 % 2 = 0 => (v1 = writeVersion'[SlotOf(ct)] => v1 = writeVersion[SlotOf(ct)])
            BY <1>1, <3>1
        <3>3. v1 <= writeVersion[SlotOf(ct)] => v1 <= writeVersion'[SlotOf(ct)]
            BY <1>1, <3>1
        <3>4. begun = head /\ begun' = head + 1
            BY <1>4 DEF PushOpen, begun, Writing
        <3>5. cpc = "skip" => ct + 1 <= begun' - Capacity
            BY <3>4 DEF ReadInv
        <3> QED
            BY <1>4, <3>2, <3>3, <3>5 DEF PushOpen, ReadInv, Payload
    <2> QED
        BY <2>1, <2>2, <2>3, <2>4
<1>5. CASE PushWord
    <2>0. stored \in Word
        BY <1>5 DEF PushWord, CursorInv, Word
    <2>1. CursorInv' /\ DropCountInv'
        BY <1>5, <2>0 DEF PushWord, CursorInv, DropCountInv, Word
    <2>2. SlotInv'
        <3>1. /\ \A i \in SlotIndex \ {SlotOf(head)} : words'[i] = words[i]
              /\ \A k \in Word : words'[SlotOf(head)][k] =
                     IF k = stored THEN head + 1 ELSE words[SlotOf(head)][k]
              /\ words'[SlotOf(head)] \in [Word -> Nat]
            BY <1>1, <1>5, <2>0 DEF PushWord
        <3>2. \A i \in SlotIndex :
                 writeVersion[i] % 2 = 1 <=> ppc' \in {"words", "seq", "close"} /\ i = SlotOf(head)
            BY <1>5 DEF PushWord, SlotInv
        <3>3. \A k \in Word : k < stored + 1 => words'[SlotOf(head)][k] = head + 1
            BY <1>5, <2>0, <3>1 DEF PushWord, SlotInv, Word
        <3>4. ppc' = "seq" => words'[SlotOf(head)] = [k \in Word |-> head + 1]
            <4>1. ppc' = "seq" => \A k \in Word : words'[SlotOf(head)][k] = head + 1
                BY <1>5, <3>3 DEF PushWord, Word
            <4> QED
                BY <3>1, <4>1
        <3>5. \A i \in SlotIndex : writeVersion[i] % 2 = 0 => words'[i] = words[i]
            BY <1>1, <1>5, <3>1 DEF PushWord, SlotInv
        <3>6. \A i \in SlotIndex :
                 writeVersion[i] % 2 = 0 => \/ writeVersion[i] = 0 /\ seq[i] = i
                                            \/ words'[i] = [k \in Word |-> seq[i]]
            BY <3>5 DEF SlotInv
        <3> QED
            BY <1>5, <3>2, <3>3, <3>4, <3>6 DEF PushWord, SlotInv, Payload
    <2>3. WindowInv'
        BY <1>5 DEF PushWord, WindowInv, begun, Writing
    <2>4. ReadInv'
        <3>1. writeVersion[SlotOf(head)] % 2 = 1
            BY <1>1, <1>5 DEF PushWord, SlotInv
        <3>2. v1 % 2 = 0 /\ v1 = writeVersion[SlotOf(ct)] => words'[SlotOf(ct)] = words[SlotOf(ct)]
            BY <1>1, <1>5, <3>1 DEF PushWord
        <3>3. begun' = begun
            BY <1>5 DEF PushWord, begun, Writing
        <3> QED
            BY <1>5, <3>2, <3>3 DEF PushWord, ReadInv, Payload
    <2> QED
        BY <2>1, <2>2, <2>3, <2>4
<1>6. CASE PushSeq
    <2>1. CursorInv' /\ DropCountInv'
        BY <1>6 DEF PushSeq, CursorInv, DropCountInv
    <2>0. /\ seq'[SlotOf(head)] = head + 1
          /\ \A i \in SlotIndex \ {SlotOf(head)} : seq'[i] = seq[i]
        BY <1>1, <1>6 DEF PushSeq
    <2>5. writeVersion[SlotOf(head)] % 2 = 1
        BY <1>1, <1>6 DEF PushSeq, SlotInv
    <2>2. SlotInv'
        <3>1. \A i \in SlotIndex :
                 writeVersion[i] % 2 = 1 <=> ppc' \in {"words", "seq", "close"} /\ i = SlotOf(head)
            BY <1>6 DEF PushSeq, SlotInv
        <3>2. \A i \in SlotIndex : writeVersion[i] % 2 = 0 => seq'[i] = seq[i]
            BY <2>0, <2>5
        <3> QED
            BY <1>1, <1>6, <2>0, <3>1, <3>2 DEF PushSeq, SlotInv, Payload
    <2>3. WindowInv'
        <3>1. \A n \in 0 .. head - 1 : n + Capacity >= head + 1 => SlotOf(n) # SlotOf(head)
            BY SlotOfDistinct
        <3> QED
            BY <1>6, <2>0, <3>1, SlotOfType DEF PushSeq, WindowInv, begun, Writing
    <2>4. ReadInv'
        <3>2. v1 % 2 = 0 /\ v1 = writeVersion[SlotOf(ct)] => seq'[SlotOf(ct)] = seq[SlotOf(ct)]
            BY <1>1, <2>0, <2>5
        <3>3. begun' = begun
            BY <1>6 DEF PushSeq, begun, Writing
        <3> QED
            BY <1>6, <3>2, <3>3 DEF PushSeq, ReadInv, Payload
    <2> QED
        BY <2>1, <2>2, <2>3, <2>4
<1>7. CASE PushClose
    <2>1. CursorInv' /\ DropCountInv'
        BY <1>7 DEF PushClose, CursorInv, DropCountInv
    <2>0. /\ writeVersion'[SlotOf(head)] = writeVersion[SlotOf(head)] + 1
          /\ writeVersion[SlotOf(head)] % 2 = 1
          /\ writeVersion'[SlotOf(head)] % 2 = 0
          /\ \A i \in SlotIndex \ {SlotOf(head)} : /\ writeVersion'[i] = writeVersion[i]
                                                   /\ writeVersion[i] % 2 = 0
        BY <1>1, <1>7, Parity DEF PushClose, SlotInv
    <2>2. SlotInv'
        <3>1. words[SlotOf(head)] = [k \in Word |-> seq[SlotOf(head)]]
            BY <1>7 DEF PushClose, SlotInv, Payload
        <3> QED
            BY <1>1, <1>7, <2>0, <3>1 DEF PushClose, SlotInv
    <2>3. WindowInv'
        BY <1>7 DEF PushClose, WindowInv, begun, Writing
    <2>4. ReadInv'
        <3>1. v1 <= writeVersion[SlotOf(ct)] =>
                  /\ v1 <= writeVersion'[SlotOf(ct)]
                  /\ v1 = writeVersion'[SlotOf(ct)] => v1 = writeVersion[SlotOf(ct)]
            <4>0. writeVersion[SlotOf(ct)] \in Nat
                BY <1>1
            <4>1. CASE SlotOf(ct) = SlotOf(head)
                <5>1. writeVersion'[SlotOf(ct)] = writeVersion[SlotOf(ct)] + 1
                    BY <2>0, <4>1
                <5> QED
                    BY <4>0, <5>1
            <4>2. CASE SlotOf(ct) # SlotOf(head)
                BY <1>1, <2>0, <4>2
            <4> QED
                BY <4>1, <4>2
        <3>3. begun' = begun
            BY <1>7 DEF PushClose, begun, Writing
        <3> QED
            BY <1>7, <3>1, <3>3 DEF PushClose, ReadInv, Payload
    <2> QED
        BY <2>1, <2>2, <2>3, <2>4
<1>8. CASE PushHead
    <2>1. CursorInv' /\ DropCountInv'
        BY <1>8 DEF PushHead, CursorInv, DropCountInv
    <2>2. SlotInv'
        BY <1>8 DEF PushHead, SlotInv
    <2>3. WindowInv'
        <3>1. seq[SlotOf(head)] = head + 1 /\ begun' = begun
            BY <1>8 DEF PushHead, SlotInv, begun, Writing
        <3>2. \A n \in 0 .. head' - 1 : n = head \/ n \in 0 .. head - 1
            BY <1>8 DEF PushHead
        <3> QED
            BY <1>8, <3>1, <3>2 DEF PushHead, WindowInv
    <2>4. ReadInv'
        BY <1>8 DEF PushHead, ReadInv, begun, Writing, Payload
    <2> QED
        BY <2>1, <2>2, <2>3, <2>4
<1>9. CASE PushCount
    <2>1. CursorInv' /\ DropCountInv'
        BY <1>9 DEF PushCount, CursorInv, DropCountInv
    <2>2. SlotInv' /\ WindowInv' /\ ReadInv'
        BY <1>9 DEF PushCount, SlotInv, WindowInv, ReadInv, begun, Writing, Payload
    <2> QED
        BY <2>1, <2>2
<1> QED
    BY <1>2, <1>3, <1>4, <1>5, <1>6, <1>7, <1>8, <1>9 DEF Producer

(* A step of tryPop keeps the invariant: the slots are not its to change,  *)
(* and each load adds what the reader may rely on.                         *)
LEMMA ConsumerStep ==
    ASSUME RingInv, Consumer, TypeOK'
    PROVE  RingInv'
<1> USE RingAssumption DEF RingInv, TypeOK, prodVars, slotVars
<1>1. SlotOf(ct) \in SlotIndex
    BY SlotOfType
<1>2. UNCHANGED prodVars
    BY DEF Consumer, PopLoad, PopAlign, PopVer1, PopSeq1, PopSkip, PopWord, PopSeq2,
           PopVer2, PopCommit
<1>3. SlotInv' /\ WindowInv'
    BY <1>2 DEF SlotInv, WindowInv, begun, Writing, Payload
<1>4. begun \in Nat /\ begun' = begun /\ head <= begun /\ begun <= head + 1
    BY <1>2 DEF begun, Writing
<1>5. CASE PopLoad
    BY <1>3, <1>5 DEF PopLoad, CursorInv, ReadInv, DropCountInv, LogicalDropBoundary
<1>6. CASE PopAlign
    BY <1>3, <1>6 DEF PopAlign, CursorInv, ReadInv, DropCountInv, LogicalDropBoundary
<1>7. CASE PopVer1
    BY <1>1, <1>3, <1>7, Parity DEF PopVer1, CursorInv, ReadInv, DropCountInv
<1>8. CASE PopSeq1
    <2>1. CursorInv' /\ DropCountInv'
        BY <1>8 DEF PopSeq1, CursorInv, DropCountInv
    <2>2. seq[SlotOf(ct)] # ct + 1 => ct + 1 <= begun - Capacity
        BY <1>4, <1>8 DEF PopSeq1, CursorInv, WindowInv
    <2>3. ReadInv'
        BY <1>2, <1>4, <1>8, <2>2 DEF PopSeq1, ReadInv
    <2> QED
        BY <1>3, <2>1, <2>3
<1>9. CASE PopSkip
    <2>1. ct + 1 <= head
        BY <1>4, <1>9 DEF PopSkip, ReadInv
    <2>2. CursorInv' /\ DropCountInv'
        BY <1>9, <2>1 DEF PopSkip, CursorInv, DropCountInv
    <2>3. ReadInv'
        BY <1>9 DEF PopSkip, ReadInv
    <2> QED
        BY <1>3, <2>2, <2>3
<1>10. ASSUME NEW k \in Word, PopWord(k) PROVE RingInv'
    <2>1. CursorInv' /\ DropCountInv'
        BY <1>10 DEF PopWord, CursorInv, DropCountInv
    <2>2. ASSUME ~DropOldest
          PROVE  words[SlotOf(ct)] = [j \in Word |-> ct + 1]
        <3>1. ct = tail /\ tail < head /\ head - tail <= Capacity
            BY <1>10, <2>2 DEF PopWord, CursorInv
        <3>2. seq[SlotOf(ct)] = ct + 1
            BY <2>2, <3>1 DEF CursorInv, WindowInv, begun, Writing
        <3>3. writeVersion[SlotOf(ct)] % 2 # 1
            <4>1. ppc \in {"words", "seq", "close"} => SlotOf(ct) # SlotOf(head)
                BY <2>2, <3>1, SlotOfDistinct DEF CursorInv
            <4> QED
                BY <1>1, <4>1 DEF SlotInv
        <3>4. SlotOf(ct) # ct + 1 /\ writeVersion[SlotOf(ct)] \in Nat
            BY <1>1, SlotOfType
        <3> QED
            BY <1>1, <3>2, <3>3, <3>4, Parity DEF SlotInv
    <2>3. ~DropOldest => words[SlotOf(ct)][k] = ct + 1
        BY <2>2
    <2>4. ReadInv'
        BY <1>1, <1>4, <1>10, <2>3 DEF PopWord, ReadInv, Payload
    <2> QED
        BY <1>3, <2>1, <2>4
<1>11. CASE PopSeq2
    BY <1>3, <1>4, <1>11 DEF PopSeq2, CursorInv, ReadInv, DropCountInv
<1>12. CASE PopVer2
    <2>1. CursorInv' /\ DropCountInv'
        BY <1>12 DEF PopVer2, CursorInv, DropCountInv
    <2>2. ASSUME LoadsInOrder, cpc' = "commit"
          PROVE  item = Payload(ct)
        <3>1. /\ loaded = Word
              /\ v1 % 2 = 0 /\ v1 = writeVersion[SlotOf(ct)]
              /\ seq[SlotOf(ct)] = ct + 1
              /\ \A k \in Word : item[k] = words[SlotOf(ct)][k]
            BY <1>12, <2>2 DEF PopVer2, ReadInv
        <3>2. SlotOf(ct) # ct + 1
            BY SlotOfType
        <3>3. words[SlotOf(ct)] = [k \in Word |-> ct + 1]
            BY <1>1, <3>1, <3>2 DEF SlotInv
        <3> QED
            BY <3>1, <3>3 DEF Payload
    <2>3. ReadInv'
        BY <1>4, <1>12, <2>2 DEF PopVer2, ReadInv, Payload
    <2> QED
        BY <1>3, <2>1, <2>3
<1>13. CASE PopCommit
    BY <1>3, <1>13 DEF PopCommit, CursorInv, ReadInv, DropCountInv
<1> QED
    BY <1>5, <1>6, <1>7, <1>8, <1>9, <1>10, <1>11, <1>12, <1>13 DEF Consumer

(* RingInv is inductive: no step of either thread breaks it.               *)
LEMMA InvStep == RingInv /\ [Next]_vars => RingInv'
<1> SUFFICES ASSUME RingInv, [Next]_vars PROVE RingInv'
    OBVIOUS
<1>1. TypeOK'
    BY TypeStep
<1>2. CASE Next
    BY <1>1, <1>2, ProducerStep, ConsumerStep DEF Next
<1>3. CASE UNCHANGED vars
    BY <1>3 DEF RingInv, TypeOK, CursorInv, SlotInv, WindowInv, ReadInv, DropCountInv,
                begun, Writing, Payload, vars, prodVars, consVars, slotVars
<1> QED
    BY <1>2, <1>3

(* The invariant holds in every reachable state of a ring of any capacity  *)
(* and payload size, under both push policies and both memory models:      *)
(* cursors, slot versions, epochs and the optimistic reader of             *)
(* spsc_ring_buffer.hpp agree at every interleaving.                       *)
THEOREM RingInvariant == Spec => []RingInv
<1> QED
    BY InvInit, InvStep, PTL DEF Spec

-----------------------------------------------------------------------------
(* What follows from it.                                                   *)

(* An item about to be returned is whole: on a CPU that performs loads in  *)
(* order, and in a ring that drops nothing on any CPU.                     *)
LEMMA CommitIsWhole ==
    ASSUME LoadsInOrder \/ ~DropOldest, RingInv, cpc = "commit", loaded = Word
    PROVE  item = Payload(ct)
<1>1. CASE LoadsInOrder
    BY <1>1 DEF RingInv, ReadInv
<1>2. CASE ~DropOldest
    <2>1. item \in [Word -> Nat] /\ \A k \in Word : item[k] = ct + 1
        BY <1>2 DEF RingInv, TypeOK, ReadInv
    <2> QED
        BY <2>1 DEF Payload
<1> QED
    BY <1>1, <1>2

(* Then tryPop never returns a torn or foreign payload.                    *)
THEOREM PopIntegrityHolds ==
    ASSUME LoadsInOrder \/ ~DropOldest
    PROVE  Spec => []PopIntegrity
<1>1. RingInv => PopIntegrity
    BY CommitIsWhole DEF PopIntegrity
<1> QED
    BY <1>1, RingInvariant, PTL

(* Design invariant INV7b, for the producer between two calls of           *)
(* tryPushDropOldest.                                                      *)
THEOREM DropCountHolds == Spec => []DropCountCoversPending
<1>1. RingInv => DropCountCoversPending
    BY RingAssumption DEF RingInv, TypeOK, CursorInv, DropCountInv, DropCountCoversPending,
                          LogicalDropBoundary
<1> QED
    BY <1>1, RingInvariant, PTL

(* The ring implements the channel contract: whole items, in order, at     *)
(* most once, nothing discarded before the push that reuses its slot has   *)
(* begun, and nothing at all discarded by the state ring (tryPush).        *)
THEOREM RingImplementsContract ==
    ASSUME LoadsInOrder \/ ~DropOldest
    PROVE  Spec => ContractSpec
<1>1. Init => Contract!ContractInit
    BY DEF Init, Contract!ContractInit, begun, Writing
<1>2. RingInv /\ [Next]_vars => [Contract!ContractNext]_(Contract!cvars)
    <2> SUFFICES ASSUME RingInv, [Next]_vars
                 PROVE  [Contract!ContractNext]_(Contract!cvars)
        OBVIOUS
    <2> USE RingAssumption DEF RingInv, TypeOK, prodVars, consVars, slotVars,
                               Contract!ContractNext, Contract!cvars
    <2>1. CASE PushOpen
        BY <2>1 DEF PushOpen, CursorInv, begun, Writing, Contract!BeginPush
    <2>2. CASE PushHead
        BY <2>2 DEF PushHead, begun, Writing, Contract!EndPush
    <2>3. CASE PushFull \/ PushCall \/ PushWord \/ PushSeq \/ PushClose \/ PushCount
        BY <2>3 DEF PushFull, PushCall, PushWord, PushSeq, PushClose, PushCount, begun, Writing
    <2>4. CASE PopAlign
        <3>1. begun \in Nat /\ head <= begun /\ begun' = begun
            BY <2>4 DEF PopAlign, begun, Writing
        <3>2. tail' = h - Capacity /\ tail < h - Capacity
            BY <2>4 DEF PopAlign, LogicalDropBoundary, CursorInv
        <3>3. h - Capacity \in tail + 1 .. begun - Capacity
            BY <3>1, <3>2 DEF CursorInv
        <3> QED
            BY <2>4, <3>1, <3>2, <3>3 DEF PopAlign, Contract!Discard
    <2>5. CASE PopSkip
        BY <2>5 DEF PopSkip, CursorInv, ReadInv, begun, Writing, Contract!Discard
    <2>6. CASE PopCommit
        <3>1. ct = tail /\ item = Payload(ct)
            BY <2>6, CommitIsWhole DEF PopCommit, CursorInv
        <3> QED
            BY <2>6, <3>1 DEF PopCommit, CursorInv, begun, Writing, Payload,
                              Contract!Receive, Contract!Payload
    <2>7. ASSUME PopLoad \/ PopVer1 \/ PopSeq1 \/ PopSeq2 \/ PopVer2 \/ (\E k \in Word : PopWord(k))
          PROVE  UNCHANGED Contract!cvars
        BY <2>7 DEF PopLoad, PopVer1, PopSeq1, PopSeq2, PopVer2, PopWord, begun, Writing
    <2>8. CASE UNCHANGED vars
        BY <2>8 DEF vars, begun, Writing
    <2> QED
        BY <2>1, <2>2, <2>3, <2>4, <2>5, <2>6, <2>7, <2>8 DEF Next, Producer, Consumer
<1> QED
    BY <1>1, <1>2, RingInvariant, PTL DEF Spec, ContractSpec, Contract!ContractSpec

=============================================================================
