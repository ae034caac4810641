------------------------------ MODULE Evidence ------------------------------
(***************************************************************************)
(* What an end-to-end test run concludes: E2EEvidenceCollector and         *)
(* E2ELatencyProbe (integration).                                          *)
(*                                                                         *)
(* Capture and injection are recorded on two machines: records arrive in   *)
(* any order, more than once, with the times of two clocks.                *)
(***************************************************************************)
EXTENDS Integers, Sequences, FiniteSets, FiniteSetsExt, SequencesExt

CONSTANTS
    EventIds,    \* ids of the events in the collector
    ProbeIds,    \* ids of the events in the probe
    Readings,    \* pairs of a timestamp and a payload
    Times,       \* timestamps of the probe
    Unset,       \* a stage of an event that is not recorded
    MaxRecords,  \* bound: records in the collector
    MaxOpen      \* bound: events of which the probe knows a part of the stages

ASSUME EvidenceAssumption ==
    /\ EventIds \cup ProbeIds \cup Times \subseteq Nat /\ Unset \notin Times
    /\ \A r \in Readings : r[1] \in Nat
    /\ MaxRecords \in Nat /\ MaxOpen \in Nat

Stages == {"capture", "queue", "receive", "injection"}

VARIABLES
    records,  \* E2EEvidenceCollector::records_
    latency   \* E2ELatencyProbe::records_: the times of each event's stages

evidenceVars == <<records, latency>>

NoStages == [s \in Stages |-> Unset]

EvidenceInit ==
    /\ records = <<>> /\ latency = [e \in ProbeIds |-> NoStages]

-----------------------------------------------------------------------------
(* E2EEvidenceCollector.                                                   *)

AddRecord(record) ==
    /\ Len(records) < MaxRecords
    /\ records' = Append(records, record)
    /\ UNCHANGED latency

RecordEvent(type, e, r) == AddRecord([type |-> type, id |-> e, time |-> r[1], payload |-> r[2]])

(* Receive, disconnect and reconnect records: no report looks at them. *)
RecordLink == AddRecord([type |-> "Link", id |-> 0, time |-> 0, payload |-> 0])

ClearRecords ==
    /\ records' = <<>>
    /\ UNCHANGED latency

IdsOf(type) == {records[i].id : i \in {j \in DOMAIN records : records[j].type = type}}

(* captureMap and injectionMap: a later record replaces an earlier one. *)
LastOf(type, e) == records[Max({i \in DOMAIN records : records[i].type = type /\ records[i].id = e})]

(* Mutant: injections that were never captured are not looked for. *)
CorrelationOneWay ==
    LET captured == IdsOf("Capture")
        injected == IdsOf("Injection")
        matched  == captured \cap injected
    IN  /\ captured \subseteq injected
        /\ \A e \in matched : /\ LastOf("Capture", e).payload = LastOf("Injection", e).payload
                              /\ LastOf("Injection", e).time > LastOf("Capture", e).time

(* verifyCorrelation().pass: unmatched, different and early events, and    *)
(* ids in between that nobody recorded, are counted; missing ids only if   *)
(* there are records of both kinds.                                        *)
Correlation ==
    LET captured == IdsOf("Capture")
        injected == IdsOf("Injection")
        matched  == captured \cap injected
        unmatchedCapture   == captured \ injected
        unmatchedInjection == injected \ captured
        mismatched   == {e \in matched : LastOf("Capture", e).payload # LastOf("Injection", e).payload}
        nonMonotonic == {e \in matched : LastOf("Injection", e).time <= LastOf("Capture", e).time}
        missing == IF captured = {} \/ injected = {} THEN {}
                   ELSE (Min(captured \cup injected) .. Max(captured \cup injected)) \ (captured \cup injected)
    IN  unmatchedCapture = {} /\ unmatchedInjection = {} /\ mismatched = {} /\ nonMonotonic = {} /\ missing = {}

-----------------------------------------------------------------------------
(* E2ELatencyProbe.                                                        *)

IsComplete(rec) == \A s \in Stages : rec[s] # Unset

(* Events of which some stages are recorded, and some are not. *)
OpenEvents == {e \in ProbeIds : latency[e] # NoStages /\ ~IsComplete(latency[e])}

RecordStage(e, stage, t) ==
    /\ Cardinality(OpenEvents \ {e}) < MaxOpen
    /\ latency' = [latency EXCEPT ![e][stage] = t]
    /\ UNCHANGED records

ClearLatency ==
    /\ latency' = [e \in ProbeIds |-> NoStages]
    /\ UNCHANGED records

(* captureToQueueUs and so on: a clock that went back counts as no time. *)
Segment(rec, from, to) == IF rec[to] > rec[from] THEN rec[to] - rec[from] ELSE 0

(* std::sort: the values in ascending order. *)
Sorted(values) ==
    LET order == CHOOSE p \in Bijection(DOMAIN values, DOMAIN values) :
                    \A i, j \in DOMAIN values : i < j => values[p[i]] <= values[p[j]]
    IN  [i \in DOMAIN values |-> values[order[i]]]

(* Mutant: the median's index counts from 1 although the values count from *)
(* 0, and for a single value it is left where it is.                       *)
StatsMedianLow(values) ==
    LET sorted == Sorted(values)
        n == Len(values)
    IN  [min |-> sorted[1], max |-> sorted[n], p50 |-> sorted[Max({1, n \div 2})], p99 |-> sorted[n]]

(* computeStats of at least one value.  The index of the p99 is the        *)
(* truncated double n * 0.99, the last element at most; for the n of a     *)
(* test run the truncated quotient is the same index or its neighbour.     *)
ComputeStats(values) ==
    LET sorted == Sorted(values)
        n == Len(values)
        p99Idx == (n * 99) \div 100
    IN  [min |-> sorted[1], max |-> sorted[n], p50 |-> sorted[n \div 2 + 1],
         p99 |-> sorted[(IF p99Idx >= n THEN n - 1 ELSE p99Idx) + 1]]

(* generateReport: the complete events in the order of their ids. *)
Complete == Sorted(SetToSeq({e \in ProbeIds : IsComplete(latency[e])}))
Durations(from, to) == [i \in DOMAIN Complete |-> Segment(latency[Complete[i]], from, to)]

CollectorNext ==
    \/ \E e \in EventIds, r \in Readings, type \in {"Capture", "Injection"} : RecordEvent(type, e, r)
    \/ RecordLink \/ ClearRecords

ProbeNext ==
    \/ \E e \in ProbeIds, s \in Stages, t \in Times : RecordStage(e, s, t)
    \/ ClearLatency

EvidenceNext == CollectorNext \/ ProbeNext

EvidenceSpec == EvidenceInit /\ [][EvidenceNext]_evidenceVars

-----------------------------------------------------------------------------
(* Properties.                                                             *)

(* Whatever was recorded, in whatever order and how often: correlation     *)
(* passes just when each id from the smallest to the largest recorded one  *)
(* has a last capture and a last, later injection with the same payload.   *)
CorrelationExact ==
    LET ids == IdsOf("Capture") \cup IdsOf("Injection") IN
    Correlation <=>
        \/ ids = {}
        \/ \A e \in Min(ids) .. Max(ids) :
              /\ e \in IdsOf("Capture") /\ e \in IdsOf("Injection")
              /\ LET c == LastOf("Capture", e)
                     i == LastOf("Injection", e)
                 IN  c.payload = i.payload /\ c.time < i.time

(* The segments account for the whole latency: although each is clamped at *)
(* 0 when the two machines' clocks disagree, no event, and so no maximum   *)
(* of the report, takes longer in total than in its segments.              *)
SegmentsCoverTotal ==
    /\ \A e \in ProbeIds : IsComplete(latency[e]) =>
          Segment(latency[e], "capture", "injection")
              <= Segment(latency[e], "capture", "queue") + Segment(latency[e], "queue", "receive")
                     + Segment(latency[e], "receive", "injection")
    /\ Complete # <<>> =>
          ComputeStats(Durations("capture", "injection")).max
              <= ComputeStats(Durations("capture", "queue")).max + ComputeStats(Durations("queue", "receive")).max
                     + ComputeStats(Durations("receive", "injection")).max

(* Events complete in any order, with clocks that disagree: half of them   *)
(* are no slower than the p50 of the report, 99% no slower than its p99,   *)
(* and the four figures are in order.                                      *)
PercentilesHonest ==
    Complete # <<>> =>
        LET values == Durations("capture", "injection")
            stats == ComputeStats(values)
            NoSlower(v) == Cardinality({i \in DOMAIN values : values[i] <= v})
        IN  /\ \A i \in DOMAIN values : values[i] \in stats.min .. stats.max
            /\ stats.min <= stats.p50 /\ stats.p50 <= stats.p99 /\ stats.p99 <= stats.max
            /\ 2 * NoSlower(stats.p50) >= Len(values) /\ 100 * NoSlower(stats.p99) >= 99 * Len(values)

(* The latency report can be trusted in its percentiles and in its parts. *)
LatencyHonest == PercentilesHonest /\ SegmentsCoverTotal

=============================================================================
