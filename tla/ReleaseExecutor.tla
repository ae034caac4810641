-------------------------- MODULE ReleaseExecutor --------------------------
(***************************************************************************)
(* ReleaseAllPressedExecutor::execute (platform/mac): the pressed buttons, *)
(* then the pressed keys, are released one by one before a deadline.       *)
(*                                                                         *)
(* Time is whether the deadline has passed, which may happen between any   *)
(* two steps.  An injection may fail.  Buttons and keys are numbered in    *)
(* the order in which the loops come to them.                              *)
(***************************************************************************)
EXTENDS Integers, FiniteSets

CONSTANT Slots   \* the places of buttons and keys in the loops: 1 .. Slots

ASSUME SlotsAssumption == Slots \in Nat

VARIABLES
    snapshot,     \* the slots that were pressed
    exPc,         \* "idle", "before", "inject", "after" or "done"
    slot,         \* the slot the loops have come to
    released,     \* the slots released in this execution
    late,         \* the deadline has passed
    lastResult,   \* lastResult_
    lateInjects,  \* history: injections begun in this execution after the deadline
    everLate      \* history: some execution has reached its deadline

exVars == <<snapshot, exPc, slot, released, late, lastResult, lateInjects, everLate>>

ExInit ==
    /\ snapshot = {} /\ exPc = "idle" /\ slot = 0 /\ released = {} /\ late = FALSE
    /\ lastResult = "Success" /\ lateInjects = 0 /\ everLate = FALSE

(* The first pressed slot after i, if there is one. *)
Pressed(i) == {j \in snapshot : j > i /\ \A k \in snapshot : k > i => j <= k}

Goto(next) ==
    /\ slot' \in IF next = {} THEN {slot} ELSE next
    /\ exPc' = IF next = {} THEN "done" ELSE "before"

Execute(S) ==
    /\ exPc = "idle"
    /\ snapshot' = S /\ released' = {} /\ late' = FALSE /\ lateInjects' = 0
    /\ IF S = {} THEN exPc' = "done" /\ slot' = 0
       ELSE exPc' = "before" /\ slot' \in {j \in S : \A k \in S : j <= k}
    /\ UNCHANGED <<lastResult, everLate>>

DeadlinePasses ==
    /\ exPc # "idle" /\ ~late /\ late' = TRUE
    /\ UNCHANGED <<snapshot, exPc, slot, released, lastResult, lateInjects, everLate>>

(* Mutant: the clock is not looked at. *)
CheckNever(place, ahead) ==
    /\ exPc = place /\ ahead
    /\ UNCHANGED <<snapshot, released, late, lastResult, lateInjects, everLate>>

(* clockFn() >= tDeadline, before and after each injection: `ahead' is     *)
(* where execution goes on.                                                *)
Check(place, ahead) ==
    /\ exPc = place
    /\ IF late THEN lastResult' = "DeadlineReached" /\ everLate' = TRUE /\ exPc' = "done" /\ UNCHANGED slot
       ELSE ahead /\ UNCHANGED <<lastResult, everLate>>
    /\ UNCHANGED <<snapshot, released, late, lateInjects>>

CheckBefore == Check("before", exPc' = "inject" /\ UNCHANGED slot)
CheckAfter == Check("after", Goto(Pressed(slot)))

Release(ok) ==
    /\ exPc = "inject" /\ exPc' = "after"
    /\ released' = IF ok THEN released \cup {slot} ELSE released
    /\ lateInjects' = lateInjects + (IF late THEN 1 ELSE 0)
    /\ UNCHANGED <<snapshot, slot, late, lastResult, everLate>>

(* Mutant: the result compares the count with the slots visited. *)
VerdictOfVisited == IF released # {} THEN "Success" ELSE "Degraded"

(* The result when the deadline was not reached. *)
Verdict == IF Cardinality(released) = Cardinality(snapshot) THEN "Success"
           ELSE IF released # {} THEN "PartialRelease" ELSE "Degraded"

(* lastResult_ is not reset: an execution after one that reached its       *)
(* deadline reports that deadline.                                         *)
Return ==
    /\ exPc = "done" /\ exPc' = "idle"
    /\ lastResult' = IF lastResult = "DeadlineReached" THEN lastResult ELSE Verdict
    /\ UNCHANGED <<snapshot, slot, released, late, lateInjects, everLate>>

ExNext ==
    \/ \E S \in SUBSET (1 .. Slots) : Execute(S)
    \/ DeadlinePasses \/ CheckBefore \/ CheckAfter \/ Return
    \/ \E ok \in BOOLEAN : Release(ok)

ExSpec == ExInit /\ [][ExNext]_exVars

-----------------------------------------------------------------------------
(* Properties.                                                             *)

(* Until an execution meets its deadline, the result tells exactly what    *)
(* the last one did: success if it released all that was pressed, degraded *)
(* if nothing of it, partial otherwise.  Since lastResult_ is not reset,   *)
(* every execution from the late one on reports a deadline, whatever it    *)
(* released itself.                                                        *)
ResultHonest ==
    exPc = "idle" =>
        IF everLate THEN lastResult = "DeadlineReached"
        ELSE lastResult = IF released = snapshot THEN "Success"
                          ELSE IF released = {} THEN "Degraded" ELSE "PartialRelease"

(* At most one injection begins after the deadline, although it may pass   *)
(* at any moment.                                                          *)
DeadlineHeld == lateInjects <= 1

=============================================================================
