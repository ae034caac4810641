------------------------------ MODULE MCInput ------------------------------
(* TLC instance of the parts an input event passes on its way:             *)
(* SendBacklog, InputPath, ModifierSync, ReleaseExecutor, ScreenGeometry,  *)
(* TopologyView, ResyncCoordinator, and the Evidence collected about it.   *)
(* They share no state in the code: `focus' picks one of them at the start *)
(* and the others keep one initial state.                                  *)
EXTENDS SendBacklog, InputPath, ModifierSync, ReleaseExecutor, ScreenGeometry, Evidence, TopologyView,
        ResyncCoordinator

VARIABLE focus

vars == <<focus, backlogVars, pathVars, modVars, exVars, screenVars, evidenceVars, viewVars, gateVars>>

(* Arrangements of displays: one, at the origin or not, one without width, *)
(* too wide for its casts, two of which one lies left of the main one,     *)
(* three.                                                                  *)
Disp(x, y, w, h) == [x |-> x, y |-> y, w |-> w, h |-> h]
MCLayouts ==
    {<<Disp(0, 0, 3, 2)>>, <<Disp(-1, 2, 2, 3)>>, <<Disp(0, 0, 0, 2)>>, <<Disp(0, 0, 8, 2)>>,
     <<Disp(0, 0, 3, 2), Disp(-2, 1, 2, 2)>>,
     <<Disp(0, 0, 2, 2), Disp(2, 0, 3, 2), Disp(1, 2, 2, 1)>>}

(* Readings that are too early, right, or of another payload. *)
MCReadings == {<<1, "p">>, <<2, "p">>, <<2, "q">>}

Init ==
    /\ focus \in {"backlog", "path", "modifiers", "executor", "screen",
                 "collector", "probe", "view", "coordinator"}
    /\ BacklogInit /\ PathInit /\ ModInit /\ ExInit /\ ScreenInit /\ EvidenceInit /\ ViewInit /\ GateInit
    /\ focus # "path" => os = "win"
    /\ focus # "modifiers" => injectorOs = "win"
    /\ focus # "screen" => displays = <<Disp(0, 0, 3, 2)>>

Next ==
    /\ UNCHANGED focus
    /\ \/ focus = "backlog" /\ BacklogNext
          /\ UNCHANGED <<pathVars, modVars, exVars, screenVars, evidenceVars, viewVars, gateVars>>
       \/ focus = "path" /\ PathNext
          /\ UNCHANGED <<backlogVars, modVars, exVars, screenVars, evidenceVars, viewVars, gateVars>>
       \/ focus = "modifiers" /\ ModNext
          /\ UNCHANGED <<backlogVars, pathVars, exVars, screenVars, evidenceVars, viewVars, gateVars>>
       \/ focus = "executor" /\ ExNext
          /\ UNCHANGED <<backlogVars, pathVars, modVars, screenVars, evidenceVars, viewVars, gateVars>>
       \/ focus = "screen" /\ ScreenNext
          /\ UNCHANGED <<backlogVars, pathVars, modVars, exVars, evidenceVars, viewVars, gateVars>>
       \/ focus = "collector" /\ CollectorNext
          /\ UNCHANGED <<backlogVars, pathVars, modVars, exVars, screenVars, viewVars, gateVars>>
       \/ focus = "probe" /\ ProbeNext
          /\ UNCHANGED <<backlogVars, pathVars, modVars, exVars, screenVars, viewVars, gateVars>>
       \/ focus = "view" /\ ViewNext
          /\ UNCHANGED <<backlogVars, pathVars, modVars, exVars, screenVars, evidenceVars, gateVars>>
       \/ focus = "coordinator" /\ GateNext
          /\ UNCHANGED <<backlogVars, pathVars, modVars, exVars, screenVars, evidenceVars, viewVars>>

Spec == Init /\ [][Next]_vars
=============================================================================
