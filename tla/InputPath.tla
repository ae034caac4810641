----------------------------- MODULE InputPath -----------------------------
(***************************************************************************)
(* An input event from the keyboard or mouse of the controlling Mac to the *)
(* controlled machine: MacEventFieldExtractor, CGEventNormalizer, the link *)
(* and, on the other side, WinInputPlaneReceiver with WinEventInjector, or *)
(* MacEventInjector.                                                       *)
(*                                                                         *)
(* A control is <<"key", code>> or <<"button", number>>.  What an event    *)
(* does is whether it presses or releases a control; distances and times   *)
(* are left out, and so are the statistics counters.  The application      *)
(* turns raw events into canonical ones, keeping kind and control.         *)
(***************************************************************************)
EXTENDS Integers, Sequences

CONSTANTS
    KeyCodes,      \* virtual key codes of the source's keyboard
    ButtonNumbers, \* button numbers of the source's mouse
    MaxPipe        \* bound: events in flight

ASSUME InputAssumption ==
    /\ KeyCodes \subseteq Nat /\ \A code \in KeyCodes : code <= 65535
    /\ ButtonNumbers \subseteq Nat /\ \A number \in ButtonNumbers : number <= 255
    /\ MaxPipe \in Nat

VARIABLES
    os,             \* the controlled machine: "win" or "mac", fixed
    held,           \* controls held down at the source
    pipe,           \* events on their way
    down,           \* controls down at the target
    isController,   \* MacEventInjector::isController_
    faulty          \* history: an event was lost or refused and not yet repaired

pathVars == <<os, held, pipe, down, isController, faulty>>

Controls == ({"key"} \X KeyCodes) \cup ({"button"} \X ButtonNumbers)

PathInit ==
    /\ os \in {"win", "mac"}
    /\ held = {} /\ pipe = <<>> /\ down = {}
    /\ isController = FALSE
    /\ faulty = FALSE

-----------------------------------------------------------------------------
(* Extraction and normalisation at the source.                             *)

(* Mutant: key releases are not recognised. *)
mapEventTypeNoKeyUp == [MouseMoved |-> "MouseMove", MouseDown |-> "MouseButtonPress",
                        MouseUp |-> "MouseButtonRelease", ScrollWheel |-> "Wheel", KeyDown |-> "KeyPress"]

(* Moves with a button down and changes of modifiers have types of their   *)
(* own, which are not among these.                                         *)
mapEventType == [MouseMoved |-> "MouseMove", MouseDown |-> "MouseButtonPress", MouseUp |-> "MouseButtonRelease",
                 ScrollWheel |-> "Wheel", KeyDown |-> "KeyPress", KeyUp |-> "KeyRelease"]

(* kVkMap maps the codes it has to themselves. *)
mapKeyCode(code) == IF code < 128 THEN <<code>> ELSE <<>>

(* Left 0, Right 1, Middle 2; further buttons count as the left one. *)
mapMouseButton(number) == IF number \in 0 .. 2 THEN number ELSE 0

Event(kind, control, source) == [kind |-> kind, control |-> control, source |-> source]

(* The event, or <<>> for one that is not valid. *)
extract(type, control) ==
    CASE type \notin DOMAIN mapEventType -> <<>>
      [] type \in {"KeyDown", "KeyUp"} /\ type \in DOMAIN mapEventType ->
            IF mapKeyCode(control[2]) = <<>> THEN <<>>
            ELSE <<Event(mapEventType[type], control, "controller")>>
      [] type \in {"MouseDown", "MouseUp"} ->
            <<Event(mapEventType[type], <<"button", mapMouseButton(control[2])>>, "controller")>>
      [] OTHER -> <<Event(mapEventType[type], <<>>, "controller")>>

(* normalize: an invalid event is dropped.  On a full link the             *)
(* event is lost.                                                          *)
normalize(event) ==
    /\ IF Len(pipe \o event) <= MaxPipe
       THEN pipe' = pipe \o event /\ UNCHANGED faulty
       ELSE faulty' = TRUE /\ UNCHANGED pipe
    /\ UNCHANGED <<os, down, isController>>

PressControl(c) ==
    /\ c \notin held /\ held' = held \cup {c}
    /\ normalize(extract(IF c[1] = "key" THEN "KeyDown" ELSE "MouseDown", c))

ReleaseControl(c) ==
    /\ c \in held /\ held' = held \ {c}
    /\ normalize(extract(IF c[1] = "key" THEN "KeyUp" ELSE "MouseUp", c))

MoveOrScroll(type) ==
    /\ UNCHANGED held
    /\ normalize(extract(type, <<>>))

(* The link goes down with what is on it; a stranger's event comes up. *)
LinkLoss ==
    /\ pipe # <<>> /\ pipe' = <<>> /\ faulty' = TRUE
    /\ UNCHANGED <<os, held, down, isController>>

StrangerSends(c) ==
    /\ Len(pipe) < MaxPipe
    /\ pipe' = Append(pipe, Event("KeyPress", c, "stranger"))
    /\ UNCHANGED <<os, held, down, isController, faulty>>

-----------------------------------------------------------------------------
(* Injection at the target.                                                *)

(* What the system does with a button or key event it takes; a move or a   *)
(* turn of the wheel leaves the controls alone.                            *)
InjectMouseButtonEvent(event) ==
    IF event.kind = "MouseButtonPress" THEN down \cup {event.control} ELSE down \ {event.control}
InjectKeyEvent(event) ==
    IF event.kind = "KeyRelease" THEN down \ {event.control} ELSE down \cup {event.control}
Applied(event) ==
    CASE event.kind \in {"MouseButtonPress", "MouseButtonRelease"} -> InjectMouseButtonEvent(event)
      [] event.kind \in {"KeyPress", "KeyRelease"} -> InjectKeyEvent(event)
      [] OTHER -> down

(* The event is taken off the link; `ok' says whether it was injected. *)
Finish(event, ok) ==
    /\ pipe' = Tail(pipe)
    /\ down' = IF ok THEN Applied(event) ELSE down
    /\ faulty' = (faulty \/ (~ok /\ event.source = "controller"))
    /\ UNCHANGED <<os, held, isController>>

(* WinInputPlaneReceiver::handleReceivedEvent: the test of the source, the *)
(* injector with its own one, and SendInput, which may fail.               *)
HandleReceivedEvent ==
    /\ os = "win" /\ pipe # <<>>
    /\ LET event == Head(pipe) IN
       \E ok \in IF event.source = "controller" THEN BOOLEAN ELSE {FALSE} : Finish(event, ok)

(* CanonicalInputEvent::validate: kind and payload belong together. *)
validate(event) ==
    CASE event.kind \in {"MouseButtonPress", "MouseButtonRelease"} -> event.control[1] = "button"
      [] event.kind \in {"KeyPress", "KeyRelease"} -> event.control[1] = "key"
      [] OTHER -> event.control = <<>>

(* validateSource and validateParams on macOS. *)
ValidateOnMac(event) ==
    /\ validate(event) /\ ~isController /\ event.source = "controller"
    /\ event.kind \in {"KeyPress", "KeyRelease"} => event.control[2] < 256
    /\ event.kind \in {"MouseButtonPress", "MouseButtonRelease"} => event.control[2] \in 0 .. 2

(* An absolute move outside the screen is refused, and the system may fail *)
(* to make any event.                                                      *)
InjectOnMac ==
    /\ os = "mac" /\ pipe # <<>>
    /\ LET event == Head(pipe) IN
       \E ok \in IF ValidateOnMac(event) THEN BOOLEAN ELSE {FALSE} :
           Finish(event, ok)

SetControllerMode ==
    /\ os = "mac" /\ isController' = ~isController
    /\ UNCHANGED <<os, held, pipe, down, faulty>>

(* releaseAllPressed with the controls S pressed: on Windows all are       *)
(* released, if SendInput works; on macOS they are only counted.           *)
ReleaseAllPressed(S) ==
    /\ IF os = "win"
       THEN \E T \in SUBSET S : down' = down \ T
       ELSE UNCHANGED down
    /\ faulty' = (faulty /\ ~(down' = {} /\ pipe = <<>>))
    /\ UNCHANGED <<os, held, pipe, isController>>

PathNext ==
    \/ \E c \in Controls : PressControl(c) \/ ReleaseControl(c)
    \/ \E type \in {"MouseMoved", "MouseDragged", "ScrollWheel", "FlagsChanged"} : MoveOrScroll(type)
    \/ \E code \in KeyCodes \cap 0 .. 127 : StrangerSends(<<"key", code>>)
    \/ LinkLoss \/ HandleReceivedEvent \/ InjectOnMac \/ SetControllerMode
    \/ \E S \in SUBSET down : ReleaseAllPressed(S)

PathSpec == PathInit /\ [][PathNext]_pathVars

-----------------------------------------------------------------------------
(* Properties.                                                             *)

(* However presses and releases of several controls are interleaved, with  *)
(* keys the extractor does not know and buttons it takes for the left one, *)
(* once all are released and the link is empty nothing stays down at the   *)
(* target, unless an event was lost or refused and nothing released since. *)
NothingStuck == (held = {} /\ pipe = <<>> /\ ~faulty) => down = {}

=============================================================================
