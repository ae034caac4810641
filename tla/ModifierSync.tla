---------------------------- MODULE ModifierSync ----------------------------
(***************************************************************************)
(* syncModifiers of WinEventInjector and MacEventInjector: the modifiers   *)
(* of the source, taken from the flags of an event, are brought about at   *)
(* the target.  Windows looks at the keys, macOS compares with what it     *)
(* remembers.                                                              *)
(***************************************************************************)
EXTENDS Integers

CONSTANT Mods   \* modifiers, "fn" among them

VARIABLES
    injectorOs,          \* "win" or "mac", fixed
    modsDown,            \* modifiers down at the target
    localModifierState,  \* localModifierState_
    synced,              \* history: <<modifiers of the last syncModifiers>>, or <<>>
    reported,            \* history: what that call returned
    wrong                \* history: modifiers whose key event failed, or that changed by themselves, since set

modVars == <<injectorOs, modsDown, localModifierState, synced, reported, wrong>>

ModInit ==
    /\ injectorOs \in {"win", "mac"}
    /\ modsDown = {} /\ localModifierState = {} /\ synced = <<>> /\ reported = TRUE /\ wrong = {}

(* The modifiers of C are brought to their state in m; it fails for F. *)
Brought(m, C, F) == (modsDown \ (C \ F)) \cup ((m \cap C) \ F)

(* extractModifierState: each flag of the event is a modifier. *)
extractModifierState(flags) == flags \cap Mods

(* On Windows fn is not among the keys, a failure is not noticed, and the  *)
(* next call looks at the keys again.                                      *)
SyncModifiersWin(flags) ==
    /\ injectorOs = "win"
    /\ LET m == extractModifierState(flags)
           C == {k \in Mods \ {"fn"} : (k \in m) # (k \in modsDown)}
       IN  /\ \E F \in SUBSET C : modsDown' = Brought(m, C, F) /\ wrong' = F
           /\ localModifierState' = m /\ synced' = <<m \ {"fn"}>> /\ reported' = TRUE
    /\ UNCHANGED injectorOs

(* Mutant: the state that was brought about is not remembered. *)
SyncModifiersForgets(flags) ==
    /\ injectorOs = "mac"
    /\ LET C == {k \in Mods : (k \in flags) # (k \in localModifierState)} IN
       modsDown' = Brought(flags, C, {}) /\ wrong' = wrong \ C
    /\ synced' = <<flags>> /\ reported' = TRUE
    /\ UNCHANGED <<injectorOs, localModifierState>>

(* On macOS the state counts as reached even for a key whose event could   *)
(* not be made: only a change of that modifier at the source makes it      *)
(* right.                                                                  *)
SyncModifiersMac(flags) ==
    /\ injectorOs = "mac"
    /\ LET m == extractModifierState(flags)
           C == {k \in Mods : (k \in m) # (k \in localModifierState)}
       IN  /\ \E F \in SUBSET C :
                 /\ modsDown' = Brought(m, C, F)
                 /\ wrong' = (wrong \ C) \cup F /\ reported' = (F = {})
           /\ localModifierState' = m /\ synced' = <<m>>
    /\ UNCHANGED injectorOs

(* releaseAllPressed on Windows sends a key-up for the modifiers S that    *)
(* are in the snapshot, and forgets them all.                              *)
ReleaseModifiers(S) ==
    /\ injectorOs = "win"
    /\ modsDown' = modsDown \ S /\ wrong' = wrong \cup S /\ localModifierState' = {}
    /\ UNCHANGED <<injectorOs, synced, reported>>

(* A modifier is pressed or released at the target itself, or by an        *)
(* injected key event.                                                     *)
LocalModifier(k) ==
    /\ modsDown' = IF k \in modsDown THEN modsDown \ {k} ELSE modsDown \cup {k}
    /\ wrong' = wrong \cup {k}
    /\ UNCHANGED <<injectorOs, localModifierState, synced, reported>>

ModNext ==
    \/ \E flags \in SUBSET Mods : SyncModifiersWin(flags) \/ SyncModifiersMac(flags)
    \/ \E S \in SUBSET (Mods \ {"fn"}) : ReleaseModifiers(S)
    \/ \E k \in Mods \ {"fn"} : LocalModifier(k)

ModSpec == ModInit /\ [][ModNext]_modVars

(* After syncModifiers the target has the source's modifiers, each of them *)
(* whatever befell the others: on Windows but for those that failed in the *)
(* last call or changed since; on macOS, where a failure or a change at    *)
(* the target goes unseen, but for those not changed at the source since.  *)
(* And a call reports a failure only when it has left one wrong.           *)
ModifiersAligned ==
    synced # <<>> => /\ \A k \in Mods \ wrong : k \in modsDown <=> k \in synced[1]
                     /\ wrong = {} => reported

=============================================================================
