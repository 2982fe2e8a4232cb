------------------------------- MODULE Hotkeys -------------------------------
(***************************************************************************)
(* The global hotkeys of src/win32/HotkeyManager.cpp.  ReplaceAll takes    *)
(* the old bindings away from Windows, asks for the new ones one by one,   *)
(* and on a refusal gives back what it got and asks for the old ones       *)
(* again.  Windows may refuse any of them: another program can take a key  *)
(* as soon as it is free.                                                  *)
(***************************************************************************)
EXTENDS Naturals, FiniteSets

CONSTANTS Layouts,   \* the choices of key combinations of the settings
          HotkeyIds  \* the identifiers of the commands

ASSUME HotkeysAssumption == HotkeyIds \subseteq Nat /\ HotkeyIds # {}

VARIABLES
  osKeys,    \* what Windows has registered for the window: <<id, layout>>
  bindings,  \* bindings_
  hkStep,    \* where ReplaceAll is
  hkNew,     \* the bindings asked for, while ReplaceAll runs
  hkOld,     \* previous_bindings, while ReplaceAll runs
  hkDone     \* whether the last ReplaceAll replaced them

hkVars == <<osKeys, bindings, hkStep, hkNew, hkOld, hkDone>>

Keys(layout) == HotkeyIds \X {layout}
BindingSets == {{}} \cup {Keys(l) : l \in Layouts}

HotkeysInit ==
  /\ osKeys = {} /\ bindings = {} /\ hkStep = "done"
  /\ hkNew = {} /\ hkOld = {} /\ hkDone = FALSE

HotkeysTypeOK ==
  /\ osKeys \subseteq HotkeyIds \X Layouts
  /\ {bindings, hkNew, hkOld} \subseteq BindingSets
  /\ hkStep \in {"done", "register", "undo", "restore", "abandon"}
  /\ hkDone \in BOOLEAN

ReplaceBegin(layout) ==
  /\ hkNew' = Keys(layout) /\ hkOld' = bindings
  /\ osKeys' = osKeys \ bindings /\ bindings' = {}
  /\ hkStep' = "register" /\ UNCHANGED hkDone

\* The lowest id is asked for first.
NextKey(wanted) ==
  CHOOSE k \in wanted \ osKeys : \A j \in wanted \ osKeys : k[1] <= j[1]

\* The end of ReplaceAll; what it returns is in hkDone.
ReplaceEnds(keys, done) ==
  /\ bindings' = keys /\ hkDone' = done /\ hkStep' = "done"
  /\ hkNew' = {} /\ hkOld' = {}

Continue(step) == hkStep' = step /\ UNCHANGED <<bindings, hkDone, hkNew, hkOld>>

ReplaceRegister ==
  /\ hkStep = "register"
  /\ \/ /\ osKeys' = osKeys \cup {NextKey(hkNew)}
        /\ IF hkNew \subseteq osKeys' THEN ReplaceEnds(hkNew, TRUE) ELSE Continue("register")
     \/ Continue("undo") /\ UNCHANGED osKeys

\* Mutant: what was registered so far is not given back.
UndoForgotten ==
  /\ hkStep = "undo" /\ UNCHANGED osKeys
  /\ IF hkOld = {} THEN ReplaceEnds({}, FALSE) ELSE Continue("restore")

\* What was registered so far is given back.
ReplaceUndo ==
  /\ hkStep = "undo"
  /\ osKeys' = osKeys \ hkNew
  /\ IF hkOld = {} THEN ReplaceEnds({}, FALSE) ELSE Continue("restore")

ReplaceRestore ==
  /\ hkStep = "restore"
  /\ \/ /\ osKeys' = osKeys \cup {NextKey(hkOld)}
        /\ IF hkOld \subseteq osKeys' THEN ReplaceEnds(hkOld, FALSE) ELSE Continue("restore")
     \/ Continue("abandon") /\ UNCHANGED osKeys

ReplaceAbandon ==
  /\ hkStep = "abandon"
  /\ osKeys' = osKeys \ hkOld
  /\ ReplaceEnds({}, FALSE)

ReplaceStep == ReplaceRegister \/ ReplaceUndo \/ ReplaceRestore \/ ReplaceAbandon

\* Windows drops the hotkeys of a window with the window; the manager follows.
WindowHotkeysGone == osKeys' = {} /\ UNCHANGED <<bindings, hkStep, hkNew, hkOld, hkDone>>

UnregisterAll ==
  /\ osKeys' = osKeys \ bindings /\ bindings' = {}
  /\ UNCHANGED <<hkStep, hkNew, hkOld, hkDone>>
=============================================================================
