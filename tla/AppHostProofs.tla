---------------------------- MODULE AppHostProofs -----------------------------
(***************************************************************************)
(* Proofs about AppHost, for any layouts and identifiers of hotkeys and    *)
(* any number of recordings.                                               *)
(***************************************************************************)
EXTENDS AppHost, WellFoundedInduction, TLAPS

-----------------------------------------------------------------------------
(* The inductive invariant, in parts.                                      *)

Taking == {"preparing", "capturing", "saving"}
Leaving == {"exitUi", "exitMic", "exitMicJoin", "exitRecorder", "exitRecorderJoin",
            "exitHotkeys", "gone"}

(* The worker of the microphone check runs exactly as long as the session  *)
(* says that it is active, and is about to call the sink only where it has *)
(* changed the state.                                                      *)
MicInv ==
  /\ micRunning <=> MicActive
  /\ micRunning <=> micWorker \in {"setup", "started", "monitoring", "unplugged", "returned"}
  /\ micHand => micWorker \in {"setup", "monitoring", "ended"}
  /\ micClosing => ui \in Leaving

(* A recording's worker is before its last publication only while the      *)
(* session is active, and the other way round until the session is closed. *)
RecInv ==
  /\ recAt \in Taking => RecActive
  /\ RecActive /\ ~recClosing => recAt \in Taking
  /\ recHand => recAt # "none"
  /\ recSink <=> ui # "replace"
  /\ recClosing <=> ui \in {"replace", "exitRecorderJoin", "exitHotkeys", "gone"}
  /\ ui = "replace" => ~RecActive

(* What the message thread has found out on its way still holds where it   *)
(* acts on it: nothing but itself starts a worker.                         *)
WayInv ==
  /\ window <=> ui \notin Leaving
  /\ ui = "toggleStart" => ~MicActive
  /\ ui \in {"micStart", "micReap", "micSession"} => ~MicActive
  /\ ui \in {"micReap", "micSession"} => ~RecActive /\ ~pendingStart
  /\ ui = "micSession" => micWorker = "none"
  /\ ui \in {"exitRecorder", "exitRecorderJoin", "exitHotkeys", "gone"} => micWorker = "none"
  /\ ui \in {"exitHotkeys", "gone"} => recAt = "none"
  /\ recAt \in Taking => ~micRunning

(* Somebody is still to wake a recording that waits for the microphone.    *)
PendingInv ==
  pendingStart /\ window =>
    IF micRunning THEN micStop \/ ui = "toggleMicStop"
    ELSE micHand \/ "mic" \in posted

(* A state the tray does not show is on its way to it.                     *)
TrayInv ==
  window => recHand \/ "recorder" \in posted \/ Tray = TrayState(recState)

(* ReplaceAll has taken from Windows what the manager knew, and knows what *)
(* it has asked Windows for since.                                         *)
KeysInv ==
  /\ hkStep # "done" => ui \in {"initStartup", "applyHotkeys", "rollback"} /\ bindings = {}
  /\ hkStep = "done" /\ window => osKeys = bindings
  /\ hkStep = "register" => hkNew # {} /\ osKeys \subseteq hkNew /\ hkNew \ osKeys # {}
  /\ hkStep = "undo" => osKeys \subseteq hkNew
  /\ hkStep = "restore" => osKeys \subseteq hkOld /\ hkOld \ osKeys # {}
  /\ hkStep = "abandon" => osKeys \subseteq hkOld
  /\ ~window => osKeys = {}

IInv ==
  /\ TypeOK /\ MicInv /\ RecInv /\ WayInv /\ PendingInv /\ TrayInv /\ KeysInv
  /\ SettingsReachRecorder

-----------------------------------------------------------------------------
(* What a step is for each of the machines the host coordinates.           *)

MicMoves ==
  \/ MicReap \/ MicStart \/ MicStopCommand \/ MicShutdownBegin \/ MicShutdownJoined
  \/ BackendSetup \/ BackendStarted \/ BackendLoopEnds \/ BackendUnplugged
  \/ WorkerResult \/ CallMicSink \/ UNCHANGED micVars

KeyMoves ==
  \/ ReplaceStep \/ WindowHotkeysGone \/ UnregisterAll \/ UNCHANGED hkVars
  \/ \E layout \in Layouts : ReplaceBegin(layout)

RecMoves ==
  \/ RecPrepare \/ RecStopCapture \/ RecOutcome \/ RecReports \/ CallRecSink
  \/ RecStart \/ RecStopAndSave \/ RecReplaceBegin \/ UNCHANGED <<recVars, unreported>>
  \/ ReplaceRecorder \/ HandleRecorderStateChanged \/ ShutdownRecorder

(* The commands of the message thread, by what they touch beside it.       *)
Thinks ==
  \/ ToggleCommand \/ ToggleByRecorder \/ ToggleByMic \/ MicStartButton \/ StartMicMonitor
  \/ HandleMicMonitorStateChanged \/ HandleRecorderStateChanged
MicCommand == ToggleStopsMic \/ MicStopButton \/ ReapMic \/ StartMic \/ ShutdownUi \/ ShutdownMic
RecCommand ==
  \/ ToggleStops \/ ToggleStarts \/ ReconfigureRecorderIfInactive \/ ReplaceRecorder
  \/ ApplyCommit \/ ShutdownRecorder
KeyCommand ==
  \/ InitHotkeys \/ InitStartup \/ ApplyHotkeys \/ ApplyStartup \/ ApplySave \/ RolledBack
  \/ ExitCommand \/ ShutdownHotkeys \/ \E new \in Layouts : ApplySettings(new)

(* These are all the steps there are.                                      *)
LEMMA StepsAre ==
  ASSUME [Next]_vars
  PROVE  \/ Thinks \/ MicCommand \/ RecCommand \/ KeyCommand
         \/ HotkeyStep \/ MicStep \/ RecWorkerStep \/ UNCHANGED vars
BY DEF Next, UserCommand, UiContinues, Done, Thinks, MicCommand, RecCommand, KeyCommand

(* Whatever the host does, each machine takes one of its own steps or none. *)
LEMMA MicMoveOf == TypeOK /\ [Next]_vars => MicMoves
<1> SUFFICES ASSUME TypeOK, [Next]_vars PROVE MicMoves
  OBVIOUS
<1>1. CASE MicCommand
  BY <1>1 DEF MicCommand, MicMoves, ToggleStopsMic, MicStopButton, ReapMic, StartMic, ShutdownUi, ShutdownMic
<1>2. CASE Thinks \/ RecCommand
  BY <1>2 DEF Thinks, RecCommand, MicMoves, MicUntouched, ToggleCommand, ToggleByRecorder,
    ToggleByMic, MicStartButton, StartMicMonitor, HandleMicMonitorStateChanged,
    HandleRecorderStateChanged, ToggleStops, ToggleStarts, ReconfigureRecorderIfInactive,
    ReplaceRecorder, ApplyCommit, ShutdownRecorder
<1>3. CASE KeyCommand \/ HotkeyStep
  BY <1>3 DEF KeyCommand, MicMoves, HotkeyStep, MicUntouched, OtherThanSettings, InitHotkeys,
    InitStartup, ApplyHotkeys, ApplyStartup, ApplySave, ApplyStep, RolledBack, ExitCommand,
    ShutdownHotkeys, ApplySettings
<1>4. CASE MicStep
  BY <1>4 DEF MicMoves, MicStep, MicWorkerStep, MicProgress
<1>5. CASE RecWorkerStep \/ UNCHANGED vars
  BY <1>5 DEF MicMoves, RecWorkerStep, vars
<1> QED BY <1>1, <1>2, <1>3, <1>4, <1>5, StepsAre

LEMMA KeyMoveOf == TypeOK /\ [Next]_vars => KeyMoves
<1> SUFFICES ASSUME TypeOK, [Next]_vars PROVE KeyMoves
  OBVIOUS
<1>0. settings \in Layouts
  BY DEF TypeOK
<1>1. CASE Thinks \/ MicCommand
  BY <1>1 DEF MicCommand, KeyMoves, ToggleStopsMic, MicStopButton, ReapMic, StartMic, ShutdownUi, ShutdownMic,
    Thinks, SettingsUntouched, ToggleCommand, ToggleByRecorder,
    ToggleByMic, MicStartButton, StartMicMonitor, HandleMicMonitorStateChanged,
    HandleRecorderStateChanged
<1>2. CASE RecCommand
  BY <1>2 DEF RecCommand, KeyMoves, SettingsUntouched, hkVars, ToggleStops, ToggleStarts,
    ReconfigureRecorderIfInactive, ReplaceRecorder, ApplyCommit, ShutdownRecorder
<1>3. CASE KeyCommand \/ HotkeyStep
  BY <1>0, <1>3 DEF KeyCommand, KeyMoves, HotkeyStep, SettingsUntouched, InitHotkeys,
    InitStartup, ApplyHotkeys, ApplyStartup, ApplySave, ApplyStep, RolledBack, ExitCommand,
    ShutdownHotkeys, ApplySettings
<1>4. CASE MicStep \/ RecWorkerStep \/ UNCHANGED vars
  BY <1>4 DEF KeyMoves, MicStep, RecWorkerStep, SettingsUntouched, vars
<1> QED BY <1>1, <1>2, <1>3, <1>4, StepsAre

LEMMA RecMoveOf == [Next]_vars => RecMoves
<1> SUFFICES ASSUME [Next]_vars PROVE RecMoves
  OBVIOUS
<1> USE DEF RecMoves, RecUntouched, recVars
<1>1. CASE Thinks \/ MicCommand
  BY <1>1 DEF MicCommand, ToggleStopsMic, MicStopButton, ReapMic, StartMic, ShutdownUi,
    ShutdownMic, Thinks, ToggleCommand, ToggleByRecorder, ToggleByMic, MicStartButton,
    StartMicMonitor, HandleMicMonitorStateChanged
<1>2. CASE RecCommand
  BY <1>2 DEF RecCommand, ToggleStops, ToggleStarts, ReconfigureRecorderIfInactive, ApplyCommit
<1>3. CASE KeyCommand \/ HotkeyStep
  BY <1>3 DEF KeyCommand, HotkeyStep, OtherThanSettings, InitHotkeys,
    InitStartup, ApplyHotkeys, ApplyStartup, ApplySave, ApplyStep, RolledBack, ExitCommand,
    ShutdownHotkeys, ApplySettings
<1>4. CASE MicStep
  BY <1>4 DEF MicStep
<1>5. CASE RecWorkerStep \/ UNCHANGED vars
  BY <1>5 DEF RecWorkerStep, RecProgress, vars
<1> QED BY <1>1, <1>2, <1>3, <1>4, <1>5, StepsAre

-----------------------------------------------------------------------------
(* Types.                                                                  *)

LEMMA MicTypes == MicTypeOK /\ MicMoves => MicTypeOK'
BY DEF MicTypeOK, MicMoves, MicStates, MicAt, MicReap, MicStart, MicStopCommand,
  MicShutdownBegin, MicShutdownJoined, BackendSetup, BackendStarted, BackendLoopEnds,
  BackendUnplugged, WorkerResult, CallMicSink, ApplyBackendUpdate, SessionUntouched, micVars

(* A set of numbers has a least one, so that there is a next key to ask    *)
(* for as long as one is wanted.                                           *)
Lower == {p \in Nat \X Nat : p[1] < p[2]}

LEMMA LowerIsWellFounded == IsWellFoundedOn(Lower, Nat)
BY NatLessThanWellFounded DEF OpToRel, Lower

LEMMA NextIsWanted ==
  ASSUME NEW wanted \in BindingSets, wanted \ osKeys # {}
  PROVE  NextKey(wanted) \in wanted \ osKeys
<1>1. PICK layout \in Layouts : wanted = HotkeyIds \X {layout}
  BY DEF BindingSets, Keys
<1> DEFINE asked == {k[1] : k \in wanted \ osKeys}
<1>2. asked \subseteq Nat /\ asked # {}
  <2>1. \A k \in wanted : k[1] \in Nat
    BY <1>1, HotkeysAssumption
  <2> QED BY <2>1
<1>3. PICK id \in asked : \A other \in asked : ~(<<other, id>> \in Lower)
  BY <1>2, LowerIsWellFounded, WFMin
<1>4. \A other \in asked : id <= other
  <2> SUFFICES ASSUME NEW other \in asked PROVE id <= other
    OBVIOUS
  <2>1. id \in Nat /\ other \in Nat
    BY <1>2
  <2>2. ~(<<other, id>> \in Lower)
    BY <1>3
  <2> QED BY <2>1, <2>2 DEF Lower
<1>5. PICK key \in wanted \ osKeys : key[1] = id
  OBVIOUS
<1>6. \A j \in wanted \ osKeys : key[1] <= j[1]
  BY <1>4, <1>5
<1> QED BY <1>6 DEF NextKey

LEMMA HotkeyTypes == HotkeysTypeOK /\ KeysInv /\ KeyMoves => HotkeysTypeOK'
<1> SUFFICES ASSUME HotkeysTypeOK, KeysInv, KeyMoves PROVE HotkeysTypeOK'
  OBVIOUS
<1> USE DEF HotkeysTypeOK
<1>0. \A keys \in BindingSets : keys \subseteq HotkeyIds \X Layouts
  BY DEF BindingSets, Keys
<1>00. {} \in BindingSets
  BY DEF BindingSets
<1>1. CASE ReplaceRegister
  <2>1. NextKey(hkNew) \in hkNew
    BY <1>1, NextIsWanted DEF ReplaceRegister, KeysInv
  <2> QED BY <1>0, <1>00, <1>1, <2>1 DEF ReplaceRegister, ReplaceEnds, Continue
<1>2. CASE ReplaceRestore
  <2>1. NextKey(hkOld) \in hkOld
    BY <1>2, NextIsWanted DEF ReplaceRestore, KeysInv
  <2> QED BY <1>0, <1>00, <1>2, <2>1 DEF ReplaceRestore, ReplaceEnds, Continue
<1>3. CASE ReplaceUndo \/ ReplaceAbandon
  BY <1>00, <1>3 DEF ReplaceUndo, ReplaceAbandon, ReplaceEnds, Continue
<1>4. ASSUME NEW layout \in Layouts, ReplaceBegin(layout) PROVE HotkeysTypeOK'
  <2>1. Keys(layout) \in BindingSets
    BY DEF BindingSets
  <2> QED BY <1>00, <1>4, <2>1 DEF ReplaceBegin
<1>5. CASE WindowHotkeysGone \/ UnregisterAll \/ UNCHANGED hkVars
  BY <1>00, <1>5 DEF WindowHotkeysGone, UnregisterAll, hkVars
<1> QED BY <1>1, <1>2, <1>3, <1>4, <1>5 DEF KeyMoves, ReplaceStep

(* The rest of the types: the recorder as the host sees it, and the host.  *)
RecTypeOK ==
  /\ recState \in RecStates /\ recGen \in 0 .. MaxStarts
  /\ recAt \in {"none", "preparing", "capturing", "saving", "ended"}
  /\ recAt \in Taking => recGen > 0
  /\ recStop \in BOOLEAN /\ recClosing \in BOOLEAN /\ recSink \in BOOLEAN
  /\ recHand \in BOOLEAN /\ unreported \in BOOLEAN

HostTypeOK ==
  /\ window \in BOOLEAN /\ posted \subseteq {"mic", "recorder"}
  /\ ui \in UiSteps /\ after \in {"idle", "toggle"}
  /\ settings \in Layouts /\ candidate \in Layouts /\ recConfig \in Layouts
  /\ pendingStart \in BOOLEAN /\ reconfigure \in BOOLEAN
  /\ lastSeen \in (0 .. MaxStarts) \X RecStates

LEMMA TypesAre ==
  TypeOK <=> MicTypeOK /\ HotkeysTypeOK /\ RecTypeOK /\ HostTypeOK
BY DEF TypeOK, RecTypeOK, HostTypeOK, Taking

LEMMA RecPublishTypes ==
  ASSUME RecTypeOK, NEW state \in RecStates, RecPublish(state)
  PROVE  recState' \in RecStates /\ recHand' \in BOOLEAN /\ unreported' \in BOOLEAN
BY DEF RecTypeOK, RecPublish

LEMMA RecTypes == RecTypeOK /\ RecMoves => RecTypeOK'
<1> SUFFICES ASSUME RecTypeOK, RecMoves PROVE RecTypeOK'
  OBVIOUS
<1> USE DEF Taking
<1>1. CASE RecPrepare \/ RecStopCapture \/ RecOutcome
  <2>1. \E state \in RecStates : RecPublish(state)
    BY <1>1 DEF RecPrepare, RecStopCapture, RecOutcome, RecStates
  <2>2. \E from \in Taking, to \in {"capturing", "saving", "ended"} : RecWorker(from, to)
    BY <1>1 DEF RecPrepare, RecStopCapture, RecOutcome
  <2> QED BY <2>1, <2>2, RecPublishTypes DEF RecTypeOK, RecWorker
<1>2. CASE RecReports \/ CallRecSink
  BY <1>2 DEF RecReports, CallRecSink, RecTypeOK
<1>3. CASE RecStart
  <2>1. CASE RecActive \/ recClosing \/ recGen = MaxStarts
    BY <1>3, <2>1 DEF RecStart, RecUntouched, recVars, RecTypeOK
  <2>2. CASE ~(RecActive \/ recClosing \/ recGen = MaxStarts)
    <3>1. recGen' \in 0..MaxStarts /\ recGen' > 0
      BY <1>3, <2>2, MaxStartsAssumption DEF RecStart, RecTypeOK
    <3> QED BY <1>3, <2>2, <3>1 DEF RecStart, RecTypeOK, RecStates
  <2> QED BY <2>1, <2>2
<1>4. CASE RecStopAndSave
  BY <1>4 DEF RecStopAndSave, RecUntouched, recVars, RecTypeOK, RecStates
<1>5. CASE RecReplaceBegin
  BY <1>5 DEF RecReplaceBegin, RecTypeOK
<1>7. CASE ReplaceRecorder
  <2>1. recGen' \in 0..MaxStarts
    BY <1>7, MaxStartsAssumption DEF ReplaceRecorder
  <2> QED BY <1>7, <2>1 DEF ReplaceRecorder, RecTypeOK, RecStates
<1>6. CASE HandleRecorderStateChanged \/ ShutdownRecorder \/ UNCHANGED <<recVars, unreported>>
  BY <1>6 DEF HandleRecorderStateChanged, ShutdownRecorder, recVars, RecTypeOK, RecStates
<1> QED BY <1>1, <1>2, <1>3, <1>4, <1>5, <1>6, <1>7 DEF RecMoves

LEMMA PostTypes ==
  ASSUME HostTypeOK, NEW kind \in {"mic", "recorder"}, Post(kind)
  PROVE  posted' \subseteq {"mic", "recorder"}
BY DEF Post, HostTypeOK

LEMMA HostTypes ==
  ASSUME TypeOK, [Next]_vars
  PROVE  HostTypeOK'
<1>0. HostTypeOK /\ recState \in RecStates /\ recGen \in 0 .. MaxStarts
  BY TypesAre DEF RecTypeOK
<1>1. CASE Thinks
  <2>1. pendingStart' \in BOOLEAN
    <3>1. CASE ToggleByMic
      BY <3>1, Zenon DEF ToggleByMic
    <3> QED BY <1>0, <1>1, <3>1 DEF Thinks, HostTypeOK, hostVars, ToggleCommand,
      ToggleByRecorder, MicStartButton, StartMicMonitor, HandleMicMonitorStateChanged,
      HandleRecorderStateChanged
  <2>2. lastSeen' \in {lastSeen, <<recGen, recState>>} /\ posted' \subseteq posted
    BY <1>1 DEF Thinks, ToggleCommand, ToggleByRecorder, ToggleByMic, MicStartButton,
      StartMicMonitor, HandleMicMonitorStateChanged, HandleRecorderStateChanged, hostVars
  <2>3. ui' \in UiSteps /\ after' \in {"idle", "toggle"}
    BY <1>0, <1>1 DEF Thinks, HostTypeOK, UiSteps, hostVars, Goto, ReconfigureThen, ToggleCommand,
      ToggleByRecorder, ToggleByMic, MicStartButton, StartMicMonitor,
      HandleMicMonitorStateChanged, HandleRecorderStateChanged
  <2>4. UNCHANGED <<window, settings, candidate, recConfig, reconfigure>>
    BY <1>1 DEF Thinks, SettingsUntouched, RecUntouched, recVars, settingsVars, hostVars,
      ToggleCommand, ToggleByRecorder, ToggleByMic, MicStartButton, StartMicMonitor,
      HandleMicMonitorStateChanged, HandleRecorderStateChanged
  <2> QED BY <1>0, <2>1, <2>2, <2>3, <2>4 DEF HostTypeOK
<1>2. CASE MicCommand
  <2>1. posted' = posted \/ Post("mic")
    BY <1>2 DEF MicCommand, ToggleStopsMic, MicStopButton, ReapMic, StartMic, ShutdownUi,
      ShutdownMic, MicStopCommand, MicPublish, MicReap, MicStart, MicShutdownBegin, MicShutdownJoined
  <2>2. ui' \in UiSteps
    BY <1>0, <1>2 DEF MicCommand, ToggleStopsMic, MicStopButton, ReapMic, StartMic, ShutdownUi,
      ShutdownMic, Goto, UiSteps, HostTypeOK
  <2>3. UNCHANGED <<window, hostVars, settingsVars, recVars>>
    BY <1>2 DEF MicCommand, ToggleStopsMic, MicStopButton, ReapMic, StartMic, ShutdownUi,
      ShutdownMic, SettingsUntouched, RecUntouched
  <2> QED BY <1>0, <2>1, <2>2, <2>3, PostTypes DEF HostTypeOK, hostVars, settingsVars, recVars
<1>3. CASE RecCommand
  <2>1. posted' = posted \/ Post("recorder")
    BY <1>3 DEF RecCommand, ToggleStops, ToggleStarts, ReconfigureRecorderIfInactive,
      ReplaceRecorder, ApplyCommit, ShutdownRecorder, RecStopAndSave, RecStart, RecUntouched
  <2>2. ui' \in UiSteps /\ after' \in {"idle", "toggle"} /\ UNCHANGED <<window, lastSeen, pendingStart>>
    BY <1>0, <1>3 DEF RecCommand, ToggleStops, ToggleStarts, ReconfigureRecorderIfInactive,
      ReplaceRecorder, ApplyCommit, ShutdownRecorder, hostVars, Goto, UiSteps, HostTypeOK
  <2>3. recConfig' \in {recConfig, settings} /\ settings' \in {settings, candidate} /\ UNCHANGED candidate
    BY <1>3 DEF RecCommand, ToggleStops, ToggleStarts, ReconfigureRecorderIfInactive,
      ReplaceRecorder, ApplyCommit, ShutdownRecorder, RecStopAndSave, RecStart, RecUntouched,
      RecReplaceBegin, recVars, SettingsUntouched, settingsVars
  <2>4. reconfigure' \in BOOLEAN
    <3>1. CASE ApplyCommit
      <4>1. reconfigure' = RecActive
        BY <3>1, Zenon DEF ApplyCommit
      <4>2. CASE RecActive
        BY <4>1, <4>2
      <4>3. CASE ~RecActive
        BY <4>1, <4>3 DEF RecActive
      <4> QED BY <4>2, <4>3
    <3> QED BY <1>0, <1>3, <3>1 DEF RecCommand, ToggleStops, ToggleStarts,
      ReconfigureRecorderIfInactive, ReplaceRecorder, ShutdownRecorder, hostVars, HostTypeOK
  <2> QED BY <1>0, <2>1, <2>2, <2>3, <2>4, PostTypes DEF HostTypeOK
<1>4. CASE KeyCommand
  BY <1>0, <1>4 DEF KeyCommand, HostTypeOK, UiSteps, OtherThanSettings, SettingsUntouched, RecUntouched,
    recVars, settingsVars, hostVars, Goto, Rejected, InitHotkeys, InitStartup, ApplyHotkeys,
    ApplyStartup, ApplySave, ApplyStep, RolledBack, ExitCommand, ShutdownHotkeys, ApplySettings
<1>5. CASE HotkeyStep
  BY <1>0, <1>5 DEF HotkeyStep, HostTypeOK, RecUntouched, recVars, settingsVars, hostVars
<1>6. CASE MicStep
  <2>1. posted' = posted \/ Post("mic")
    BY <1>6 DEF MicStep, MicWorkerStep, MicProgress, BackendSetup, BackendStarted, BackendLoopEnds,
      BackendUnplugged, WorkerResult, CallMicSink, SessionUntouched, ApplyBackendUpdate
  <2> QED BY <1>0, <1>6, <2>1, PostTypes DEF MicStep, MicWorkerStep, HostTypeOK, SettingsUntouched,
    RecUntouched, recVars, settingsVars, hostVars
<1>7. CASE RecWorkerStep
  <2>1. (posted' = posted \/ Post("recorder")) /\ UNCHANGED recConfig
    BY <1>7 DEF RecWorkerStep, RecProgress, RecPrepare, RecStopCapture, RecOutcome, RecReports,
      CallRecSink, RecWorker
  <2> QED BY <1>0, <1>7, <2>1, PostTypes DEF RecWorkerStep, HostTypeOK, settingsVars, hostVars
<1>8. CASE UNCHANGED vars
  BY <1>0, <1>8 DEF vars, HostTypeOK, hostVars, settingsVars, recVars
<1> QED BY <1>1, <1>2, <1>3, <1>4, <1>5, <1>6, <1>7, <1>8, StepsAre

LEMMA Types ==
  ASSUME TypeOK, KeysInv, [Next]_vars
  PROVE  TypeOK'
<1>1. MicTypeOK' /\ HotkeysTypeOK' /\ RecTypeOK'
  BY TypesAre, MicMoveOf, KeyMoveOf, RecMoveOf, MicTypes, HotkeyTypes, RecTypes
<1> QED BY <1>1, HostTypes, TypesAre DEF TypeOK, RecTypeOK, HostTypeOK, Taking


-----------------------------------------------------------------------------
(* The microphone check.                                                   *)

(* There is no way back from the destruction of the hidden window.         *)
LEMMA LeavingIsFinal ==
  ASSUME [Next]_vars, ui \in Leaving
  PROVE  ui' \in Leaving
<1> USE DEF Leaving, Goto
<1>1. CASE Thinks
  BY <1>1 DEF Thinks, ToggleCommand, ToggleByRecorder, ToggleByMic, MicStartButton,
    StartMicMonitor, HandleMicMonitorStateChanged, HandleRecorderStateChanged
<1>2. CASE MicCommand
  BY <1>2 DEF MicCommand, ToggleStopsMic, MicStopButton, ReapMic, StartMic, ShutdownUi, ShutdownMic
<1>3. CASE RecCommand
  BY <1>3 DEF RecCommand, ToggleStops, ToggleStarts, ReconfigureRecorderIfInactive,
    ReplaceRecorder, ApplyCommit, ShutdownRecorder
<1>4. CASE KeyCommand
  BY <1>4 DEF KeyCommand, Rejected, InitHotkeys, InitStartup, ApplyHotkeys, ApplyStartup,
    ApplySave, ApplyStep, RolledBack, ExitCommand, ShutdownHotkeys, ApplySettings
<1>5. CASE HotkeyStep \/ MicStep \/ RecWorkerStep \/ UNCHANGED vars
  BY <1>5 DEF HotkeyStep, MicStep, RecWorkerStep, vars
<1> QED BY <1>1, <1>2, <1>3, <1>4, <1>5, StepsAre

LEMMA ClosingWhileLeaving ==
  ASSUME MicInv, [Next]_vars
  PROVE  micClosing' => ui' \in Leaving
<1>1. CASE ShutdownMic
  BY <1>1 DEF ShutdownMic, Goto, Leaving
<1>2. CASE ~ShutdownMic
  <2>1. micClosing' = micClosing
    <3>1. CASE MicCommand
      BY <1>2, <3>1 DEF MicCommand, micVars, ToggleStopsMic, MicStopButton, ReapMic, StartMic, ShutdownUi,
        MicStopCommand, MicReap, MicStart
    <3>2. CASE Thinks \/ RecCommand
      BY <3>2 DEF Thinks, RecCommand, micVars, MicUntouched, ToggleCommand, ToggleByRecorder,
        ToggleByMic, MicStartButton, StartMicMonitor, HandleMicMonitorStateChanged,
        HandleRecorderStateChanged, ToggleStops, ToggleStarts, ReconfigureRecorderIfInactive,
        ReplaceRecorder, ApplyCommit, ShutdownRecorder
    <3>3. CASE KeyCommand \/ HotkeyStep
      BY <3>3 DEF KeyCommand, micVars, HotkeyStep, MicUntouched, OtherThanSettings, InitHotkeys,
        InitStartup, ApplyHotkeys, ApplyStartup, ApplySave, ApplyStep, RolledBack, ExitCommand,
        ShutdownHotkeys, ApplySettings
    <3>4. CASE MicStep
      BY <3>4 DEF MicStep, MicWorkerStep, MicProgress, BackendSetup, BackendStarted, BackendLoopEnds,
        BackendUnplugged, WorkerResult, CallMicSink, ApplyBackendUpdate, SessionUntouched
    <3>5. CASE RecWorkerStep \/ UNCHANGED vars
      BY <3>5 DEF RecWorkerStep, vars, micVars
    <3> QED BY <1>2, <3>1, <3>2, <3>3, <3>4, <3>5, StepsAre
  <2> QED BY <2>1, LeavingIsFinal DEF MicInv
<1> QED BY <1>1, <1>2

LEMMA MicStepKeeps == IInv /\ [Next]_vars => MicInv'
<1> SUFFICES ASSUME IInv, [Next]_vars PROVE MicInv'
  OBVIOUS
<1>1. MicInv /\ MicTypeOK /\ MicMoves
  BY MicMoveOf DEF IInv, TypeOK
<1>2. /\ micRunning' <=> MicActive'
      /\ micRunning' <=> micWorker' \in {"setup", "started", "monitoring", "unplugged", "returned"}
      /\ micHand' => micWorker' \in {"setup", "monitoring", "ended"}
  BY <1>1 DEF MicInv, MicTypeOK, MicActive, MicStates, MicAt, MicMoves, MicReap, MicStart,
    MicStopCommand, MicMayStart, MicJoinable,
    MicShutdownBegin, MicShutdownJoined, BackendSetup, BackendStarted, BackendLoopEnds,
    BackendUnplugged, WorkerResult, CallMicSink, ApplyBackendUpdate, SessionUntouched, micVars
<1> QED BY <1>1, <1>2, ClosingWhileLeaving DEF MicInv

-----------------------------------------------------------------------------
(* The recorder.                                                           *)

LEMMA RecStepKeeps == IInv /\ [Next]_vars => RecInv'
<1> SUFFICES ASSUME IInv, [Next]_vars PROVE RecInv'
  OBVIOUS
<1>0. RecInv /\ RecTypeOK /\ ui \in UiSteps
  BY TypesAre DEF IInv, TypeOK
<1> USE DEF RecInv, RecActive, Taking, Goto
<1>1. CASE Thinks
  BY <1>0, <1>1 DEF RecTypeOK, Thinks, ReconfigureThen, RecUntouched, recVars,
    ToggleCommand, ToggleByRecorder, ToggleByMic, MicStartButton, StartMicMonitor,
    HandleMicMonitorStateChanged, HandleRecorderStateChanged
<1>2. CASE MicCommand
  BY <1>0, <1>2 DEF RecTypeOK, RecUntouched, recVars, MicCommand, ToggleStopsMic, MicStopButton, ReapMic,
    StartMic, ShutdownUi, ShutdownMic
<1>3. CASE RecCommand
  <2>1. CASE ToggleStops
    BY <1>0, <2>1 DEF RecTypeOK, ToggleStops, RecStopAndSave, RecUntouched, recVars
  <2>2. CASE ToggleStarts
    BY <1>0, <2>2 DEF RecTypeOK, ToggleStarts, RecStart, RecJoinable, RecUntouched, recVars
  <2>3. CASE ReconfigureRecorderIfInactive
    BY <1>0, <2>3 DEF RecTypeOK, HostTypeOK, ReconfigureRecorderIfInactive, RecReplaceBegin, RecUntouched, recVars, IInv, TypeOK
  <2>4. CASE ReplaceRecorder
    BY <1>0, <2>4 DEF RecTypeOK, ReplaceRecorder, RecJoinable, IInv, TypeOK
  <2>5. CASE ApplyCommit
    BY <1>0, <2>5 DEF RecTypeOK, ApplyCommit, RecReplaceBegin, RecUntouched, recVars
  <2>6. CASE ShutdownRecorder
    BY <1>0, <2>6 DEF RecTypeOK, ShutdownRecorder, RecJoinable
  <2> QED BY <1>3, <2>1, <2>2, <2>3, <2>4, <2>5, <2>6 DEF RecCommand
<1>4. CASE KeyCommand
  BY <1>0, <1>4 DEF RecTypeOK, KeyCommand, OtherThanSettings, RecUntouched, recVars, Rejected, InitHotkeys,
    InitStartup, ApplyHotkeys, ApplyStartup, ApplySave, ApplyStep, RolledBack, ExitCommand,
    ShutdownHotkeys, ApplySettings
<1>5. CASE HotkeyStep \/ MicStep \/ UNCHANGED vars
  BY <1>0, <1>5 DEF RecTypeOK, HotkeyStep, MicStep, RecUntouched, recVars, vars
<1>6. CASE RecWorkerStep
  <2>1. UNCHANGED ui
    BY <1>6 DEF RecWorkerStep
  <2>2. CASE RecPrepare
    BY <1>0, <2>1, <2>2 DEF RecTypeOK, RecPrepare, RecWorker, RecPublish
  <2>3. CASE RecStopCapture \/ RecOutcome
    BY <1>0, <2>1, <2>3 DEF RecTypeOK, RecStopCapture, RecOutcome, RecWorker, RecPublish
  <2>4. CASE RecReports \/ CallRecSink
    BY <1>0, <2>1, <2>4 DEF RecTypeOK, RecReports, CallRecSink
  <2> QED BY <1>6, <2>2, <2>3, <2>4 DEF RecWorkerStep, RecProgress
<1> QED BY <1>1, <1>2, <1>3, <1>4, <1>5, <1>6, StepsAre

-----------------------------------------------------------------------------
(* What the message thread has found out on its way.                       *)

LEMMA WayStepKeeps == IInv /\ [Next]_vars => WayInv'
<1> SUFFICES ASSUME IInv, [Next]_vars PROVE WayInv'
  OBVIOUS
<1>0. WayInv /\ RecInv /\ MicInv /\ TypeOK /\ MicMoves
  BY MicMoveOf DEF IInv
<1>00. MicInv' /\ RecInv'
  BY MicStepKeeps, RecStepKeeps
<1>1. CASE Thinks
  <2>1. UNCHANGED <<micVars, recState, recAt, window>>
    BY <1>1 DEF Thinks, MicUntouched, RecUntouched, recVars, ToggleCommand, ToggleByRecorder, ToggleByMic,
      MicStartButton, StartMicMonitor, HandleMicMonitorStateChanged, HandleRecorderStateChanged
  <2>2. CASE ToggleByMic
    BY <1>0, <2>1, <2>2 DEF ToggleByMic, WayInv, Goto, Leaving, Taking, MicActive, micVars
  <2>3. CASE MicStartButton \/ StartMicMonitor
    BY <1>0, <2>1, <2>3 DEF MicStartButton, StartMicMonitor, hostVars, WayInv, Goto, Leaving, Taking,
      MicActive, RecActive, micVars
  <2>4. CASE ToggleCommand \/ ToggleByRecorder \/ HandleMicMonitorStateChanged \/ HandleRecorderStateChanged
    BY <1>0, <2>1, <2>4 DEF ToggleCommand, ToggleByRecorder, HandleMicMonitorStateChanged,
      HandleRecorderStateChanged, ReconfigureThen, hostVars, WayInv, Goto, Leaving, Taking, MicActive, micVars
  <2> QED BY <1>1, <2>2, <2>3, <2>4 DEF Thinks
<1>2. CASE MicCommand
  <2>1. UNCHANGED <<recState, recAt, window, pendingStart>>
    BY <1>2 DEF MicCommand, RecUntouched, recVars, hostVars, ToggleStopsMic, MicStopButton, ReapMic,
      StartMic, ShutdownUi, ShutdownMic
  <2>2. CASE ReapMic
    BY <1>0, <2>1, <2>2 DEF ReapMic, MicReap, WayInv, Goto, Leaving, Taking, MicActive, RecActive,
      MicInv
  <2>3. CASE StartMic
    BY <1>0, <1>00, <2>1, <2>3 DEF StartMic, WayInv, Goto, Leaving, Taking, RecActive, RecInv
  <2>4. CASE ToggleStopsMic \/ MicStopButton \/ ShutdownUi
    BY <1>0, <2>1, <2>4 DEF ToggleStopsMic, MicStopButton, ShutdownUi, MicStopCommand, micVars,
      WayInv, Goto, Leaving, Taking, MicActive, RecActive
  <2>5. CASE ShutdownMic
    BY <1>0, <2>1, <2>5 DEF ShutdownMic, MicShutdownBegin, MicShutdownJoined,
      WayInv, Goto, Leaving, Taking, MicActive, RecActive
  <2> QED BY <1>2, <2>2, <2>3, <2>4, <2>5 DEF MicCommand
<1>3. CASE RecCommand
  <2>1. UNCHANGED <<micVars, window, pendingStart>>
    BY <1>3 DEF RecCommand, MicUntouched, hostVars, ToggleStops, ToggleStarts,
      ReconfigureRecorderIfInactive, ReplaceRecorder, ApplyCommit, ShutdownRecorder
  <2>2. CASE ToggleStops
    BY <1>0, <2>1, <2>2 DEF ToggleStops, RecStopAndSave, RecUntouched, recVars,
      WayInv, Goto, Leaving, Taking, MicActive, micVars
  <2>3. CASE ToggleStarts
    BY <1>0, <2>1, <2>3 DEF ToggleStarts, MicInv, WayInv, Goto, Leaving, Taking, MicActive, micVars
  <2>4. CASE ReconfigureRecorderIfInactive \/ ReplaceRecorder
    <3>1. ui \in {"reconfigure", "replace"} /\ ui' \in {"replace", "idle", "toggle"}
      BY <1>0, <2>4 DEF ReconfigureRecorderIfInactive, ReplaceRecorder, Goto, TypeOK
    <3>2. recAt' \in {recAt, "none"}
      BY <2>4 DEF ReconfigureRecorderIfInactive, ReplaceRecorder, RecReplaceBegin, RecUntouched, recVars
    <3> QED BY <1>0, <2>1, <3>1, <3>2 DEF WayInv, Leaving, Taking, micVars
  <2>5. CASE ApplyCommit
    <3>1. ui = "applyCommit" /\ ui' \in {"replace", "idle"}
      BY <2>5 DEF ApplyCommit, Goto
    <3>2. recAt' = recAt
      BY <2>5 DEF ApplyCommit, RecReplaceBegin, RecUntouched, recVars
    <3> QED BY <1>0, <2>1, <3>1, <3>2 DEF WayInv, Leaving, Taking, micVars
  <2>6. CASE ShutdownRecorder
    BY <1>0, <2>1, <2>6 DEF ShutdownRecorder, WayInv, Goto, Leaving, Taking, micVars
  <2> QED BY <1>3, <2>2, <2>3, <2>4, <2>5, <2>6 DEF RecCommand
<1>4. CASE KeyCommand
  <2>1. UNCHANGED <<micVars, recState, recAt, pendingStart>>
    BY <1>4 DEF KeyCommand, OtherThanSettings, MicUntouched, RecUntouched, recVars, hostVars, InitHotkeys,
      InitStartup, ApplyHotkeys, ApplyStartup, ApplySave, ApplyStep, RolledBack, ExitCommand,
      ShutdownHotkeys, ApplySettings
  <2>2. (window' <=> ui' \notin Leaving) /\ ui' \notin {"toggleStart", "micStart", "micReap", "micSession",
          "exitRecorder", "exitRecorderJoin"} /\ (ui' \in {"exitHotkeys", "gone"} => ui = "exitHotkeys")
    BY <1>0, <1>4 DEF WayInv, Leaving, Goto, Rejected, KeyCommand, OtherThanSettings, InitHotkeys,
      InitStartup, ApplyHotkeys, ApplyStartup, ApplySave, ApplyStep, RolledBack, ExitCommand,
      ShutdownHotkeys, ApplySettings
  <2> QED BY <1>0, <2>1, <2>2 DEF WayInv, Taking, micVars
<1>5. CASE HotkeyStep \/ UNCHANGED vars
  BY <1>0, <1>5 DEF HotkeyStep, MicUntouched, RecUntouched, recVars, hostVars, micVars, vars, WayInv,
    Leaving, Taking, MicActive, RecActive
<1>6. CASE MicStep
  <2>1. UNCHANGED <<ui, window, pendingStart, recState, recAt>>
    BY <1>6 DEF MicStep, MicWorkerStep, RecUntouched, recVars, hostVars
  <2>2. /\ ~MicActive => ~MicActive'
        /\ micWorker = "none" => micWorker' = "none"
    BY <1>0, <1>6 DEF MicStep, MicWorkerStep, MicProgress, MicInv, MicActive, BackendSetup, BackendStarted,
      BackendLoopEnds, BackendUnplugged, WorkerResult, CallMicSink, ApplyBackendUpdate, SessionUntouched
  <2> QED BY <1>0, <1>00, <2>1, <2>2 DEF WayInv, MicInv, Taking, RecActive
<1>7. CASE RecWorkerStep
  <2>1. UNCHANGED <<ui, window, pendingStart, micVars>>
    BY <1>7 DEF RecWorkerStep, hostVars
  <2>2. /\ ~RecActive => ~RecActive'
        /\ recAt' \in Taking => recAt \in Taking
        /\ recAt = "none" => recAt' = "none"
    BY <1>0, <1>7 DEF RecWorkerStep, RecProgress, RecInv, RecActive, Taking, RecPrepare, RecStopCapture,
      RecOutcome, RecReports, CallRecSink, RecWorker, RecPublish
  <2> QED BY <1>0, <2>1, <2>2 DEF WayInv, MicActive, micVars
<1> QED BY <1>1, <1>2, <1>3, <1>4, <1>5, <1>6, <1>7, StepsAre

-----------------------------------------------------------------------------
(* A recording that waits, and the tray.                                   *)

(* What the commands of the settings leave alone.                          *)
LEMMA KeyCommandLeaves ==
  ASSUME KeyCommand
  PROVE  /\ UNCHANGED <<micVars, recVars, hostVars, unreported>>
         /\ UNCHANGED posted \/ ExitCommand
         /\ UNCHANGED window \/ ExitCommand
         /\ ui \in {"initHotkeys", "initStartup", "idle", "applyHotkeys", "applyStartup",
                    "applySave", "rollback", "exitHotkeys"}
BY DEF KeyCommand, OtherThanSettings, MicUntouched, RecUntouched, InitHotkeys, InitStartup,
  ApplyHotkeys, ApplyStartup, ApplySave, ApplyStep, RolledBack, ExitCommand, ShutdownHotkeys,
  ApplySettings

(* The commands about the recorder leave the microphone check alone.       *)
LEMMA RecCommandLeaves ==
  ASSUME RecCommand
  PROVE  /\ UNCHANGED <<micVars, window, pendingStart, lastSeen>>
         /\ posted' = posted \/ Post("recorder")
         /\ ui \in {"toggleStop", "toggleStart", "reconfigure", "replace", "applyCommit",
                    "exitRecorder", "exitRecorderJoin"}
BY DEF RecCommand, MicUntouched, hostVars, ToggleStops, ToggleStarts, RecStopAndSave, RecStart,
  RecUntouched, ReconfigureRecorderIfInactive, ReplaceRecorder, ApplyCommit, ShutdownRecorder

LEMMA PendingStepKeeps == IInv /\ [Next]_vars => PendingInv'
<1> SUFFICES ASSUME IInv, [Next]_vars PROVE PendingInv'
  OBVIOUS
<1>0. PendingInv /\ WayInv /\ MicInv /\ TypeOK
  BY DEF IInv
<1> USE DEF PendingInv
<1>1. CASE Thinks
  <2>1. UNCHANGED <<micVars, window>>
    BY <1>1 DEF Thinks, MicUntouched, ToggleCommand, ToggleByRecorder, ToggleByMic, MicStartButton,
      StartMicMonitor, HandleMicMonitorStateChanged, HandleRecorderStateChanged
  <2>2. CASE ToggleByMic
    <3>1. CASE pendingStart \/ ~MicActive
      <4>1. ~pendingStart'
        BY <2>2, <3>1 DEF ToggleByMic
      <4> QED BY <4>1
    <3>2. CASE ~pendingStart /\ MicActive
      BY <1>0, <2>1, <2>2, <3>2 DEF ToggleByMic, Goto, MicInv, micVars
    <3> QED BY <3>1, <3>2
  <2>3. CASE HandleMicMonitorStateChanged
    <3>1. CASE pendingStart /\ micState \in {"Idle", "Failed"}
      BY <2>3, <3>1 DEF HandleMicMonitorStateChanged
    <3>2. CASE ~(pendingStart /\ micState \in {"Idle", "Failed"})
      <4>1. pendingStart' = pendingStart /\ ui' = ui /\ ui = "idle"
        BY <2>3, <3>2 DEF HandleMicMonitorStateChanged
      <4>2. pendingStart => micRunning
        BY <1>0, <3>2 DEF TypeOK, MicTypeOK, MicStates, MicInv, MicActive
      <4> QED BY <1>0, <2>1, <4>1, <4>2 DEF micVars
    <3> QED BY <3>1, <3>2
  <2>4. CASE ToggleByRecorder
    <3>1. pendingStart' => pendingStart
      BY <2>4 DEF ToggleByRecorder
    <3>2. UNCHANGED posted /\ ui = "toggle"
      BY <2>4 DEF ToggleByRecorder
    <3> QED BY <1>0, <2>1, <3>1, <3>2 DEF micVars
  <2>5. CASE ToggleCommand \/ MicStartButton \/ StartMicMonitor \/ HandleRecorderStateChanged
    <3>1. pendingStart' = pendingStart /\ ui # "toggleMicStop"
      BY <2>5 DEF ToggleCommand, MicStartButton, StartMicMonitor, HandleRecorderStateChanged, hostVars
    <3>2. "mic" \in posted => "mic" \in posted'
      BY <2>5 DEF ToggleCommand, MicStartButton, StartMicMonitor, HandleRecorderStateChanged
    <3> QED BY <1>0, <2>1, <3>1, <3>2 DEF micVars
  <2> QED BY <1>1, <2>2, <2>3, <2>4, <2>5 DEF Thinks
<1>2. CASE MicCommand
  <2>1. UNCHANGED <<window, pendingStart>>
    BY <1>2 DEF MicCommand, hostVars, ToggleStopsMic, MicStopButton, ReapMic, StartMic, ShutdownUi, ShutdownMic
  <2>2. CASE ReapMic \/ StartMic
    BY <1>0, <2>1, <2>2 DEF ReapMic, StartMic, WayInv
  <2>3. CASE ShutdownUi \/ ShutdownMic
    BY <1>0, <2>1, <2>3 DEF ShutdownUi, ShutdownMic, WayInv, Leaving
  <2>4. CASE ToggleStopsMic \/ MicStopButton
    BY <1>0, <2>1, <2>4 DEF ToggleStopsMic, MicStopButton, MicStopCommand, micVars, MicInv, Goto
  <2> QED BY <1>2, <2>2, <2>3, <2>4 DEF MicCommand
<1>3. CASE RecCommand
  <2>1. "mic" \in posted => "mic" \in posted'
    BY <1>3, RecCommandLeaves DEF Post
  <2>2. UNCHANGED <<micVars, window, pendingStart>> /\ ui # "toggleMicStop"
    BY <1>3, RecCommandLeaves
  <2> QED BY <1>0, <2>1, <2>2 DEF micVars
<1>4. CASE KeyCommand
  <2>1. UNCHANGED <<micVars, pendingStart>> /\ ui # "toggleMicStop"
    BY <1>4, KeyCommandLeaves DEF hostVars
  <2>2. ~window' \/ UNCHANGED <<window, posted>>
    BY <1>4, KeyCommandLeaves DEF ExitCommand
  <2> QED BY <1>0, <2>1, <2>2 DEF micVars
<1>5. CASE HotkeyStep \/ UNCHANGED vars
  <2>1. UNCHANGED <<micVars, pendingStart, window, posted, ui>>
    BY <1>5 DEF HotkeyStep, MicUntouched, hostVars, vars
  <2> QED BY <1>0, <2>1 DEF micVars
<1>6. CASE MicStep
  <2>1. UNCHANGED <<ui, window, pendingStart>>
    BY <1>6 DEF MicStep, MicWorkerStep, hostVars
  <2>2. CASE BackendSetup \/ BackendStarted \/ BackendLoopEnds \/ BackendUnplugged
    BY <1>0, <2>1, <2>2 DEF BackendSetup, BackendStarted, BackendLoopEnds, BackendUnplugged,
      ApplyBackendUpdate, SessionUntouched, MicInv
  <2>3. CASE WorkerResult
    BY <1>0, <2>1, <2>3 DEF WorkerResult, MicInv, WayInv
  <2>4. CASE CallMicSink
    BY <1>0, <2>1, <2>4 DEF CallMicSink, Post, WayInv
  <2> QED BY <1>6, <2>2, <2>3, <2>4 DEF MicStep, MicWorkerStep, MicProgress
<1>7. CASE RecWorkerStep
  <2>1. UNCHANGED <<ui, window, pendingStart, micVars>>
    BY <1>7 DEF RecWorkerStep, hostVars
  <2>2. "mic" \in posted => "mic" \in posted'
    BY <1>7 DEF RecWorkerStep, RecProgress, RecPrepare, RecStopCapture, RecOutcome, RecReports,
      CallRecSink, RecWorker, Post
  <2> QED BY <1>0, <2>1, <2>2 DEF micVars
<1> QED BY <1>1, <1>2, <1>3, <1>4, <1>5, <1>6, <1>7, StepsAre

LEMMA TrayStepKeeps == IInv /\ [Next]_vars => TrayInv'
<1> SUFFICES ASSUME IInv, [Next]_vars PROVE TrayInv'
  OBVIOUS
<1>0. TrayInv /\ RecInv /\ WayInv /\ RecTypeOK /\ HostTypeOK
  BY TypesAre DEF IInv
<1> USE DEF TrayInv, Tray
<1>1. CASE Thinks
  <2>1. CASE HandleRecorderStateChanged
    <3>1. UNCHANGED recVars /\ (lastSeen = <<recGen, recState>> => lastSeen' = lastSeen)
          /\ (lastSeen # <<recGen, recState>> => lastSeen' = <<recGen, recState>>)
      BY <2>1 DEF HandleRecorderStateChanged
    <3> QED BY <3>1 DEF recVars
  <2>2. CASE ToggleCommand \/ ToggleByRecorder \/ ToggleByMic \/ MicStartButton \/ StartMicMonitor
             \/ HandleMicMonitorStateChanged
    <3>1. UNCHANGED <<recState, recHand, lastSeen, window>>
      BY <2>2 DEF RecUntouched, recVars, hostVars, ToggleCommand, ToggleByRecorder, ToggleByMic,
        MicStartButton, StartMicMonitor, HandleMicMonitorStateChanged
    <3>2. "recorder" \in posted => "recorder" \in posted'
      BY <2>2 DEF ToggleCommand, ToggleByRecorder, ToggleByMic,
        MicStartButton, StartMicMonitor, HandleMicMonitorStateChanged
    <3> QED BY <1>0, <3>1, <3>2
  <2> QED BY <1>1, <2>1, <2>2 DEF Thinks
<1>2. CASE MicCommand
  <2>1. UNCHANGED <<recState, recHand, lastSeen, window>>
    BY <1>2 DEF MicCommand, RecUntouched, recVars, hostVars, ToggleStopsMic, MicStopButton, ReapMic,
      StartMic, ShutdownUi, ShutdownMic
  <2>2. "recorder" \in posted => "recorder" \in posted'
    BY <1>2 DEF MicCommand, ToggleStopsMic, MicStopButton, ReapMic, StartMic, ShutdownUi, ShutdownMic,
      MicStopCommand, MicPublish, MicReap, MicStart, MicShutdownBegin, MicShutdownJoined, Post
  <2> QED BY <1>0, <2>1, <2>2
<1>3. CASE RecCommand
  <2>1. CASE ToggleStops
    BY <1>0, <1>3, <2>1, RecCommandLeaves DEF ToggleStops, RecStopAndSave, RecUntouched, recVars, RecInv, Post
  <2>2. CASE ToggleStarts
    BY <1>0, <1>3, <2>2, RecCommandLeaves DEF ToggleStarts, RecStart, RecUntouched, recVars, RecInv, Post
  <2>3. CASE ReconfigureRecorderIfInactive \/ ApplyCommit
    BY <1>0, <1>3, <2>3, RecCommandLeaves DEF ReconfigureRecorderIfInactive, ApplyCommit,
      RecReplaceBegin, RecUntouched, recVars
  <2>4. CASE ReplaceRecorder
    <3>1. TrayState(recState) = "Idle" /\ TrayState("Idle") = "Idle"
      BY <1>0, <2>4 DEF ReplaceRecorder, RecInv, RecActive, RecTypeOK, RecStates, TrayState
    <3>2. recState' = "Idle" /\ UNCHANGED <<lastSeen, posted, recHand, window>>
      BY <2>4 DEF ReplaceRecorder
    <3>3. TrayState(lastSeen'[2]) = TrayState(lastSeen[2]) /\ TrayState(recState') = TrayState(recState)
      BY <3>1, <3>2
    <3> QED BY <1>0, <3>2, <3>3
  <2>5. CASE ShutdownRecorder
    BY <1>0, <1>3, <2>5, RecCommandLeaves DEF ShutdownRecorder, WayInv, Leaving
  <2> QED BY <1>3, <2>1, <2>2, <2>3, <2>4, <2>5 DEF RecCommand
<1>4. CASE KeyCommand
  BY <1>0, <1>4, KeyCommandLeaves DEF ExitCommand, recVars, hostVars
<1>5. CASE HotkeyStep \/ UNCHANGED vars
  BY <1>0, <1>5 DEF HotkeyStep, RecUntouched, recVars, hostVars, vars
<1>6. CASE MicStep
  <2>1. UNCHANGED <<recState, recHand, lastSeen, window>>
    BY <1>6 DEF MicStep, MicWorkerStep, RecUntouched, recVars, hostVars
  <2>2. "recorder" \in posted => "recorder" \in posted'
    BY <1>6 DEF MicStep, MicWorkerStep, MicProgress, BackendSetup, BackendStarted, BackendLoopEnds,
      BackendUnplugged, WorkerResult, CallMicSink, ApplyBackendUpdate, SessionUntouched, Post
  <2> QED BY <1>0, <2>1, <2>2
<1>7. CASE RecWorkerStep
  <2>1. UNCHANGED <<ui, window, lastSeen>>
    BY <1>7 DEF RecWorkerStep, hostVars
  <2>2. CASE RecPrepare \/ RecStopCapture \/ RecOutcome
    <3>1. ~recHand /\ recAt \in Taking /\ UNCHANGED posted
      BY <2>2 DEF RecPrepare, RecStopCapture, RecOutcome, RecWorker, Taking
    <3>2. recSink
      BY <1>0, <3>1 DEF RecInv
    <3>3. PICK state \in RecStates : RecPublish(state)
      BY <2>2 DEF RecPrepare, RecStopCapture, RecOutcome, RecStates
    <3> QED BY <1>0, <2>1, <3>1, <3>2, <3>3 DEF RecPublish
  <2>3. CASE RecReports
    BY <1>0, <2>1, <2>3 DEF RecReports
  <2>4. CASE CallRecSink
    BY <1>0, <2>1, <2>4 DEF CallRecSink, Post
  <2> QED BY <1>7, <2>2, <2>3, <2>4 DEF RecWorkerStep, RecProgress
<1> QED BY <1>1, <1>2, <1>3, <1>4, <1>5, <1>6, <1>7, StepsAre

-----------------------------------------------------------------------------
(* The hotkeys.                                                            *)

(* ReplaceAll begins with nothing registered and something to register.    *)
LEMMA ReplaceBeginKeeps ==
  ASSUME KeysInv, WayInv, ui \notin {"initStartup", "applyHotkeys", "rollback"}, window,
         NEW layout \in Layouts, ReplaceBegin(layout),
         ui' \in {"initStartup", "applyHotkeys", "rollback"}, window'
  PROVE  KeysInv'
<1>1. osKeys' = {} /\ bindings' = {} /\ hkStep' = "register" /\ hkNew' = Keys(layout)
  BY DEF ReplaceBegin, KeysInv
<1>2. Keys(layout) # {}
  <2>1. PICK id \in HotkeyIds : TRUE
    BY HotkeysAssumption
  <2>2. <<id, layout>> \in Keys(layout)
    BY <2>1 DEF Keys
  <2> QED BY <2>2
<1>3. hkNew' \ osKeys' # {}
  BY <1>1, <1>2
<1> QED BY <1>1, <1>2, <1>3 DEF KeysInv

LEMMA HotkeyStepKeeps ==
  ASSUME KeysInv, WayInv, HotkeysTypeOK, HotkeyStep
  PROVE  KeysInv'
<1>1. hkStep # "done" /\ bindings = {} /\ window
  BY DEF HotkeyStep, ReplaceStep, ReplaceRegister, ReplaceUndo, ReplaceRestore, ReplaceAbandon,
    KeysInv, WayInv, Leaving
<1>2. UNCHANGED <<ui, window>>
  BY DEF HotkeyStep
<1> USE DEF KeysInv, HotkeysTypeOK
<1>3. CASE ReplaceRegister
  <2>1. NextKey(hkNew) \in hkNew
    BY <1>3, NextIsWanted DEF ReplaceRegister
  <2> QED BY <1>1, <1>2, <1>3, <2>1 DEF ReplaceRegister, ReplaceEnds, Continue
<1>4. CASE ReplaceRestore
  <2>1. NextKey(hkOld) \in hkOld
    BY <1>4, NextIsWanted DEF ReplaceRestore
  <2> QED BY <1>1, <1>2, <1>4, <2>1 DEF ReplaceRestore, ReplaceEnds, Continue
<1>5. CASE ReplaceUndo \/ ReplaceAbandon
  BY <1>1, <1>2, <1>5 DEF ReplaceUndo, ReplaceAbandon, ReplaceEnds, Continue
<1> QED BY <1>3, <1>4, <1>5 DEF HotkeyStep, ReplaceStep

LEMMA KeysStepKeeps == IInv /\ [Next]_vars => KeysInv'
<1> SUFFICES ASSUME IInv, [Next]_vars PROVE KeysInv'
  OBVIOUS
<1>0. KeysInv /\ WayInv /\ HotkeysTypeOK /\ settings \in Layouts
  BY DEF IInv, TypeOK
<1>1. CASE Thinks
  <2>1. UNCHANGED <<hkVars, window>> /\ ui \notin {"initStartup", "applyHotkeys", "rollback"}
    BY <1>1 DEF Thinks, SettingsUntouched, ToggleCommand, ToggleByRecorder, ToggleByMic, MicStartButton,
      StartMicMonitor, HandleMicMonitorStateChanged, HandleRecorderStateChanged
  <2> QED BY <1>0, <2>1 DEF KeysInv, hkVars
<1>2. CASE MicCommand
  <2>1. UNCHANGED <<hkVars, window>> /\ ui \notin {"initStartup", "applyHotkeys", "rollback"}
    BY <1>2 DEF MicCommand, SettingsUntouched, ToggleStopsMic, MicStopButton, ReapMic, StartMic,
      ShutdownUi, ShutdownMic
  <2> QED BY <1>0, <2>1 DEF KeysInv, hkVars
<1>3. CASE RecCommand
  <2>1. UNCHANGED hkVars
    BY <1>3 DEF RecCommand, SettingsUntouched, hkVars, ToggleStops, ToggleStarts,
      ReconfigureRecorderIfInactive, ReplaceRecorder, ApplyCommit, ShutdownRecorder
  <2> QED BY <1>0, <1>3, <2>1, RecCommandLeaves DEF KeysInv, hkVars
<1>4. CASE KeyCommand
  <2>1. CASE InitHotkeys
    BY <1>0, <2>1, ReplaceBeginKeeps DEF InitHotkeys, OtherThanSettings, Goto, WayInv, Leaving
  <2>2. CASE InitStartup \/ ApplyHotkeys \/ RolledBack
    BY <1>0, <2>2 DEF InitStartup, ApplyHotkeys, RolledBack, OtherThanSettings, SettingsUntouched,
      hkVars, KeysInv
  <2>3. CASE ApplyStartup \/ ApplySave
    <3>1. UNCHANGED window /\ window /\ ui \in {"applyStartup", "applySave"}
      BY <1>0, <2>3 DEF ApplyStartup, ApplySave, ApplyStep, OtherThanSettings, WayInv, Leaving
    <3>2. CASE UNCHANGED hkVars
      BY <1>0, <3>1, <3>2 DEF KeysInv, hkVars
    <3>3. CASE ~UNCHANGED hkVars
      BY <1>0, <2>3, <3>1, <3>3, ReplaceBeginKeeps DEF ApplyStartup, ApplySave, ApplyStep, Goto
    <3> QED BY <3>2, <3>3
  <2>4. CASE ExitCommand
    BY <1>0, <2>4 DEF ExitCommand, WindowHotkeysGone, KeysInv
  <2>5. CASE ShutdownHotkeys
    BY <1>0, <2>5 DEF ShutdownHotkeys, UnregisterAll, OtherThanSettings, KeysInv, WayInv, Leaving
  <2>6. ASSUME NEW new \in Layouts, ApplySettings(new) PROVE KeysInv'
    BY <1>0, <2>6, ReplaceBeginKeeps DEF ApplySettings, OtherThanSettings, Goto, WayInv, Leaving
  <2> QED BY <1>4, <2>1, <2>2, <2>3, <2>4, <2>5, <2>6 DEF KeyCommand
<1>5. CASE HotkeyStep
  BY <1>0, <1>5, HotkeyStepKeeps
<1>6. CASE MicStep \/ RecWorkerStep \/ UNCHANGED vars
  <2>1. UNCHANGED <<hkVars, ui, window>>
    BY <1>6 DEF MicStep, MicWorkerStep, RecWorkerStep, SettingsUntouched, vars
  <2> QED BY <1>0, <2>1 DEF KeysInv, hkVars
<1> QED BY <1>1, <1>2, <1>3, <1>4, <1>5, <1>6, StepsAre

-----------------------------------------------------------------------------
(* The settings.                                                           *)

LEMMA SettingsStepKeeps == IInv /\ [Next]_vars => SettingsReachRecorder'
<1> SUFFICES ASSUME IInv, [Next]_vars PROVE SettingsReachRecorder'
  OBVIOUS
<1>0. SettingsReachRecorder
  BY DEF IInv
<1> USE DEF SettingsReachRecorder
<1>1. CASE RecCommand
  <2>1. CASE ReconfigureRecorderIfInactive
    <3>1. ui = "reconfigure" /\ UNCHANGED <<reconfigure, settings, recConfig>>
      BY <2>1 DEF ReconfigureRecorderIfInactive, RecReplaceBegin, RecUntouched, recVars,
        SettingsUntouched, settingsVars
    <3> QED BY <1>0, <3>1
  <2>2. CASE ReplaceRecorder
    BY <2>2 DEF ReplaceRecorder, SettingsUntouched, settingsVars
  <2>3. CASE ApplyCommit
    <3>1. CASE RecActive
      BY <2>3, <3>1 DEF ApplyCommit
    <3>2. CASE ~RecActive
      BY <2>3, <3>2 DEF ApplyCommit, Goto
    <3> QED BY <3>1, <3>2
  <2>4. CASE ToggleStops \/ ToggleStarts \/ ShutdownRecorder
    <3>1. UNCHANGED <<reconfigure, settings, recConfig>> /\ ui # "replace"
      BY <2>4 DEF ToggleStops, ToggleStarts, ShutdownRecorder, RecStopAndSave, RecStart, RecUntouched,
        recVars, hostVars, SettingsUntouched, settingsVars
    <3> QED BY <1>0, <3>1
  <2> QED BY <1>1, <2>1, <2>2, <2>3, <2>4 DEF RecCommand
<1>2. CASE Thinks
  <2>1. UNCHANGED <<reconfigure, settings, recConfig>> /\ ui # "replace"
    BY <1>2 DEF Thinks, SettingsUntouched, settingsVars, RecUntouched, recVars, hostVars,
      ToggleCommand, ToggleByRecorder, ToggleByMic, MicStartButton, StartMicMonitor,
      HandleMicMonitorStateChanged, HandleRecorderStateChanged
  <2> QED BY <1>0, <2>1
<1>3. CASE MicCommand
  <2>1. UNCHANGED <<reconfigure, settings, recConfig>> /\ ui # "replace"
    BY <1>3 DEF MicCommand, SettingsUntouched, settingsVars, RecUntouched, recVars, hostVars,
      ToggleStopsMic, MicStopButton, ReapMic, StartMic, ShutdownUi, ShutdownMic
  <2> QED BY <1>0, <2>1
<1>4. CASE KeyCommand
  <2>1. UNCHANGED settings
    BY <1>4 DEF KeyCommand, SettingsUntouched, settingsVars, InitHotkeys, InitStartup, ApplyHotkeys,
      ApplyStartup, ApplySave, ApplyStep, RolledBack, ExitCommand, ShutdownHotkeys, ApplySettings
  <2>2. UNCHANGED <<reconfigure, recConfig>> /\ ui # "replace"
    BY <1>4, KeyCommandLeaves DEF recVars, hostVars
  <2> QED BY <1>0, <2>1, <2>2
<1>5. CASE HotkeyStep \/ MicStep \/ RecWorkerStep \/ UNCHANGED vars
  <2>1. UNCHANGED <<reconfigure, settings, recConfig, ui>>
    BY <1>5 DEF HotkeyStep, MicStep, RecWorkerStep, vars, SettingsUntouched, settingsVars,
      RecUntouched, recVars, hostVars, RecProgress, RecPrepare, RecStopCapture, RecOutcome,
      RecReports, CallRecSink, RecWorker
  <2> QED BY <1>0, <2>1
<1> QED BY <1>1, <1>2, <1>3, <1>4, <1>5, StepsAre

-----------------------------------------------------------------------------
(* The theorems.                                                           *)

LEMMA InitEstablishes == Init => IInv
<1> SUFFICES ASSUME Init PROVE IInv
  OBVIOUS
<1>1. TypeOK
  <2>1. MicTypeOK
    BY DEF Init, MicInit, MicTypeOK, MicStates, MicAt
  <2>2. HotkeysTypeOK
    BY DEF Init, HotkeysInit, HotkeysTypeOK, BindingSets
  <2>3. RecTypeOK /\ HostTypeOK
    <3>1. 0 \in 0 .. MaxStarts
      BY MaxStartsAssumption
    <3>2. RecTypeOK
      BY <3>1 DEF Init, RecTypeOK, RecStates, Taking
    <3>3. lastSeen \in (0 .. MaxStarts) \X RecStates
      BY <3>1 DEF Init, RecStates
    <3>4. HostTypeOK
      BY <3>3 DEF Init, HostTypeOK, UiSteps
    <3> QED BY <3>2, <3>4
  <2> QED BY <2>1, <2>2, <2>3, TypesAre
<1>2. MicInv /\ RecInv /\ WayInv /\ KeysInv /\ PendingInv
  BY DEF Init, MicInit, HotkeysInit, MicInv, RecInv, WayInv, PendingInv, KeysInv, MicActive,
    RecActive, Leaving, Taking
<1>3. TrayInv /\ SettingsReachRecorder
  BY DEF Init, TrayInv, Tray, SettingsReachRecorder
<1> QED BY <1>1, <1>2, <1>3 DEF IInv

LEMMA StepKeeps == IInv /\ [Next]_vars => IInv'
BY Types, MicStepKeeps, RecStepKeeps, WayStepKeeps, PendingStepKeeps, TrayStepKeeps, KeysStepKeeps,
  SettingsStepKeeps DEF IInv

(* The inductive invariant holds in every state of every behaviour.        *)
THEOREM Invariance == Spec => []IInv
BY InitEstablishes, StepKeeps, PTL DEF Spec

(* Every variable of the host and of what it coordinates keeps its type;   *)
(* in particular a recording's worker exists only after a start.           *)
THEOREM TypeCorrect == Spec => []TypeOK
<1>1. IInv => TypeOK
  BY DEF IInv
<1> QED BY <1>1, Invariance, PTL

(* Whatever the two workers, the buttons, the toggle and the order of the  *)
(* messages do, the microphone check has no stream open while a recording  *)
(* takes the devices.                                                      *)
THEOREM Exclusion == Spec => []MicAndRecordingExclusive
<1>1. IInv => MicAndRecordingExclusive
  BY DEF IInv, WayInv, MicInv, Taking, MicAndRecordingExclusive, MicDeviceOpen
<1> QED BY <1>1, Invariance, PTL

(* Settings saved during a recording are asked for at the recorder until   *)
(* it has been created anew with them, whatever happens meanwhile.         *)
THEOREM SettingsAreNotLost == Spec => []SettingsReachRecorder
<1>1. IInv => SettingsReachRecorder
  BY DEF IInv
<1> QED BY <1>1, Invariance, PTL

(* When nothing is on its way, the tray shows the state of the recorder:   *)
(* no change is lost between the worker, its message and the handler, nor  *)
(* by a replacement of the session, which counts from zero again.          *)
THEOREM TrayIsRight == Spec => []TrayFollowsRecorder
<1>1. IInv => TrayFollowsRecorder
  BY DEF IInv, TrayInv, WayInv, Leaving, TrayFollowsRecorder, Quiet
<1> QED BY <1>1, Invariance, PTL

(* Between two replacements Windows has the hotkeys of one layout or none, *)
(* and the manager knows which, however often and wherever Windows refused.*)
THEOREM HotkeysAreKnown == Spec => []HotkeysAgree
<1>1. IInv => HotkeysAgree
  BY DEF IInv, TypeOK, HotkeysTypeOK, KeysInv, HotkeysAgree
<1> QED BY <1>1, Invariance, PTL

(* A recording that waits for the microphone check to stop has someone who *)
(* is still to wake it.                                                    *)
THEOREM PendingStartWillBeSeen == Spec => []PendingStartIsAwaited
<1>1. IInv => PendingStartIsAwaited
  BY DEF IInv, PendingInv, WayInv, Leaving, PendingStartIsAwaited
<1> QED BY <1>1, Invariance, PTL

(* No joinable thread is assigned over, and none outlives what it calls.   *)
THEOREM WorkersAreGone == Spec => []WorkersAreJoined
<1>1. IInv => WorkersAreJoined
  BY DEF IInv, WayInv, MicInv, RecInv, KeysInv, Leaving, WorkersAreJoined
<1> QED BY <1>1, Invariance, PTL

=============================================================================
