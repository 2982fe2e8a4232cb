------------------------------- MODULE AppHost -------------------------------
(***************************************************************************)
(* The message thread of src/app/AppHost.cpp, with what it coordinates:    *)
(* the microphone check (MicMonitor), the global hotkeys (Hotkeys), the    *)
(* settings file, the startup entry of the registry and the recorder       *)
(* session, here reduced to what the message thread sees of it.  Worker    *)
(* threads post messages; their handlers read a snapshot, later.           *)
(***************************************************************************)
EXTENDS MicMonitor, Hotkeys

CONSTANT MaxStarts  \* bound: recordings started in one recorder session

ASSUME MaxStartsAssumption == MaxStarts \in Nat

VARIABLES
  ui,            \* what the message thread is doing
  after,         \* what follows a reconfiguration of the recorder
  settings,      \* settings_, which stand for their layout of hotkeys
  candidate,     \* the settings being applied
  pendingStart,  \* recording_start_pending_after_mic_monitor_
  reconfigure,   \* recorder_reconfigure_pending_
  lastSeen,      \* last_recorder_notification_generation_ and _state_
  recState, recGen,  \* the recorder's snapshot: state and generation
  recAt,         \* where the recorder's worker is
  recStop,       \* stop_requested_, while a worker can see it
  recClosing,    \* shutting_down_
  recSink,       \* the recorder's state sink is set
  recHand,       \* its worker is out of the lock and about to call a sink
  recConfig,     \* the settings the recorder was created with
  unreported     \* history: the outcome of the last recording was not shown

recVars == <<recState, recGen, recAt, recStop, recClosing, recSink, recHand, recConfig>>
settingsVars == <<settings, candidate>>
hostVars == <<after, pendingStart, reconfigure, lastSeen>>
vars == <<micVars, window, posted, hkVars, ui, hostVars, settingsVars, recVars, unreported>>

RecStates == {"Idle", "Starting", "Recording", "Stopping", "Saved", "Failed"}
RecActive == recState \in {"Starting", "Recording", "Stopping"}
RecJoinable == recAt \in {"none", "ended"} /\ ~recHand

UiSteps == {"initHotkeys", "initStartup", "idle", "reconfigure", "replace",
  "toggle", "toggleStop", "toggleMic", "toggleMicStop", "toggleStart",
  "micStart", "micReap", "micSession", "applyHotkeys", "applyStartup",
  "applySave", "applyCommit", "rollback", "exitUi", "exitMic", "exitMicJoin",
  "exitRecorder", "exitRecorderJoin", "exitHotkeys", "gone"}

TypeOK ==
  /\ MicTypeOK /\ HotkeysTypeOK
  /\ window \in BOOLEAN /\ posted \subseteq {"mic", "recorder"}
  /\ ui \in UiSteps /\ after \in {"idle", "toggle"}
  /\ settings \in Layouts /\ candidate \in Layouts /\ recConfig \in Layouts
  /\ {pendingStart, reconfigure, recStop, recClosing, recSink,
      recHand, unreported} \subseteq BOOLEAN
  /\ lastSeen \in (0 .. MaxStarts) \X RecStates
  /\ recState \in RecStates /\ recGen \in 0 .. MaxStarts
  /\ recAt \in {"none", "preparing", "capturing", "saving", "ended"}
  /\ (recAt \in {"preparing", "capturing", "saving"} => recGen > 0)

\* The file is loaded, or the defaults are used; hotkeys and startup entry
\* are brought in line with the settings, and a failure is only reported.
Init ==
  /\ MicInit /\ HotkeysInit
  /\ window = TRUE /\ posted = {}
  /\ ui = "initHotkeys" /\ after = "idle"
  /\ settings \in Layouts /\ candidate = settings
  /\ pendingStart = FALSE /\ reconfigure = FALSE
  /\ lastSeen = <<0, "Idle">>
  /\ recState = "Idle" /\ recGen = 0 /\ recAt = "none" /\ recStop = FALSE
  /\ recClosing = FALSE /\ recSink = TRUE /\ recHand = FALSE
  /\ recConfig = settings
  /\ unreported = FALSE

Goto(step) == ui' = step
MicUntouched == UNCHANGED micVars
SettingsUntouched == UNCHANGED <<hkVars, settingsVars>>
RecUntouched == UNCHANGED <<recVars, unreported>>

(***************************************************************************)
(* The recorder session and its worker, as far as the host can tell.       *)
(***************************************************************************)
\* PublishState: nothing while shutting down, and a stop is not undone.
RecPublish(state) ==
  IF recClosing \/ (state = "Recording" /\ recState = "Stopping")
  THEN UNCHANGED <<recState, recHand, unreported>>
  ELSE /\ recState' = state /\ recHand' = recSink
       /\ unreported' = (unreported \/ state \in {"Saved", "Failed"})

RecWorker(from, to) ==
  /\ recAt = from /\ ~recHand /\ recAt' = to
  /\ recStop' = (recStop /\ to # "ended")
  /\ UNCHANGED <<recGen, recClosing, recSink, recConfig, posted>>

RecPrepare ==
  \/ RecWorker("preparing", "capturing") /\ RecPublish("Recording")
  \/ RecWorker("preparing", "ended") /\ RecPublish("Failed")
  \/ recStop /\ RecWorker("preparing", "ended") /\ RecPublish("Idle")

\* A stop, or a fault of a source, an encoder or the store.
RecStopCapture == RecWorker("capturing", "saving") /\ RecPublish("Stopping")

RecOutcome == RecWorker("saving", "ended") /\ \E s \in {"Saved", "Failed"} : RecPublish(s)

\* Progress, and what becomes of clips, is reported without a change of state.
RecReports ==
  /\ recAt \in {"preparing", "capturing", "saving"} /\ ~recHand
  /\ RecActive /\ ~recClosing /\ recHand' = recSink
  /\ UNCHANGED <<recState, recGen, recAt, recStop, recClosing, recSink, recConfig,
                 posted, unreported>>

CallRecSink ==
  /\ recHand /\ recHand' = FALSE
  /\ Post("recorder")
  /\ UNCHANGED <<recState, recGen, recAt, recStop, recClosing, recSink, recConfig, unreported>>

RecProgress == RecPrepare \/ (recStop /\ RecStopCapture) \/ RecOutcome \/ CallRecSink
RecWorkerStep ==
  /\ RecProgress \/ RecStopCapture \/ RecReports
  /\ UNCHANGED <<window, micVars, hkVars, ui, hostVars, settingsVars>>

\* Start joins the worker of the recording before, and starts a new one; if
\* there is no thread the host shows what Start returns.
RecStart ==
  IF RecActive \/ recClosing \/ recGen = MaxStarts THEN RecUntouched /\ UNCHANGED posted
  ELSE /\ RecJoinable
       /\ recGen' = recGen + 1 /\ recStop' = FALSE
       /\ \/ recState' = "Starting" /\ recAt' = "preparing"
          \/ recState' = "Failed" /\ recAt' = "none"
       /\ unreported' = FALSE
       /\ IF recSink THEN Post("recorder") ELSE UNCHANGED posted
       /\ UNCHANGED <<recClosing, recSink, recHand, recConfig>>

RecStopAndSave ==
  IF recState \notin {"Starting", "Recording"} THEN RecUntouched /\ UNCHANGED posted
  ELSE /\ recStop' = TRUE /\ recState' = "Stopping"
       /\ IF recSink THEN Post("recorder") ELSE UNCHANGED posted
       /\ UNCHANGED <<recGen, recAt, recClosing, recSink, recHand, recConfig, unreported>>

\* CreateVideoRecorder: the old session, inactive, loses its sink and is shut
\* down, its worker joined; the new one starts counting its generations from zero.
RecReplaceBegin ==
  /\ recSink' = FALSE /\ recClosing' = TRUE
  /\ UNCHANGED <<recState, recGen, recAt, recStop, recHand, recConfig, unreported>>

ReplaceRecorder ==
  /\ ui = "replace" /\ RecJoinable
  /\ recState' = "Idle" /\ recGen' = 0 /\ recAt' = "none" /\ recStop' = FALSE
  /\ recClosing' = FALSE /\ recSink' = TRUE /\ recConfig' = settings
  /\ unreported' = FALSE
  /\ reconfigure' = FALSE /\ Goto(after) /\ after' = "idle"
  /\ MicUntouched /\ SettingsUntouched
  /\ UNCHANGED <<window, posted, recHand, pendingStart, lastSeen>>

(***************************************************************************)
(* Handlers of the message thread.  Each reading of a snapshot and each    *)
(* command is a step of its own: the workers run in between.               *)
(***************************************************************************)
ReconfigureThen(step) == Goto("reconfigure") /\ after' = step

\* Mutant: the request is taken back when the recorder is still active.
ReconfigureOnce ==
  /\ ui = "reconfigure" /\ reconfigure' = FALSE
  /\ IF reconfigure /\ ~RecActive
     THEN Goto("replace") /\ RecReplaceBegin /\ UNCHANGED after
     ELSE Goto(after) /\ after' = "idle" /\ RecUntouched
  /\ MicUntouched /\ SettingsUntouched
  /\ UNCHANGED <<window, posted, pendingStart, lastSeen>>

ReconfigureRecorderIfInactive ==
  /\ ui = "reconfigure"
  /\ IF reconfigure /\ ~RecActive THEN Goto("replace") /\ RecReplaceBegin /\ UNCHANGED after
     ELSE Goto(after) /\ after' = "idle" /\ RecUntouched
  /\ MicUntouched /\ SettingsUntouched
  /\ UNCHANGED <<window, posted, pendingStart, reconfigure, lastSeen>>

ToggleCommand ==
  /\ ui = "idle" /\ ReconfigureThen("toggle")
  /\ MicUntouched /\ SettingsUntouched /\ RecUntouched
  /\ UNCHANGED <<window, posted, pendingStart, reconfigure, lastSeen>>

ToggleByRecorder ==
  /\ ui = "toggle"
  /\ IF recState \in {"Starting", "Recording"}
     THEN Goto("toggleStop") /\ pendingStart' = FALSE
     ELSE Goto(IF recState = "Stopping" THEN "idle" ELSE "toggleMic") /\ UNCHANGED pendingStart
  /\ MicUntouched /\ SettingsUntouched /\ RecUntouched
  /\ UNCHANGED <<window, posted, after, reconfigure, lastSeen>>

ToggleStops ==
  /\ ui = "toggleStop" /\ Goto("idle") /\ RecStopAndSave
  /\ MicUntouched /\ SettingsUntouched /\ UNCHANGED <<window, hostVars>>

\* Mutant: a microphone check that is stopping counts as stopped.
ToggleIgnoresStopping ==
  /\ ui = "toggleMic"
  /\ pendingStart' = (~pendingStart /\ micState \in {"Starting", "Monitoring"})
  /\ Goto(IF pendingStart THEN "idle" ELSE IF micState \in {"Starting", "Monitoring"} THEN "toggleMicStop" ELSE "toggleStart")
  /\ MicUntouched /\ SettingsUntouched /\ RecUntouched
  /\ UNCHANGED <<window, posted, after, reconfigure, lastSeen>>

\* A recording that waits for the microphone check is cancelled.
ToggleByMic ==
  /\ ui = "toggleMic"
  /\ pendingStart' = (~pendingStart /\ MicActive)
  /\ Goto(IF pendingStart THEN "idle" ELSE IF MicActive THEN "toggleMicStop" ELSE "toggleStart")
  /\ MicUntouched /\ SettingsUntouched /\ RecUntouched
  /\ UNCHANGED <<window, posted, after, reconfigure, lastSeen>>

ToggleStopsMic ==
  /\ ui = "toggleMicStop" /\ Goto("idle") /\ MicStopCommand
  /\ RecUntouched /\ SettingsUntouched /\ UNCHANGED <<window, hostVars>>

ToggleStarts ==
  /\ ui = "toggleStart" /\ Goto("idle") /\ RecStart
  /\ MicUntouched /\ SettingsUntouched /\ UNCHANGED <<window, hostVars>>

\* Mutant: only a check that stopped, not one that failed, lets the recording start.
HandleMicIdleOnly ==
  /\ ui = "idle" /\ "mic" \in posted /\ posted' = posted \ {"mic"}
  /\ IF pendingStart /\ micState = "Idle"
     THEN pendingStart' = FALSE /\ ReconfigureThen("toggle")
     ELSE UNCHANGED <<ui, after, pendingStart>>
  /\ MicUntouched /\ SettingsUntouched /\ RecUntouched
  /\ UNCHANGED <<window, reconfigure, lastSeen>>

HandleMicMonitorStateChanged ==
  /\ ui = "idle" /\ "mic" \in posted /\ posted' = posted \ {"mic"}
  /\ IF pendingStart /\ micState \in {"Idle", "Failed"}
     THEN pendingStart' = FALSE /\ ReconfigureThen("toggle")
     ELSE UNCHANGED <<ui, after, pendingStart>>
  /\ MicUntouched /\ SettingsUntouched /\ RecUntouched
  /\ UNCHANGED <<window, reconfigure, lastSeen>>

TrayState(state) == IF state \in {"Saved", "Failed"} THEN "Idle" ELSE state
Tray == TrayState(lastSeen[2])

\* Mutant: only a new generation is taken for a change.
HandleNewGenerationOnly ==
  /\ ui = "idle" /\ "recorder" \in posted /\ posted' = posted \ {"recorder"}
  /\ IF lastSeen[1] = recGen
     THEN UNCHANGED <<ui, after, lastSeen, unreported>>
     ELSE /\ lastSeen' = <<recGen, recState>>
          /\ unreported' = (unreported /\ recState \notin {"Saved", "Failed"})
          /\ ReconfigureThen("idle")
  /\ MicUntouched /\ SettingsUntouched
  /\ UNCHANGED <<window, recVars, pendingStart, reconfigure>>

\* Only what differs from the last one seen is shown.
HandleRecorderStateChanged ==
  /\ ui = "idle" /\ "recorder" \in posted /\ posted' = posted \ {"recorder"}
  /\ IF lastSeen = <<recGen, recState>>
     THEN UNCHANGED <<ui, after, lastSeen, unreported>>
     ELSE /\ lastSeen' = <<recGen, recState>>
          /\ unreported' = (unreported /\ recState \notin {"Saved", "Failed"})
          /\ ReconfigureThen("idle")
  /\ MicUntouched /\ SettingsUntouched
  /\ UNCHANGED <<window, recVars, pendingStart, reconfigure>>

\* The buttons of the settings window, drawn from a snapshot of the session.
MicStartButton ==
  /\ ui = "idle" /\ ~MicActive /\ Goto("micStart")
  /\ MicUntouched /\ SettingsUntouched /\ RecUntouched /\ UNCHANGED <<window, posted, hostVars>>

MicStopButton ==
  /\ ui = "idle" /\ MicActive /\ MicStopCommand
  /\ SettingsUntouched /\ RecUntouched /\ UNCHANGED <<window, ui, hostVars>>

StartMicMonitor ==
  /\ ui = "micStart"
  /\ Goto(IF pendingStart \/ RecActive THEN "idle" ELSE "micReap")
  /\ MicUntouched /\ SettingsUntouched /\ RecUntouched /\ UNCHANGED <<window, posted, hostVars>>

ReapMic ==
  /\ ui = "micReap" /\ Goto("micSession") /\ MicReap
  /\ SettingsUntouched /\ RecUntouched /\ UNCHANGED <<window, hostVars>>

StartMic ==
  /\ ui = "micSession" /\ Goto("idle") /\ MicStart
  /\ SettingsUntouched /\ RecUntouched /\ UNCHANGED <<window, hostVars>>

(***************************************************************************)
(* Settings: hotkeys, startup entry, file, and only then what is in force. *)
(***************************************************************************)
OtherThanSettings == MicUntouched /\ RecUntouched /\ UNCHANGED <<window, posted, hostVars>>

HotkeyStep ==
  /\ ReplaceStep
  /\ MicUntouched /\ RecUntouched /\ UNCHANGED <<window, posted, ui, hostVars, settingsVars>>

InitHotkeys ==
  /\ ui = "initHotkeys" /\ Goto("initStartup") /\ ReplaceBegin(settings)
  /\ OtherThanSettings /\ UNCHANGED settingsVars

\* The startup entry of the registry is set or removed, or fails; at startup
\* a failure is only reported.
InitStartup ==
  /\ ui = "initStartup" /\ hkStep = "done" /\ Goto("idle")
  /\ OtherThanSettings /\ SettingsUntouched

ApplySettings(new) ==
  /\ ui = "idle" /\ Goto("applyHotkeys")
  /\ candidate' = new /\ ReplaceBegin(new)
  /\ OtherThanSettings /\ UNCHANGED settings

Rejected == Goto("idle") /\ candidate' = settings

ApplyHotkeys ==
  /\ ui = "applyHotkeys" /\ hkStep = "done"
  /\ IF hkDone THEN Goto("applyStartup") /\ UNCHANGED candidate ELSE Rejected
  /\ OtherThanSettings /\ UNCHANGED <<settings, hkVars>>

\* SetStartupRegistration, and then SaveSettingsFileAtomic: a failure of
\* either puts the hotkeys back, as far as Windows lets it.
ApplyStep(from, to) ==
  /\ ui = from
  /\ \/ Goto(to) /\ UNCHANGED hkVars
     \/ Goto("rollback") /\ ReplaceBegin(settings)
  /\ OtherThanSettings /\ UNCHANGED settingsVars

ApplyStartup == ApplyStep("applyStartup", "applySave")
ApplySave == ApplyStep("applySave", "applyCommit")

RolledBack ==
  /\ ui = "rollback" /\ hkStep = "done" /\ Rejected
  /\ OtherThanSettings /\ UNCHANGED <<settings, hkVars>>

ApplyCommit ==
  /\ ui = "applyCommit" /\ settings' = candidate
  /\ reconfigure' = RecActive
  /\ IF RecActive THEN Goto("idle") /\ RecUntouched ELSE Goto("replace") /\ RecReplaceBegin
  /\ MicUntouched
  /\ UNCHANGED <<window, posted, hkVars, candidate, after, pendingStart, lastSeen>>

(***************************************************************************)
(* Exit destroys the hidden window; Shutdown follows the message loop.     *)
(***************************************************************************)
ExitCommand ==
  /\ ui = "idle" /\ Goto("exitUi") /\ window' = FALSE /\ posted' = {}
  /\ WindowHotkeysGone
  /\ MicUntouched /\ RecUntouched /\ UNCHANGED <<hostVars, settingsVars>>

ShutdownUi ==
  /\ ui = "exitUi" /\ Goto("exitMic") /\ MicStopCommand
  /\ SettingsUntouched /\ RecUntouched /\ UNCHANGED <<window, hostVars>>

ShutdownMic ==
  /\ \/ ui = "exitMic" /\ Goto("exitMicJoin") /\ MicShutdownBegin
     \/ ui = "exitMicJoin" /\ Goto("exitRecorder") /\ MicShutdownJoined
  /\ SettingsUntouched /\ RecUntouched /\ UNCHANGED <<window, hostVars>>

ShutdownRecorder ==
  /\ \/ /\ ui = "exitRecorder" /\ Goto("exitRecorderJoin")
        /\ recClosing' = TRUE /\ recStop' = TRUE /\ UNCHANGED <<recState, recAt>>
     \/ /\ ui = "exitRecorderJoin" /\ RecJoinable /\ Goto("exitHotkeys")
        /\ recState' = "Idle" /\ recAt' = "none" /\ UNCHANGED <<recClosing, recStop>>
  /\ MicUntouched /\ SettingsUntouched
  /\ UNCHANGED <<window, posted, hostVars, recGen, recSink, recHand, recConfig, unreported>>

ShutdownHotkeys ==
  /\ ui = "exitHotkeys" /\ Goto("gone") /\ UnregisterAll
  /\ OtherThanSettings /\ UNCHANGED settingsVars

MicStep ==
  /\ MicWorkerStep
  /\ RecUntouched /\ SettingsUntouched /\ UNCHANGED <<ui, hostVars>>

UserCommand ==
  \/ ToggleCommand \/ MicStartButton \/ MicStopButton \/ ExitCommand
  \/ \E new \in Layouts : ApplySettings(new)

UiContinues ==
  \/ ReconfigureRecorderIfInactive \/ ReplaceRecorder
  \/ ToggleByRecorder \/ ToggleStops \/ ToggleByMic \/ ToggleStopsMic \/ ToggleStarts
  \/ StartMicMonitor \/ ReapMic \/ StartMic
  \/ HotkeyStep \/ InitHotkeys \/ InitStartup
  \/ ApplyHotkeys \/ ApplyStartup \/ ApplySave \/ RolledBack \/ ApplyCommit
  \/ ShutdownUi \/ ShutdownMic \/ ShutdownRecorder \/ ShutdownHotkeys

Done == ui = "gone" /\ UNCHANGED vars

Next ==
  \/ UserCommand \/ UiContinues
  \/ HandleMicMonitorStateChanged \/ HandleRecorderStateChanged
  \/ MicStep \/ RecWorkerStep
  \/ Done

Spec == Init /\ [][Next]_vars

(***************************************************************************)
(* Properties.                                                             *)
(***************************************************************************)
\* The microphone check and a recording exclude each other: while the
\* recorder has a worker before its last publication, no stream of the
\* microphone check is open, although its stop is only asked for and the
\* start of the recording waits for a message.
MicAndRecordingExclusive ==
  recAt \in {"preparing", "capturing", "saving"} => ~MicDeviceOpen

\* Settings saved while a recording runs are not lost: as long as the
\* recorder was created with others, its replacement is asked for or under
\* way, whatever is toggled, applied or finished meanwhile.
SettingsReachRecorder ==
  recConfig # settings => (reconfigure \/ ui = "replace")

Quiet == ui = "idle" /\ "recorder" \notin posted /\ ~recHand

\* When nothing is on its way to the tray, it shows the recorder's state,
\* whether or not the recorder was replaced while a message was waiting.
TrayFollowsRecorder ==
  Quiet => Tray = TrayState(recState)

\* Between two replacements the hotkeys Windows has are those the manager
\* knows, of one layout, or none: never a mixture, and none forgotten.
HotkeysAgree ==
  (hkStep = "done" /\ window) => (osKeys = bindings /\ bindings \in BindingSets)

\* A recording that waits for the microphone check does not wait for ever:
\* the worker is still to end, and to post, or its message is there.
PendingStartIsAwaited ==
  (pendingStart /\ ui = "idle") => (micRunning /\ micStop) \/ micHand \/ "mic" \in posted

\* A worker is joined before its handle is assigned again (which would
\* terminate the program), and before what it calls is gone: Start finds no
\* joinable thread although the worker may end while it reaps, and after
\* Shutdown no worker is left that could call into the host.
WorkersAreJoined ==
  /\ (ui = "micSession" /\ MicMayStart) => micWorker = "none"
  /\ ui = "gone" => (micWorker = "none" /\ recAt = "none" /\ ~micHand /\ ~recHand /\ osKeys = {})

\* implementation_gates.md:85: the tray reports the saved path and failures.
OutcomeIsShown ==
  (Quiet /\ recState \in {"Saved", "Failed"}) => ~unreported
=============================================================================
