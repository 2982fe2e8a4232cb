------------------------------- MODULE Recorder -------------------------------
(***************************************************************************)
(* The recorder: VideoRecorderSession, the state machine the message       *)
(* thread commands (src/src/record/VideoRecorderSession.cpp), and the      *)
(* pipeline its worker thread runs for one recording                       *)
(* (src/src/record/VideoRecorderPipeline.cpp), composed with the clip      *)
(* queues and the media path.                                              *)
(*                                                                         *)
(* upc says where the message thread is, wpc where the worker is.  A step  *)
(* is one critical section of the session, or one piece of a pipeline      *)
(* stage between two moments at which another thread can tell it apart.    *)
(***************************************************************************)
EXTENDS ClipExports, MediaPath, FiniteSetsExt, TLC

CONSTANT MaxGenerations   \* bound: recordings started in one behaviour

ASSUME RecorderAssumption == MaxGenerations \in Nat

VARIABLES
  state, generation, stopRequested, shuttingDown,  \* VideoRecorderSession
  upc,          \* the message thread: "idle", "spawn", "shutdown" or "ended"
  wpc,          \* the worker: a stage of the pipeline, "stuck", "none" or "exited"
  mode,         \* how the pipeline goes on: "run", "cancel", "fail", "throw"
  did,          \* the pipeline's flags: prepare_attempted ... packet_store_closed
  pending,      \* recording_failure_pending: a failure to report at the end
  latched,      \* packet_store_write_fault_
  videoFault,   \* video_runtime_fault_
  caller,       \* what ProcessClipRequests returns to
  hand          \* the request ProcessClipRequests works on, 0 if none

sessionVars == <<state, generation, stopRequested, shuttingDown, upc>>
latchVars   == <<latched, videoFault>>
stageVars   == <<wpc, mode, did, pending>>
workerVars  == <<stageVars, latchVars, caller, hand>>
vars == <<sessionVars, workerVars, clipVars, mediaVars>>

Active == {"Starting", "Recording", "Stopping"}   \* IsActive
Listening == ~shuttingDown
WorkerGone == wpc \in {"none", "exited"}

Init ==
  /\ ClipInit /\ MediaInit
  /\ state = "Idle" /\ generation = 0
  /\ stopRequested = FALSE /\ shuttingDown = FALSE /\ upc = "idle"
  /\ wpc = "none" /\ mode = "run" /\ did = {} /\ pending = FALSE
  /\ latched = FALSE /\ videoFault = FALSE /\ caller = "none" /\ hand = 0

-----------------------------------------------------------------------------
(* The commands of the message thread.                                     *)

(* Start: the state changes at once; the worker of the recording before,   *)
(* if any, is joined outside the lock, then a new one is created.          *)
StartBegin ==
  /\ upc = "idle" /\ Listening /\ state \notin Active
  /\ generation < MaxGenerations
  /\ stopRequested' = FALSE /\ generation' = generation + 1
  /\ state' = "Starting" /\ shown' = [request |-> 0, event |-> "none"]
  /\ upc' = "spawn"
  /\ UNCHANGED <<shuttingDown, workerVars, requests, commands, commandsOpen, answers,
                 exportVars, mediaVars>>

StartSpawn ==
  /\ upc = "spawn" /\ WorkerGone
  /\ upc' = "idle" /\ wpc' = "check"
  /\ mode' = "run" /\ did' = {} /\ pending' = FALSE
  /\ latched' = FALSE /\ videoFault' = FALSE
  /\ MediaReset
  /\ UNCHANGED <<state, generation, stopRequested, shuttingDown, caller, hand, clipVars>>

StartSpawnFails ==
  /\ upc = "spawn" /\ WorkerGone
  /\ upc' = "idle" /\ wpc' = "none" /\ state' = "Failed"
  /\ UNCHANGED <<generation, stopRequested, shuttingDown, mode, did, pending, latchVars,
                 caller, hand, clipVars, mediaVars>>

(* Mutant: a stop before the recording has begun makes the session idle.   *)
StopGoesIdle ==
  /\ upc = "idle" /\ state \in {"Starting", "Recording"}
  /\ stopRequested' = TRUE /\ state' = IF state = "Starting" THEN "Idle" ELSE "Stopping"
  /\ UNCHANGED <<generation, shuttingDown, upc, workerVars, clipVars, mediaVars>>

StopAndSave ==
  /\ upc = "idle" /\ state \in {"Starting", "Recording"}
  /\ stopRequested' = TRUE /\ state' = "Stopping"
  /\ UNCHANGED <<generation, shuttingDown, upc, workerVars, clipVars, mediaVars>>

(* SaveLastClip and AddBookmarkAndSave.                                    *)
RequestExport(kind) ==
  /\ upc = "idle" /\ Listening /\ state = "Recording"
  /\ EnqueueRequest(kind, generation)
  /\ UNCHANGED <<sessionVars, workerVars, mediaVars>>
SaveLastClip == RequestExport("clip")
AddBookmarkAndSave == RequestExport("bookmark")

(* Mutant: Shutdown does not ask the pipeline to stop.                     *)
ShutdownWithoutStop ==
  /\ upc = "idle"
  /\ shuttingDown' = TRUE /\ upc' = "shutdown"
  /\ CloseCommands
  /\ UNCHANGED <<state, generation, stopRequested, workerVars, mediaVars>>

ShutdownBegin ==
  /\ upc = "idle"
  /\ shuttingDown' = TRUE /\ stopRequested' = TRUE /\ upc' = "shutdown"
  /\ CloseCommands
  /\ UNCHANGED <<state, generation, workerVars, mediaVars>>

ShutdownJoin ==
  /\ upc = "shutdown" /\ WorkerGone
  /\ state' = "Idle" /\ upc' = "ended"
  /\ UNCHANGED <<generation, stopRequested, shuttingDown, workerVars, clipVars, mediaVars>>

-----------------------------------------------------------------------------
(* The order of the pipeline's stages.                                     *)

(* Mutant: the worker's announcement overrides a stop.                     *)
PublishUnguarded(s) == state' = IF shuttingDown THEN state ELSE s

(* PublishState, for a worker of the present generation.                   *)
PublishState(s) ==
  state' = IF shuttingDown \/ (s = "Recording" /\ state = "Stopping") THEN state ELSE s

(* Mutant: the store is closed before the clip exports are drained.        *)
CloseBeforeClips == <<
  <<"announceStop", "captureAttempted", "captureStopped">>,
  <<"queueDrain",   "captureStarted",   "queuesDrained">>,
  <<"encoderDrain", "captureStarted",   "encodersDrained">>,
  <<"closeStore",   "prepareAttempted", "storeClosed">>,
  <<"clipDrain",    "prepareAttempted", "clipsDrained">> >>

(* What cleanup does, in order: a stage is due when the first flag is set  *)
(* and the second is not.                                                  *)
CleanupStages == <<
  <<"announceStop", "captureAttempted", "captureStopped">>,
  <<"queueDrain",   "captureStarted",   "queuesDrained">>,
  <<"encoderDrain", "captureStarted",   "encodersDrained">>,
  <<"clipDrain",    "prepareAttempted", "clipsDrained">>,
  <<"closeStore",   "prepareAttempted", "storeClosed">> >>

Cleanup(flags) ==
  LET due == {i \in 1..Len(CleanupStages) :
                CleanupStages[i][2] \in flags /\ CleanupStages[i][3] \notin flags}
  IN  IF due = {} THEN "destroy" ELSE CleanupStages[Min(due)][1]

(* A stage ends: "ok", "keep" (FinalizeRecording: the failure is           *)
(* remembered and the pipeline goes on) or "abort" (it cleans up).  During *)
(* a cleanup failures only lengthen the message.                           *)
Ends(outcome, flags, next) ==
  /\ did' = did \cup flags
  /\ IF mode # "run" THEN wpc' = Cleanup(did') /\ UNCHANGED <<mode, pending>>
     ELSE IF outcome = "abort"
     THEN mode' = "fail" /\ wpc' = Cleanup(did') /\ UNCHANGED pending
     ELSE /\ wpc' = next /\ UNCHANGED mode
          /\ pending' = (pending \/ outcome = "keep")

(* A failed step finds the store failed: FailureForPossiblePacketStoreWrite *)
(* latches that fault and asks to finalize.                                *)
PossibleStoreFailure(otherwise) == IF storeFault THEN "keep" ELSE otherwise
LatchStoreFault == latched' = (latched \/ storeFault)

-----------------------------------------------------------------------------
(* From the start of the pipeline to the first tick.                       *)

CheckBackend(outcome) ==
  /\ wpc = "check"
  /\ Ends(outcome, {}, "prepare")
  /\ UNCHANGED <<sessionVars, latchVars, caller, hand, clipVars, mediaVars>>

(* Prepare creates the store and starts the export queue, in that order.   *)
Prepare ==
  /\ wpc = "prepare"
  /\ Ends("ok", {"prepareAttempted"}, "stopCheck")
  /\ store' = "open" /\ exports' = "running"
  /\ UNCHANGED <<sessionVars, latchVars, caller, hand, requestVars, jobs, writing,
                 capturing, captureFault, encode, encodeFault, place, storeFault>>

PrepareFails ==
  /\ wpc = "prepare"
  /\ Ends("abort", {"prepareAttempted"}, "stopCheck")
  /\ store' \in {"none", "open"}
  /\ UNCHANGED <<sessionVars, latchVars, caller, hand, clipVars,
                 capturing, captureFault, encode, encodeFault, place, storeFault>>

StopCheck ==
  /\ wpc = "stopCheck"
  /\ IF stopRequested THEN mode' = "cancel" /\ wpc' = Cleanup(did)
                      ELSE wpc' = "startAudio" /\ UNCHANGED mode
  /\ UNCHANGED <<sessionVars, did, pending, latchVars, caller, hand, clipVars, mediaVars>>

StartAudio ==
  /\ wpc = "startAudio" /\ wpc' = "startVideo"
  /\ did' = did \cup {"captureAttempted"}
  /\ capturing' = {"audio"}
  /\ UNCHANGED <<sessionVars, mode, pending, latchVars, caller, hand, clipVars,
                 captureFault, encode, encodeFault, place, store, storeFault>>

StartAudioFails ==
  /\ wpc = "startAudio"
  /\ Ends("abort", {"captureAttempted"}, "none")
  /\ UNCHANGED <<sessionVars, latchVars, caller, hand, clipVars, mediaVars>>

StartVideo ==
  /\ wpc = "startVideo" /\ wpc' = "announce"
  /\ did' = did \cup {"captureStarted"}
  /\ capturing' = {"audio", "video"} /\ encode' = "running"
  /\ UNCHANGED <<sessionVars, mode, pending, latchVars, caller, hand, clipVars,
                 captureFault, encodeFault, place, store, storeFault>>

(* The encode thread or WGC does not start: audio is stopped and flushed.  *)
StartVideoFails ==
  /\ wpc = "startVideo"
  /\ Ends("abort", {}, "none")
  /\ capturing' = {} /\ encode' \in {"idle", "stopped"}
  /\ place' \in AudioEnded(place)
  /\ UNCHANGED <<sessionVars, latchVars, caller, hand, clipVars,
                 captureFault, encodeFault, store, storeFault>>

AnnounceRecording ==
  /\ wpc = "announce" /\ wpc' = "loop"
  /\ PublishState("Recording")
  /\ UNCHANGED <<generation, stopRequested, shuttingDown, upc, mode, did, pending,
                 latchVars, caller, hand, clipVars, mediaVars>>

-----------------------------------------------------------------------------
(* The recording loop: DrainCaptureTick, then the clip requests.           *)

EnterClips(for) == wpc' = "clips" /\ caller' = for

Loop ==
  /\ wpc = "loop"
  /\ IF stopRequested THEN EnterClips("last") ELSE wpc' = "tick" /\ UNCHANGED caller
  /\ UNCHANGED <<sessionVars, mode, did, pending, latchVars, hand, clipVars, mediaVars>>

(* A tick that ends the loop, the recording to be finalized or aborted.    *)
TickEnds(outcome) ==
  /\ wpc = "tick"
  /\ Ends(outcome, {}, "clips")
  /\ caller' = IF outcome = "keep" THEN "last" ELSE caller
  /\ UNCHANGED <<sessionVars, hand, clipVars, capturing, captureFault, encode,
                 encodeFault, store, storeFault>>

TickCaptureFailed ==
  /\ captureFault # "none"
  /\ TickEnds(IF captureFault \in {"topology", "device"} THEN "keep" ELSE "abort")
  /\ videoFault' = (videoFault \/ captureFault = "device")
  /\ UNCHANGED <<latched, place>>

TickEncodeFailed ==
  /\ captureFault = "none" /\ encode = "failed"
  /\ TickEnds("keep")
  /\ IF encodeFault = "runtime" THEN videoFault' = TRUE /\ UNCHANGED latched
                                ELSE LatchStoreFault /\ UNCHANGED videoFault
  /\ UNCHANGED place

TickStoreFailed ==
  /\ captureFault = "none" /\ encode # "failed" /\ storeFault
  /\ TickEnds("keep")
  /\ LatchStoreFault
  /\ UNCHANGED <<videoFault, place>>

TickAudioFailed ==
  /\ captureFault = "none" /\ encode # "failed" /\ ~storeFault
  /\ TickEnds("keep")
  /\ place' \in AudioFailed(place, "queued")
  /\ UNCHANGED latchVars

Tick ==
  /\ wpc = "tick" /\ captureFault = "none" /\ encode # "failed" /\ ~storeFault
  /\ \E S \in SUBSET At(place, Audio, "queued"), T \in SUBSET At(place, Audio, "encoder") :
       place' = [s \in Samples |-> IF s \in S THEN "encoder"
                                   ELSE IF s \in T THEN "stored" ELSE place[s]]
  /\ EnterClips("loop")
  /\ UNCHANGED <<sessionVars, mode, did, pending, latchVars, hand, clipVars, capturing,
                 captureFault, encode, encodeFault, store, storeFault>>
-----------------------------------------------------------------------------
(* ProcessClipRequests: called from the loop, once after it, by the clip   *)
(* drain, and by the backend's destructor.                                 *)

(* The requests are done: ok, or the store failed while one was planned.   *)
ClipsReturn(outcome) ==
  CASE caller = "loop" ->
         /\ Ends(outcome, {}, IF outcome = "ok" THEN "loop" ELSE "clips")
         /\ caller' = IF outcome = "ok" THEN "none" ELSE "last"
    [] caller = "last" ->
         Ends(outcome, {}, "announceStop") /\ caller' = "none"
    [] caller = "drain" ->
         /\ wpc' = "joinExports"
         /\ pending' = (pending \/ (mode = "run" /\ outcome = "keep"))
         /\ UNCHANGED <<mode, did, caller>>
    [] caller = "destroy" ->
         wpc' = "joinExports" /\ UNCHANGED <<mode, did, pending, caller>>

TakeRequest ==
  /\ wpc = "clips" /\ PopRequest
  /\ hand' = Head(commands) /\ wpc' = "plan"
  /\ UNCHANGED <<sessionVars, mode, did, pending, latchVars, caller, requests,
                 commandsOpen, answers, shown, exportVars, mediaVars>>

NoMoreRequests ==
  /\ wpc = "clips" /\ commands = <<>>
  /\ ClipsReturn("ok")
  /\ UNCHANGED <<sessionVars, latchVars, hand, clipVars, mediaVars>>

(* The request cannot be planned, or the export queue does not take it.    *)
RequestFails ==
  /\ wpc = "plan"
  /\ ShowEvent(hand, "failed", Listening)
  /\ hand' = 0 /\ wpc' = "clips"
  /\ UNCHANGED <<sessionVars, mode, did, pending, latchVars, caller, requests, commands,
                 commandsOpen, exportVars, mediaVars>>

(* It cannot be planned because the store failed: the rest have to wait.   *)
RequestFindsStoreFailed ==
  /\ wpc = "plan" /\ storeFault
  /\ ShowEvent(hand, "failed", Listening)
  /\ hand' = 0 /\ LatchStoreFault
  /\ ClipsReturn("keep")
  /\ UNCHANGED <<sessionVars, videoFault, requests, commands, commandsOpen, exportVars,
                 mediaVars>>

(* Planned behind a flush barrier of the store, and given to the worker.   *)
RequestExported ==
  /\ wpc = "plan" /\ Usable /\ CanEnqueueJob
  /\ jobs' = Append(jobs, hand)
  /\ IF requests[hand].kind = "bookmark" THEN wpc' = "bookmark" /\ UNCHANGED hand
                                 ELSE wpc' = "clips" /\ hand' = 0
  /\ UNCHANGED <<sessionVars, mode, did, pending, latchVars, caller, requestVars,
                 exports, writing, mediaVars>>

PublishBookmarkQueued ==
  /\ wpc = "bookmark"
  /\ ShowEvent(hand, "queued", Listening)
  /\ hand' = 0 /\ wpc' = "clips"
  /\ UNCHANGED <<sessionVars, mode, did, pending, latchVars, caller, requests, commands,
                 commandsOpen, exportVars, mediaVars>>

-----------------------------------------------------------------------------
(* From the end of the loop to the saved file.                             *)

AnnounceStop ==
  /\ wpc = "announceStop" /\ wpc' = "captureStop"
  /\ PublishState("Stopping")
  /\ UNCHANGED <<generation, stopRequested, shuttingDown, upc, mode, did, pending,
                 latchVars, caller, hand, clipVars, mediaVars>>

StopCapture(outcome) ==
  /\ wpc = "captureStop" /\ outcome \in {"ok", "keep"}
  /\ capturing' = {}
  /\ Ends(outcome, {"captureStopped"}, "queueDrain")
  /\ UNCHANGED <<sessionVars, latchVars, caller, hand, clipVars, captureFault, encode,
                 encodeFault, place, store, storeFault>>

(* Mutant: the encode thread is joined without being asked to stop.        *)
JoinWithoutStop ==
  /\ wpc = "queueDrain" /\ wpc' = "queueJoin"
  /\ UNCHANGED <<sessionVars, mode, did, pending, latchVars, caller, hand, clipVars,
                 mediaVars>>

(* DrainQueuedFrames: the encode thread is asked to stop and joined.       *)
QueueDrainBegin ==
  /\ wpc = "queueDrain" /\ wpc' = "queueJoin"
  /\ AskEncodeToStop
  /\ UNCHANGED <<sessionVars, mode, did, pending, latchVars, caller, hand, clipVars,
                 capturing, captureFault, encodeFault, place, store, storeFault>>

Drained(outcome, flags) ==
  /\ wpc = "queueJoin" /\ EncodeEnded
  /\ Ends(outcome, flags \cup {"queuesDrained"}, "encoderDrain")
  /\ UNCHANGED <<sessionVars, caller, hand, clipVars, capturing, captureFault, encode,
                 encodeFault, store, storeFault>>

VideoDiscarded == [s \in Samples |->
  IF s \in At(place, Video, "queued") THEN "lost" ELSE place[s]]

(* With the store known to have failed, audio is left alone.               *)
QueueDiscarded ==
  /\ latched /\ place' = VideoDiscarded
  /\ Drained("ok", {})
  /\ UNCHANGED latchVars

NewRuntimeFault == ~videoFault /\ encode = "failed" /\ encodeFault = "runtime"

(* Mutant: audio that waits to be encoded is forgotten.                    *)
QueueDrainedOfVideo ==
  /\ ~latched /\ (videoFault \/ encode # "failed" \/ encodeFault = "runtime")
  /\ place' = IF videoFault \/ NewRuntimeFault THEN VideoDiscarded ELSE place
  /\ Drained(IF NewRuntimeFault THEN "keep" ELSE "ok", {"audioDrained"})
  /\ videoFault' = (videoFault \/ NewRuntimeFault)
  /\ UNCHANGED latched

(* What the queue drain does once video is drained, or discarded because   *)
(* of a runtime fault: audio is drained as well.                           *)
QueueDrained ==
  /\ ~latched /\ (videoFault \/ encode # "failed" \/ encodeFault = "runtime")
  /\ LET video == IF videoFault \/ NewRuntimeFault THEN VideoDiscarded ELSE place
     IN  \/ /\ place' \in AudioDrained(video)
            /\ Drained(IF NewRuntimeFault THEN "keep" ELSE "ok", {"audioDrained"})
            /\ UNCHANGED latched
         \/ /\ place' \in AudioFailed(video, "queued")
            /\ Drained("keep", {})
            /\ LatchStoreFault
  /\ videoFault' = (videoFault \/ NewRuntimeFault)

QueueDrainFails ==
  /\ ~latched /\ ~videoFault /\ encode = "failed" /\ encodeFault = "other"
  /\ Drained(PossibleStoreFailure("abort"), {})
  /\ LatchStoreFault
  /\ UNCHANGED <<videoFault, place>>

(* DrainEncoder: the video encoder is drained, then audio is flushed, or   *)
(* refuses to be if its queued blocks were not all drained.                *)
EncoderDrained(outcome) ==
  /\ wpc = "encoderDrain"
  /\ Ends(outcome, {"encodersDrained"}, "clipDrain")
  /\ UNCHANGED <<sessionVars, caller, hand, clipVars, capturing, captureFault, encode,
                 encodeFault, store, storeFault>>

EncoderSkipped ==
  /\ latched
  /\ EncoderDrained("ok")
  /\ UNCHANGED <<latchVars, place>>

InEncoder == At(place, Video, "encoder")
VideoFinalized == [s \in Samples |-> IF s \in InEncoder THEN "stored" ELSE place[s]]
VideoLost == [s \in Samples |-> IF s \in InEncoder THEN "lost" ELSE place[s]]

DrainEncoder ==
  /\ ~latched
  /\ \E video \in BOOLEAN :   \* the video encoder is finalized without a fault
       /\ IF video THEN videoFault \/ Usable \/ InEncoder = {} ELSE ~videoFault
       /\ LET pl == IF videoFault THEN place
                    ELSE IF video THEN VideoFinalized ELSE VideoLost
          IN  \/ /\ "audioDrained" \in did /\ place' \in AudioFlushed(pl)
                 /\ EncoderDrained(IF video THEN "ok" ELSE "keep")
                 /\ UNCHANGED latched
              \/ /\ place' \in IF "audioDrained" \in did
                                THEN AudioFailed(pl, "encoder") ELSE {pl}
                 /\ EncoderDrained("keep")
                 /\ LatchStoreFault
       /\ videoFault' = (videoFault \/ ~video)

DrainEncoderFails ==
  /\ ~latched /\ ~videoFault
  /\ place' = VideoLost
  /\ EncoderDrained(PossibleStoreFailure("abort"))
  /\ LatchStoreFault
  /\ UNCHANGED videoFault

(* Mutant: the clip drain only joins the export worker.                    *)
ClipDrainSkipsRequests ==
  /\ wpc = "clipDrain" /\ wpc' = "joinExports" /\ caller' = "drain"
  /\ UNCHANGED <<sessionVars, mode, did, pending, latchVars, hand, clipVars, mediaVars>>

(* DrainClipExports: the last requests, then the export queue's shutdown.  *)
ClipDrainBegin ==
  /\ wpc = "clipDrain" /\ EnterClips("drain")
  /\ UNCHANGED <<sessionVars, mode, did, pending, latchVars, hand, clipVars, mediaVars>>

JoinExports ==
  /\ wpc = "joinExports" /\ ExportsStopped
  /\ exports' = "off"
  /\ IF caller = "drain" THEN Ends("ok", {"clipsDrained"}, "manifest")
                         ELSE wpc' = "destroyStore" /\ UNCHANGED <<mode, did, pending>>
  /\ caller' = "none"
  /\ UNCHANGED <<sessionVars, latchVars, hand, requestVars, jobs, writing, mediaVars>>

WriteManifest(outcome) ==
  /\ wpc = "manifest" /\ outcome \in {"ok", "abort"}
  /\ Ends(outcome, {}, "closeStore")
  /\ UNCHANGED <<sessionVars, latchVars, caller, hand, clipVars, mediaVars>>

ClosePacketStore ==
  /\ wpc = "closeStore"
  /\ store' = "closed"
  /\ Ends(IF storeFault /\ ~latched THEN "abort" ELSE "ok",
          {"storeClosed"}, "recover")
  /\ UNCHANGED <<sessionVars, latchVars, caller, hand, clipVars, capturing,
                 captureFault, encode, encodeFault, place, storeFault>>

(* Recovery, export plan and MP4; a recording without video has no plan.   *)
ExportRecording(stage, outcome, next) ==
  /\ wpc = stage /\ outcome \in {"ok", "abort"}
  /\ Ends(outcome, IF next = "destroy" /\ outcome = "ok" THEN {"mp4Written"} ELSE {},
          next)
  /\ UNCHANGED <<sessionVars, latchVars, caller, hand, clipVars, mediaVars>>
RecoverPacketStore(outcome) == ExportRecording("recover", outcome, "exportPlan")
BuildExportPlan(outcome) ==
  /\ outcome = "ok" => At(place, Video, "stored") # {}
  /\ ExportRecording("exportPlan", outcome, "mp4")
WriteMp4(outcome) == ExportRecording("mp4", outcome, "destroy")

-----------------------------------------------------------------------------
(* The end: the backend is destroyed, then the session publishes.          *)

DestroyCapture ==
  /\ wpc = "destroy" /\ wpc' = "destroyEncode"
  /\ capturing' = {} /\ AskEncodeToStop
  /\ UNCHANGED <<sessionVars, mode, did, pending, latchVars, caller, hand, clipVars,
                 captureFault, encodeFault, place, store, storeFault>>

DestroyEncode ==
  /\ wpc = "destroyEncode" /\ EncodeEnded
  /\ place' \in AudioEnded(place)
  /\ EnterClips("destroy")
  /\ UNCHANGED <<sessionVars, mode, did, pending, latchVars, hand, clipVars, capturing,
                 captureFault, encode, encodeFault, store, storeFault>>

DestroyStore ==
  /\ wpc = "destroyStore" /\ wpc' = "publish"
  /\ store' = IF store = "open" THEN "closed" ELSE store
  /\ UNCHANGED <<sessionVars, mode, did, pending, latchVars, caller, hand, clipVars,
                 capturing, captureFault, encode, encodeFault, place, storeFault>>

(* WgcMonitorCaptureSession::Stop waits for a notification that may come   *)
(* before it sleeps (VideoCapture, run video_stop).  It is called when the *)
(* capture is stopped, when WGC does not start, and by two destructors:    *)
(* the backend's, if the capture still runs, and the session's own.        *)
CaptureStopHangs ==
  /\ \/ wpc = "startVideo" /\ encode' = "running"
     \/ wpc \in {"captureStop", "destroy"} /\ "video" \in capturing /\ UNCHANGED encode
     \/ wpc = "publish" /\ encode # "idle" /\ UNCHANGED encode
  /\ wpc' = "stuck" /\ capturing' = capturing \ {"video"}
  /\ UNCHANGED <<sessionVars, mode, did, pending, latchVars, caller, hand, clipVars,
                 captureFault, encodeFault, place, store, storeFault>>

(* A step of the pipeline throws: the stack unwinds through the backend's  *)
(* destructor, and a request in hand is forgotten.                         *)
Destroying == {"destroy", "destroyEncode", "destroyStore", "publish"}
WorkerThrows ==
  /\ ~WorkerGone /\ wpc \notin Destroying \cup {"stuck"}
  /\ caller # "destroy" /\ mode # "throw"
  /\ mode' = "throw" /\ wpc' = "destroy" /\ did' = {} /\ pending' = FALSE
  /\ hand' = 0 /\ caller' = "none"
  /\ UNCHANGED <<sessionVars, latchVars, clipVars, mediaVars>>

Outcome == IF mode = "cancel" THEN "Idle"
           ELSE IF mode = "run" /\ ~pending THEN "Saved" ELSE "Failed"

PublishOutcome ==
  /\ wpc = "publish" /\ wpc' = "exited"
  /\ PublishState(Outcome)
  /\ UNCHANGED <<generation, stopRequested, shuttingDown, upc, mode, did, pending,
                 latchVars, caller, hand, clipVars, mediaVars>>

-----------------------------------------------------------------------------
Outcomes == {"ok", "keep", "abort"}

Setup ==
  \/ \E outcome \in {"ok", "abort"} : CheckBackend(outcome)
  \/ Prepare \/ PrepareFails \/ StopCheck
  \/ StartAudio \/ StartAudioFails \/ StartVideo \/ StartVideoFails
  \/ AnnounceRecording

Recording ==
  \/ Loop \/ Tick \/ TickCaptureFailed \/ TickEncodeFailed \/ TickStoreFailed
  \/ TickAudioFailed
  \/ TakeRequest \/ NoMoreRequests \/ RequestFails \/ RequestFindsStoreFailed
  \/ RequestExported \/ PublishBookmarkQueued

Finalizing ==
  \/ AnnounceStop \/ QueueDrainBegin \/ QueueDiscarded \/ QueueDrained
  \/ QueueDrainFails \/ EncoderSkipped \/ DrainEncoder \/ DrainEncoderFails
  \/ ClipDrainBegin \/ JoinExports \/ ClosePacketStore
  \/ \E outcome \in Outcomes :
       \/ StopCapture(outcome) \/ WriteManifest(outcome) \/ RecoverPacketStore(outcome)
       \/ BuildExportPlan(outcome) \/ WriteMp4(outcome)
  \/ DestroyCapture \/ DestroyEncode \/ DestroyStore \/ PublishOutcome

Worker == Setup \/ Recording \/ Finalizing

EncodeThread ==
  /\ \/ \E s \in Video : EncodeFrame(s) \/ EncoderOutput(s) \/ EncodeFails("runtime", s)
                         \/ EncodeFails("other", s)
     \/ EncodeStops
  /\ UNCHANGED <<sessionVars, workerVars, clipVars>>

ExportThread ==
  /\ ExportTake \/ (\E outcome \in {"saved", "failed"} : ExportWrite(outcome))
     \/ ExportPublish(Listening)
  /\ UNCHANGED <<sessionVars, workerVars, mediaVars>>

Environment ==
  /\ \/ \E s \in Video, backlog \in SUBSET Video : CaptureVideo(s, backlog)
     \/ \E s \in Audio : CaptureAudio(s)
     \/ \E kind \in {"topology", "device", "other"} : CaptureFails(kind)
     \/ CaptureSinkFails \/ EncodeNeverRuns
     \/ \E lost \in SUBSET Samples : StoreFails(lost)
  /\ UNCHANGED <<sessionVars, workerVars, clipVars>>

UiReturns == StartSpawn \/ StartSpawnFails \/ ShutdownJoin
UiCommand == StartBegin \/ StopAndSave \/ SaveLastClip \/ AddBookmarkAndSave \/ ShutdownBegin

(* The process ends after Shutdown, or waits for a worker that hangs.      *)
Ended == (upc = "ended" \/ wpc = "stuck") /\ UNCHANGED vars

Next ==
  \/ UiCommand \/ UiReturns \/ Worker \/ WorkerThrows \/ CaptureStopHangs
  \/ EncodeThread \/ ExportThread \/ Environment \/ Ended

Spec == Init /\ [][Next]_vars

(* The threads run, and what they call on Windows and its devices returns; *)
(* nothing obliges the user to command anything, a source to deliver, or   *)
(* anything to fail, and the stop of the capture need not return.          *)
FairSpec ==
  /\ Spec
  /\ WF_vars(Worker) /\ WF_vars(EncodeThread) /\ WF_vars(ExportThread) /\ WF_vars(UiReturns)
-----------------------------------------------------------------------------
(* Properties.                                                             *)

SetupStages == {"check", "prepare", "stopCheck", "startAudio", "startVideo", "announce"}
LoopStages  == {"loop", "tick", "clips", "plan", "bookmark"}
FinalStages == {"announceStop", "captureStop", "queueDrain", "queueJoin", "encoderDrain",
                "clipDrain", "joinExports", "manifest", "closeStore",
                "recover", "exportPlan", "mp4"}
Stages == SetupStages \cup LoopStages \cup FinalStages \cup Destroying
Flags == {"prepareAttempted", "captureAttempted", "captureStarted", "captureStopped",
          "queuesDrained", "audioDrained", "encodersDrained", "clipsDrained", "storeClosed", "mp4Written"}

(* The type of every variable.                                             *)
TypeOK ==
  /\ ClipTypeOK /\ MediaTypeOK
  /\ state \in Active \cup {"Idle", "Saved", "Failed"} /\ generation \in Nat
  /\ stopRequested \in BOOLEAN /\ shuttingDown \in BOOLEAN
  /\ upc \in {"idle", "spawn", "shutdown", "ended"}
  /\ wpc \in Stages \cup {"stuck", "none", "exited"}
  /\ mode \in {"run", "cancel", "fail", "throw"}
  /\ did \subseteq Flags /\ pending \in BOOLEAN
  /\ latched \in BOOLEAN /\ videoFault \in BOOLEAN
  /\ caller \in {"none", "loop", "last", "drain", "destroy"}
  /\ hand \in IF wpc \in {"plan", "bookmark"} THEN DOMAIN requests ELSE {0}

(* While a pipeline runs, the session is active or shuts down: a second    *)
(* recording can start neither beside it nor while its worker still has    *)
(* files, devices or events to give back.                                  *)
OneRecordingAtATime == ~WorkerGone => state \in Active \/ shuttingDown

(* A recording published as saved is whole: every sample its sources       *)
(* delivered is in the store the MP4 was written from.                     *)
SavedMeansComplete ==
  state = "Saved" =>
    "mp4Written" \in did /\ \A s \in Samples : place[s] \in {"none", "stored"}

(* The store is closed after everything that appends to it or reads it:    *)
(* sources, encode thread and export worker, on every way out.             *)
StoreClosesLast ==
  store = "closed" =>
    /\ capturing = {} /\ ~Encoding
    /\ exports = "off" /\ jobs = <<>> /\ writing = Idle

(* Whatever a request races with, it is served while the store is open,    *)
(* and once the recording has ended it has been answered exactly once,     *)
(* unless the store failed, the pipeline threw or the session shut down.   *)
EveryRequestAnswered ==
  upc = "idle" /\ ~storeFault /\ mode # "throw" =>
    /\ store = "closed" => commands = <<>>
    /\ wpc = "exited" => \A r \in DOMAIN requests :
         requests[r].recording = generation => answers[r] \in {"saved", "failed"}

(* The pipeline leaves no request for the next recording to serve, even if *)
(* the store failed: the queues are bounded and what is in them "drains    *)
(* before session finalization" (docs/implementation_gates.md).            *)
NoRequestLeftBehind ==
  wpc = "exited" /\ mode # "throw" => commands = <<>>

(* A stop is final: the worker's own announcements never take the session  *)
(* back to recording or starting.                                          *)
StopIsFinal ==
  [][state = "Stopping" => state' \notin {"Starting", "Recording"}]_vars

(* The session "reports queued/saved/failed clip state"                    *)
(* (docs/implementation_gates.md): a request reported saved or failed is   *)
(* not reported queued again.                                              *)
ClipOutcomeIsFinal ==
  [][shown.event \in {"saved", "failed"} /\ shown'.request = shown.request
       => shown'.event # "queued"]_vars

(* The loss of the encoder stops the recording once and keeps what was     *)
(* encoded: "already encoded packets proceed through manifest write, store *)
(* close/recovery, and MP4 mux" (docs/implementation_gates.md).  It does   *)
(* not abort the recording by way of the frames the encoder now refuses.   *)
EncoderFailureIsPreserved ==
  [][wpc = "tick" /\ mode' = "fail" /\ captureFault = "sink"
       => encodeFault # "runtime"]_vars

(* "A PacketStore failure during video, audio, active-snapshot,            *)
(* queue-drain, or encoder-drain work requests ordered preservation        *)
(* finalization" (docs/implementation_gates.md): when the encoders are     *)
(* drained, such a failure has been noticed.                               *)
StoreFailureIsNoticed ==
  [][wpc = "encoderDrain" /\ wpc' # wpc /\ mode' = "run" /\ storeFault
       => pending']_vars

(* A stop is answered: whatever fails meanwhile, the recording ends, or    *)
(* its worker hangs in the stop of the capture.  No other wait of the      *)
(* pipeline, for its threads, queues or files, keeps a stop from its end.  *)
StopIsAnswered == state = "Stopping" ~> state \notin Active \/ wpc = "stuck"

(* Shutdown returns, from any stage of a recording, unless the worker it   *)
(* joins hangs in the stop of the capture.                                 *)
ShutdownReturns == upc = "shutdown" ~> upc = "ended" \/ wpc = "stuck"
=============================================================================
