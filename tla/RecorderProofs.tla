---------------------------- MODULE RecorderProofs ----------------------------
(***************************************************************************)
(* Proofs about Recorder, for any samples, faults, requests, capacities    *)
(* and number of recordings.                                               *)
(***************************************************************************)
EXTENDS Recorder, TLAPS

-----------------------------------------------------------------------------
(* The session.                                                            *)

(* Start has seen the worker before end; Shutdown has marked the session.  *)
SessionInv ==
  /\ OneRecordingAtATime
  /\ upc = "spawn" => WorkerGone /\ state = "Starting"
  /\ upc \in {"shutdown", "ended"} => shuttingDown

(* A step of the pipeline that announces nothing leaves the session alone. *)
LEMMA SessionStays ==
  ASSUME SessionInv, ~WorkerGone, UNCHANGED sessionVars
  PROVE  SessionInv'
BY DEF SessionInv, OneRecordingAtATime, WorkerGone, Active, sessionVars

(* Every step of the pipeline keeps the invariant.                         *)
LEMMA SessionOfWorker ==
  ASSUME SessionInv, Worker \/ WorkerThrows \/ CaptureStopHangs
  PROVE  SessionInv'
<1>1. CASE AnnounceRecording \/ AnnounceStop \/ PublishOutcome
  BY <1>1 DEF AnnounceRecording, AnnounceStop, PublishOutcome, PublishState, SessionInv,
     OneRecordingAtATime, WorkerGone, Active
<1>2. CASE WorkerThrows \/ CaptureStopHangs
  BY <1>2, SessionStays DEF WorkerThrows, CaptureStopHangs, WorkerGone
<1>3. CASE Setup
  BY <1>1, <1>3, SessionStays DEF Setup, CheckBackend, Prepare, PrepareFails, StopCheck,
     StartAudio, StartAudioFails, StartVideo, StartVideoFails, WorkerGone
<1>4. CASE Recording
  BY <1>4, SessionStays DEF Recording, Loop, Tick, TickCaptureFailed, TickEncodeFailed,
     TickStoreFailed, TickAudioFailed, TickEnds, TakeRequest, NoMoreRequests, RequestFails,
     RequestFindsStoreFailed, RequestExported, PublishBookmarkQueued, WorkerGone
<1>5. CASE Finalizing
  BY <1>1, <1>5, SessionStays DEF Finalizing, QueueDrainBegin, QueueDiscarded, QueueDrained,
     QueueDrainFails, Drained, EncoderSkipped, DrainEncoder, DrainEncoderFails, EncoderDrained,
     ClipDrainBegin, JoinExports, ClosePacketStore, StopCapture, WriteManifest,
     RecoverPacketStore, BuildExportPlan, WriteMp4, ExportRecording, DestroyCapture,
     DestroyEncode, DestroyStore, WorkerGone
<1> QED  BY <1>2, <1>3, <1>4, <1>5 DEF Worker

(* The other threads do not touch the session.                             *)
LEMMA SessionOfOthers ==
  ASSUME SessionInv, EncodeThread \/ ExportThread \/ Environment \/ Ended \/ UNCHANGED vars
  PROVE  SessionInv'
BY DEF EncodeThread, ExportThread, Environment, Ended, vars, SessionInv, OneRecordingAtATime,
   WorkerGone, Active, sessionVars, workerVars, stageVars

(* So the session always knows of its worker.                              *)
LEMMA Sessions == Spec => []SessionInv
<1>1. Init => SessionInv
  BY DEF Init, SessionInv, OneRecordingAtATime, WorkerGone
<1>2. SessionInv /\ [Next]_vars => SessionInv'
  <2> SUFFICES ASSUME SessionInv, [Next]_vars PROVE SessionInv'
    OBVIOUS
  <2>1. CASE UiCommand
    BY <2>1 DEF UiCommand, StartBegin, StopAndSave, SaveLastClip, AddBookmarkAndSave,
       RequestExport, ShutdownBegin, SessionInv, OneRecordingAtATime, WorkerGone, Active,
       Listening, sessionVars, workerVars, stageVars
  <2>2. CASE UiReturns
    BY <2>2 DEF UiReturns, StartSpawn, StartSpawnFails, ShutdownJoin, SessionInv,
       OneRecordingAtATime, WorkerGone, Active, workerVars, stageVars
  <2> QED  BY <2>1, <2>2, SessionOfWorker, SessionOfOthers DEF Next
<1> QED  BY <1>1, <1>2, PTL DEF Spec

\* While a pipeline runs its session is active or shuts down, so that neither
\* a second recording starts beside it nor the settings change under it: for
\* any number of recordings (VideoRecorderSession::Start, WorkerMain).
THEOREM NeverTwo == Spec => []OneRecordingAtATime
<1>1. SessionInv => OneRecordingAtATime
  BY DEF SessionInv
<1> QED  BY <1>1, Sessions, PTL

\* A stop is final: no announcement of the worker, late as it may come, takes
\* the session back (VideoRecorderSession::PublishState).
THEOREM StopsAreFinal == Spec => StopIsFinal
<1>1. [Next]_vars => [state = "Stopping" => state' \notin {"Starting", "Recording"}]_vars
  <2> SUFFICES ASSUME Next, state = "Stopping"
               PROVE  state' \notin {"Starting", "Recording"}
    OBVIOUS
  <2>1. CASE state' = state
    BY <2>1
  <2>2. CASE AnnounceRecording \/ AnnounceStop \/ PublishOutcome
    BY <2>2 DEF AnnounceRecording, AnnounceStop, PublishOutcome, PublishState, Outcome
  <2>3. CASE UiCommand \/ UiReturns
    BY <2>3 DEF UiCommand, StartBegin, StopAndSave, SaveLastClip, AddBookmarkAndSave,
       RequestExport, ShutdownBegin, UiReturns, StartSpawn, StartSpawnFails, ShutdownJoin,
       Active, sessionVars
  <2>4. CASE EncodeThread \/ ExportThread \/ Environment \/ Ended \/ WorkerThrows \/ CaptureStopHangs
    BY <2>1, <2>4 DEF EncodeThread, ExportThread, Environment, Ended, WorkerThrows,
       CaptureStopHangs, vars, sessionVars
  <2>5. CASE Setup
    BY <2>1, <2>2, <2>5 DEF Setup, CheckBackend, Prepare, PrepareFails, StopCheck, StartAudio,
       StartAudioFails, StartVideo, StartVideoFails, sessionVars
  <2>6. CASE Recording
    BY <2>1, <2>6 DEF Recording, Loop, Tick, TickCaptureFailed, TickEncodeFailed,
       TickStoreFailed, TickAudioFailed, TickEnds, TakeRequest, NoMoreRequests, RequestFails,
       RequestFindsStoreFailed, RequestExported, PublishBookmarkQueued, sessionVars
  <2>7. CASE Finalizing
    BY <2>1, <2>2, <2>7 DEF Finalizing, QueueDrainBegin, QueueDiscarded, QueueDrained,
       QueueDrainFails, Drained, EncoderSkipped, DrainEncoder, DrainEncoderFails, EncoderDrained,
       ClipDrainBegin, JoinExports, ClosePacketStore, StopCapture, WriteManifest,
       RecoverPacketStore, BuildExportPlan, WriteMp4, ExportRecording, DestroyCapture,
       DestroyEncode, DestroyStore, sessionVars
  <2> QED  BY <2>3, <2>4, <2>5, <2>6, <2>7 DEF Next, Worker
<1> QED  BY <1>1, PTL DEF Spec, StopIsFinal

-----------------------------------------------------------------------------
(* The order of the stages.                                                *)

(* What Cleanup runs next, and what is then behind it.                     *)
CaptureDone(flags) == "captureAttempted" \in flags => "captureStopped" \in flags
QueuesDone(flags) == "captureStarted" \in flags => "queuesDrained" \in flags
ClipsDone(flags) == "prepareAttempted" \in flags => "clipsDrained" \in flags

LEMMA CleanupOrder ==
  ASSUME NEW flags
  PROVE  LET stage == Cleanup(flags)
         IN /\ stage \in {"announceStop", "queueDrain", "encoderDrain", "clipDrain",
                          "closeStore", "destroy"}
            /\ stage # "announceStop" <=> CaptureDone(flags)
            /\ stage \in {"encoderDrain", "clipDrain", "closeStore"} => QueuesDone(flags)
            /\ stage = "closeStore" => "prepareAttempted" \in flags /\ ClipsDone(flags)
<1> DEFINE Due(i) == CleanupStages[i][2] \in flags /\ CleanupStages[i][3] \notin flags
           due == {i \in 1..Len(CleanupStages) : Due(i)}
<1>1. Len(CleanupStages) = 5
  BY DEF CleanupStages
<1>2. CASE due = {}
  <2>1. ~Due(1)
    BY <1>1, <1>2
  <2>2. CleanupStages[1] = <<"announceStop", "captureAttempted", "captureStopped">>
    BY DEF CleanupStages
  <2> QED  BY <1>2, <2>1, <2>2 DEF Cleanup, CaptureDone
<1>3. CASE due # {}
  <2>1. \E i \in due : \A j \in due : i <= j
    BY <1>1, <1>3
  <2>2. Min(due) \in due /\ \A j \in due : Min(due) <= j
    BY <2>1 DEF Min
  <2>3. PICK k \in 1..5 : k = Min(due) /\ Due(k) /\ \A j \in 1..5 : Due(j) => k <= j
    BY <1>1, <2>2
  <2>4. Cleanup(flags) = CleanupStages[k][1]
    BY <1>3, <2>3 DEF Cleanup
  <2>5. /\ CleanupStages[1] = <<"announceStop", "captureAttempted", "captureStopped">>
        /\ CleanupStages[2] = <<"queueDrain",   "captureStarted",   "queuesDrained">>
        /\ CleanupStages[3] = <<"encoderDrain", "captureStarted",   "encodersDrained">>
        /\ CleanupStages[4] = <<"clipDrain",    "prepareAttempted", "clipsDrained">>
        /\ CleanupStages[5] = <<"closeStore",   "prepareAttempted", "storeClosed">>
    BY DEF CleanupStages
  <2>6. k = 1 \/ k = 2 \/ k = 3 \/ k = 4 \/ k = 5
    BY <2>3
  <2> QED  BY <2>3, <2>4, <2>5, <2>6 DEF CaptureDone, QueuesDone, ClipsDone
<1> QED  BY <1>2, <1>3

-----------------------------------------------------------------------------
(* Where sources, encode thread and export queue are at each stage.        *)

Clipping == {"clips", "plan", "bookmark"}
Setting == {"check", "prepare", "stopCheck", "startAudio", "startVideo"}
Pipeline == ~WorkerGone /\ wpc \notin Destroying \cup {"stuck"} /\ caller # "destroy"

(* ProcessClipRequests knows its caller; a pipeline that has begun to      *)
(* clean up is neither in its set-up nor in its loop.                      *)
CallerInv ==
  /\ wpc \in Clipping => caller \in {"loop", "last", "drain", "destroy"}
  /\ wpc = "joinExports" => caller \in {"drain", "destroy"}
  /\ wpc \notin Clipping \cup {"joinExports"} => caller = "none"
  /\ wpc \in SetupStages \cup {"loop", "tick"} \/ caller \in {"loop", "last"} => mode = "run"

(* The flags tell what runs: a cleanup goes by them.                       *)
FlagInv ==
  Pipeline =>
    /\ capturing # {} => "captureAttempted" \in did
    /\ Encoding => "captureStarted" \in did
    /\ exports = "running" => "prepareAttempted" \in did
    /\ "captureStopped" \in did => capturing = {}
    /\ "queuesDrained" \in did => ~Encoding
    /\ "clipsDrained" \in did => exports = "off"
    /\ wpc \in Setting =>
         /\ store # "closed" /\ "captureStopped" \notin did
         /\ "queuesDrained" \notin did /\ "clipsDrained" \notin did
    /\ wpc = "startVideo" => "captureAttempted" \in did

(* The stages come in their order, whether the pipeline goes on or cleans  *)
(* up.                                                                     *)
Draining == wpc = "clipDrain" \/ caller = "drain"
OrderInv ==
  Pipeline =>
    /\ Draining \/ wpc \in {"queueDrain", "queueJoin", "encoderDrain", "manifest", "closeStore"}
       => CaptureDone(did)
    /\ Draining \/ wpc \in {"encoderDrain", "manifest", "closeStore"}
       => QueuesDone(did)
    /\ wpc \in {"manifest", "closeStore"} => ClipsDone(did)

(* The destructor stops what is left before it closes the store.           *)
DestroyInv ==
  /\ wpc \in {"destroyEncode", "destroyStore"} \/ caller = "destroy" => capturing = {}
  /\ wpc = "destroyStore" \/ caller = "destroy" => ~Encoding
  /\ wpc \in {"destroyStore", "publish"} \/ WorkerGone => exports = "off"

(* The export queue holds nothing when it is off.                          *)
ExportInv ==
  /\ exports \in {"off", "running"}
  /\ exports = "off" => jobs = <<>> /\ writing = Idle

StageInv == CallerInv /\ FlagInv /\ OrderInv /\ DestroyInv /\ ExportInv /\ StoreClosesLast

(* A pipeline that no longer runs goes to what is due of the cleanup.      *)
CleansUp ==
  /\ mode' # "run"
  /\ wpc' \in {"announceStop", "queueDrain", "encoderDrain", "clipDrain", "closeStore", "destroy"}
  /\ (wpc' # "announceStop" <=> CaptureDone(did'))
  /\ wpc' \in {"encoderDrain", "clipDrain", "closeStore"} => QueuesDone(did')
  /\ wpc' = "closeStore" => "prepareAttempted" \in did' /\ ClipsDone(did')

(* A stage that ends is followed by the next one or by the cleanup.        *)
LEMMA StageEnds ==
  ASSUME NEW outcome, NEW flags, NEW next, Ends(outcome, flags, next)
  PROVE  /\ did' = did \cup flags /\ (mode' = "throw" <=> mode = "throw")
         /\ \/ /\ mode = "run" /\ mode' = "run" /\ wpc' = next /\ outcome # "abort"
               /\ pending' <=> (pending \/ outcome = "keep")
            \/ (mode # "run" \/ outcome = "abort") /\ CleansUp
<1>1. did' = did \cup flags /\ (mode' = "throw" <=> mode = "throw")
  BY DEF Ends
<1>2. CASE mode = "run" /\ outcome # "abort"
  BY <1>1, <1>2 DEF Ends
<1>3. CASE mode # "run" \/ outcome = "abort"
  <2>1. mode' # "run" /\ wpc' = Cleanup(did')
    BY <1>3 DEF Ends
  <2> QED  BY <1>1, <1>3, <2>1, CleanupOrder DEF CleansUp
<1> QED  BY <1>2, <1>3

(* What the message thread and the stages of the recorder leave alone.     *)
LEMMA StagesStay ==
  ASSUME StageInv,
         UNCHANGED <<wpc, mode, did, caller, exportVars, capturing, encode, store>>
  PROVE  StageInv'
BY DEF StageInv, CallerInv, FlagInv, OrderInv, Draining, DestroyInv, ExportInv, StoreClosesLast, Pipeline,
   WorkerGone, Encoding, exportVars

(* The set-up keeps the invariant,                                         *)
LEMMA StageOfSetup == StageInv /\ Setup => StageInv'
<1> SUFFICES ASSUME StageInv, Setup PROVE StageInv'
  OBVIOUS
<1> USE DEF StageInv, CallerInv, FlagInv, OrderInv, Draining, DestroyInv, ExportInv, StoreClosesLast,
     Pipeline, WorkerGone, Destroying, Clipping, Setting, SetupStages, CleansUp, Encoding,
     CaptureDone, QueuesDone, ClipsDone, clipVars, requestVars, exportVars, mediaVars
<1>1. CASE \E outcome \in {"ok", "abort"} : CheckBackend(outcome)
  BY <1>1, StageEnds DEF CheckBackend
<1>2. CASE Prepare
  BY <1>2, StageEnds DEF Prepare
<1>3. CASE PrepareFails
  BY <1>3, StageEnds DEF PrepareFails
<1>4. CASE StopCheck
  BY <1>4, CleanupOrder DEF StopCheck
<1>5. CASE StartAudio
  BY <1>5 DEF StartAudio
<1>6. CASE StartAudioFails
  BY <1>6, StageEnds DEF StartAudioFails
<1>7. CASE StartVideo
  BY <1>7 DEF StartVideo
<1>8. CASE StartVideoFails
  BY <1>8, StageEnds DEF StartVideoFails
<1>9. CASE AnnounceRecording
  BY <1>9 DEF AnnounceRecording
<1> QED  BY <1>1, <1>2, <1>3, <1>4, <1>5, <1>6, <1>7, <1>8, <1>9 DEF Setup

(* and so do the loop and the clip requests,                               *)
LEMMA StageOfRecording == StageInv /\ Recording => StageInv'
<1> SUFFICES ASSUME StageInv, Recording PROVE StageInv'
  OBVIOUS
<1> USE DEF StageInv, CallerInv, FlagInv, OrderInv, Draining, DestroyInv, ExportInv, StoreClosesLast,
     Pipeline, WorkerGone, Destroying, Clipping, Setting, SetupStages, CleansUp, Encoding,
     CaptureDone, QueuesDone, ClipsDone, clipVars, requestVars, exportVars, mediaVars
<1>1. CASE Loop
  BY <1>1 DEF Loop, EnterClips
<1>2. CASE TickCaptureFailed \/ TickEncodeFailed \/ TickStoreFailed \/ TickAudioFailed
  <2>1. PICK outcome \in {"keep", "abort"} : TickEnds(outcome)
    BY <1>2 DEF TickCaptureFailed, TickEncodeFailed, TickStoreFailed, TickAudioFailed
  <2> QED  BY <2>1, StageEnds DEF TickEnds
<1>3. CASE Tick
  BY <1>3 DEF Tick, EnterClips
<1>4. CASE TakeRequest
  BY <1>4 DEF TakeRequest
<1>5. CASE NoMoreRequests
  <2>1. CASE caller = "loop"
    BY <1>5, <2>1, StageEnds DEF NoMoreRequests, ClipsReturn
  <2>2. CASE caller = "last"
    BY <1>5, <2>2, StageEnds DEF NoMoreRequests, ClipsReturn
  <2>3. CASE caller \in {"drain", "destroy"}
    BY <1>5, <2>3 DEF NoMoreRequests, ClipsReturn
  <2> QED  BY <1>5, <2>1, <2>2, <2>3 DEF NoMoreRequests
<1>6. CASE RequestFails \/ PublishBookmarkQueued
  BY <1>6 DEF RequestFails, PublishBookmarkQueued
<1>7. CASE RequestFindsStoreFailed
  <2>1. CASE caller = "loop"
    BY <1>7, <2>1, StageEnds DEF RequestFindsStoreFailed, ClipsReturn
  <2>2. CASE caller = "last"
    BY <1>7, <2>2, StageEnds DEF RequestFindsStoreFailed, ClipsReturn
  <2>3. CASE caller \in {"drain", "destroy"}
    BY <1>7, <2>3 DEF RequestFindsStoreFailed, ClipsReturn
  <2> QED  BY <1>7, <2>1, <2>2, <2>3 DEF RequestFindsStoreFailed
<1>8. CASE RequestExported
  BY <1>8 DEF RequestExported, CanEnqueueJob
<1> QED  BY <1>1, <1>2, <1>3, <1>4, <1>5, <1>6, <1>7, <1>8 DEF Recording

(* and the stages from the stop to the end.                                *)
LEMMA StageOfFinalizing == StageInv /\ Finalizing => StageInv'
<1> SUFFICES ASSUME StageInv, Finalizing PROVE StageInv'
  OBVIOUS
<1> USE DEF StageInv, CallerInv, FlagInv, OrderInv, Draining, DestroyInv, ExportInv, StoreClosesLast,
     Pipeline, WorkerGone, Destroying, Clipping, Setting, SetupStages, CleansUp, Encoding,
     CaptureDone, QueuesDone, ClipsDone, clipVars, requestVars, exportVars, mediaVars
<1>1. CASE AnnounceStop \/ PublishOutcome
  BY <1>1 DEF AnnounceStop, PublishOutcome
<1>2. CASE QueueDrainBegin
  BY <1>2 DEF QueueDrainBegin, AskEncodeToStop
<1>3. CASE QueueDiscarded \/ QueueDrained \/ QueueDrainFails
  <2>1. ASSUME NEW outcome, NEW flags, flags \subseteq {"audioDrained"}, Drained(outcome, flags)
        PROVE  StageInv'
    BY <2>1, StageEnds DEF Drained, EncodeEnded
  <2>2. CASE QueueDiscarded
    BY <2>1, <2>2 DEF QueueDiscarded
  <2>3. CASE QueueDrained
    BY <2>1, <2>3 DEF QueueDrained
  <2>4. CASE QueueDrainFails
    BY <2>1, <2>4 DEF QueueDrainFails
  <2> QED  BY <1>3, <2>2, <2>3, <2>4
<1>4. CASE EncoderSkipped \/ DrainEncoder \/ DrainEncoderFails
  <2>1. PICK outcome : EncoderDrained(outcome)
    BY <1>4 DEF EncoderSkipped, DrainEncoder, DrainEncoderFails
  <2> QED  BY <2>1, StageEnds DEF EncoderDrained
<1>5. CASE ClipDrainBegin
  BY <1>5 DEF ClipDrainBegin, EnterClips
<1>6. CASE JoinExports
  BY <1>6, StageEnds DEF JoinExports, ExportsStopped
<1>7. CASE ClosePacketStore
  BY <1>7, StageEnds DEF ClosePacketStore
<1>8. ASSUME NEW outcome \in Outcomes, StopCapture(outcome) \/ WriteManifest(outcome)
      PROVE  StageInv'
  BY <1>8, StageEnds DEF StopCapture, WriteManifest
<1>9. ASSUME NEW outcome \in Outcomes,
             RecoverPacketStore(outcome) \/ BuildExportPlan(outcome) \/ WriteMp4(outcome)
      PROVE  StageInv'
  BY <1>9, StageEnds DEF RecoverPacketStore, BuildExportPlan, WriteMp4, ExportRecording
<1>10. CASE DestroyCapture
  BY <1>10 DEF DestroyCapture, AskEncodeToStop
<1>11. CASE DestroyEncode
  BY <1>11 DEF DestroyEncode, EncodeEnded, EnterClips
<1>12. CASE DestroyStore
  BY <1>12 DEF DestroyStore
<1> QED  BY <1>1, <1>2, <1>3, <1>4, <1>5, <1>6, <1>7, <1>8, <1>9, <1>10, <1>11, <1>12 DEF Finalizing

(* A throw leaves everything to the destructor, and a worker that hangs    *)
(* leaves it as it is; the message thread starts a worker when the last is *)
(* gone.                                                                   *)
LEMMA StageOfCommands ==
  ASSUME StageInv, WorkerThrows \/ CaptureStopHangs \/ UiCommand \/ UiReturns
  PROVE  StageInv'
<1>1. CASE WorkerThrows
  BY <1>1 DEF WorkerThrows, StageInv, CallerInv, FlagInv, OrderInv, Draining, DestroyInv, ExportInv,
     StoreClosesLast, Pipeline, WorkerGone, Destroying, Clipping, SetupStages, Encoding, clipVars,
     exportVars, mediaVars
<1>2. CASE UiCommand
  BY <1>2, StagesStay DEF UiCommand, StartBegin, StopAndSave, SaveLastClip, AddBookmarkAndSave,
     RequestExport, EnqueueRequest, ShutdownBegin, CloseCommands, workerVars, stageVars, clipVars,
     mediaVars
<1>3. CASE StartSpawn
  BY <1>3 DEF StartSpawn, MediaReset, StageInv, CallerInv, FlagInv, OrderInv, Draining, DestroyInv, ExportInv,
     StoreClosesLast, Pipeline, WorkerGone, Destroying, Clipping, Setting, SetupStages, Encoding,
     clipVars, exportVars
<1>4. CASE StartSpawnFails
  BY <1>4 DEF StartSpawnFails, StageInv, CallerInv, FlagInv, OrderInv, Draining, DestroyInv, ExportInv,
     StoreClosesLast, Pipeline, WorkerGone, Clipping, SetupStages, Encoding, clipVars,
     exportVars, mediaVars
<1>5. CASE ShutdownJoin
  BY <1>5, StagesStay DEF ShutdownJoin, workerVars, stageVars, clipVars, mediaVars
<1>6. CASE CaptureStopHangs
  BY <1>6 DEF CaptureStopHangs, StageInv, CallerInv, FlagInv, OrderInv, DestroyInv, ExportInv,
     StoreClosesLast, Pipeline, WorkerGone, Destroying, Clipping, Setting, SetupStages, Encoding,
     clipVars, exportVars
<1> QED  BY <1>1, <1>2, <1>3, <1>4, <1>5, <1>6 DEF UiReturns

(* The other threads and the environment start nothing.                    *)
LEMMA StageOfOthers ==
  ASSUME StageInv, EncodeThread \/ ExportThread \/ Environment \/ Ended \/ UNCHANGED vars
  PROVE  StageInv'
<1> USE DEF workerVars, stageVars, clipVars, exportVars, mediaVars
<1>1. CASE EncodeThread
  <2>1. UNCHANGED <<wpc, mode, did, caller, exportVars, capturing, store>>
    BY <1>1 DEF EncodeThread, EncodeFrame, EncoderOutput, EncodeFails, EncodeStops
  <2>2. Encoding' => Encoding
    BY <1>1 DEF EncodeThread, EncodeFrame, EncoderOutput, EncodeFails, EncodeStops, Encoding
  <2> QED  BY <2>1, <2>2 DEF StageInv, CallerInv, FlagInv, OrderInv, Draining, DestroyInv, ExportInv,
           StoreClosesLast, Pipeline, WorkerGone
<1>2. CASE ExportThread
  <2>1. UNCHANGED <<wpc, mode, did, caller, exports, capturing, encode, store>>
    BY <1>2 DEF ExportThread, ExportTake, ExportWrite, ExportPublish
  <2>2. exports = "off" /\ ExportInv => UNCHANGED <<jobs, writing>>
    BY <1>2 DEF ExportThread, ExportTake, ExportWrite, ExportPublish, ExportInv, Idle
  <2> QED  BY <2>1, <2>2 DEF StageInv, CallerInv, FlagInv, OrderInv, Draining, DestroyInv, ExportInv,
           StoreClosesLast, Pipeline, WorkerGone, Encoding
<1>3. CASE Environment
  <2>1. UNCHANGED <<wpc, mode, did, caller, exportVars, capturing, store>>
    BY <1>3 DEF Environment, CaptureVideo, Pushed, CaptureAudio, CaptureFails, CaptureSinkFails,
       EncodeNeverRuns, StoreFails
  <2>2. Encoding' => Encoding
    BY <1>3 DEF Environment, CaptureVideo, Pushed, CaptureAudio, CaptureFails, CaptureSinkFails,
       EncodeNeverRuns, StoreFails, Encoding
  <2> QED  BY <2>1, <2>2 DEF StageInv, CallerInv, FlagInv, OrderInv, Draining, DestroyInv, ExportInv,
           StoreClosesLast, Pipeline, WorkerGone
<1>4. CASE Ended \/ UNCHANGED vars
  BY <1>4, StagesStay DEF Ended, vars
<1> QED  BY <1>1, <1>2, <1>3, <1>4

(* So every stage finds what it needs.                                     *)
LEMMA Staging == Spec => []StageInv
<1>1. Init => StageInv
  BY DEF Init, ClipInit, MediaInit, StageInv, CallerInv, FlagInv, OrderInv, Draining, DestroyInv, ExportInv,
     StoreClosesLast, Pipeline, WorkerGone, Clipping, SetupStages, Encoding
<1>2. StageInv /\ [Next]_vars => StageInv'
  BY StageOfSetup, StageOfRecording, StageOfFinalizing, StageOfCommands, StageOfOthers
     DEF Next, Worker
<1> QED  BY <1>1, <1>2, PTL DEF Spec

\* Whichever stage fails, throws or is cancelled, the store is closed after
\* the sources, the encode thread and the export worker, which use it: for any
\* samples, requests and capacities (the cleanup of
\* RunVideoRecorderPipelineWithBackend and the destructor of its backend).
THEOREM ClosesLast == Spec => []StoreClosesLast
<1>1. StageInv => StoreClosesLast
  BY DEF StageInv
<1> QED  BY <1>1, Staging, PTL

-----------------------------------------------------------------------------
(* What a recording that nothing has failed yet has kept.                  *)

(* Nothing has failed so far, and nothing waits to be reported; the sample *)
(* is stored, or only the store can have lost it.                          *)
Sound == mode = "run" /\ ~pending
Kept(s) == place[s] \in {"none", "stored"} \/ (storeFault /\ place[s] = "lost")

(* The stages behind the MP4, behind the store's close, behind the drains. *)
Publishing == wpc \in Destroying \cup {"exited"} \/ caller = "destroy"
Closed == wpc \in {"recover", "exportPlan", "mp4"} \/ Publishing
Late == wpc \in {"clipDrain", "manifest", "closeStore"} \/ caller = "drain" \/ Closed

(* A fault that is latched is to be reported.                              *)
FaultInv == mode = "run" /\ (latched \/ videoFault) => pending

(* What a sound recording has lost, the encoder or the store has failed    *)
(* for; behind each drain nothing is left of what it drains.               *)
KeepInv ==
  /\ place \in [Samples -> Places]
  /\ Sound => \A s \in Samples : place[s] = "lost" => storeFault \/ encode = "failed"
  /\ encode \in {"idle", "stopped"} => \A s \in Video : place[s] # "queued"
  /\ wpc \in Setting => encode = "idle"
  /\ Sound /\ (wpc = "encoderDrain" \/ Late) => encode # "failed"
  /\ Sound /\ wpc = "encoderDrain" => \A s \in Samples : place[s] # "queued"
  /\ Sound /\ Late => \A s \in Samples : Kept(s)
  /\ Sound /\ Closed => store = "closed" /\ ~storeFault
  /\ mode = "run" /\ Publishing => "mp4Written" \in did
  /\ state = "Saved" => wpc = "exited" /\ Sound

SaveInv == FaultInv /\ KeepInv

(* What moving samples does to each of them.                               *)
LEMMA MovedSamples ==
  ASSUME NEW pl \in [Samples -> Places], NEW S, NEW dest, dest \subseteq Places,
         NEW q \in Moved(pl, S, dest)
  PROVE  /\ q \in [Samples -> Places]
         /\ \A s \in Samples : q[s] = pl[s] \/ (s \in S /\ q[s] \in dest)
         /\ \A s \in Samples \cap S : q[s] \in dest
<1>1. PICK f \in [S -> dest] : q = [s \in Samples |-> IF s \in S THEN f[s] ELSE pl[s]]
  BY DEF Moved
<1> QED  BY <1>1

(* After a drain no audio is queued,                                       *)
LEMMA DrainedAudio ==
  ASSUME NEW pl \in [Samples -> Places], NEW q \in AudioDrained(pl)
  PROVE  /\ q \in [Samples -> Places]
         /\ \A s \in Samples : q[s] = pl[s] \/ (pl[s] = "queued" /\ q[s] \in {"encoder", "stored"})
         /\ \A s \in Audio : q[s] # "queued"
<1> DEFINE S == At(pl, Audio, "queued")
           dest == {"encoder"} \cup (IF Usable THEN {"stored"} ELSE {})
<1>1. dest \subseteq {"encoder", "stored"} /\ dest \subseteq Places
  BY DEF Places
<1>2. q \in Moved(pl, S, dest)
  BY DEF AudioDrained
<1>3. /\ q \in [Samples -> Places]
      /\ \A s \in Samples : q[s] = pl[s] \/ (s \in S /\ q[s] \in dest)
      /\ \A s \in Samples \cap S : q[s] \in dest
  BY <1>1, <1>2, MovedSamples
<1> QED  BY <1>1, <1>3 DEF At, Samples

(* after a flush none is in an encoder,                                    *)
LEMMA FlushedAudio ==
  ASSUME NEW pl \in [Samples -> Places], NEW q \in AudioFlushed(pl)
  PROVE  /\ q \in [Samples -> Places]
         /\ \A s \in Samples : q[s] = pl[s] \/ (pl[s] = "encoder" /\ q[s] = "stored")
         /\ \A s \in Audio : q[s] # "encoder"
<1> DEFINE S == At(pl, Audio, "encoder")
<1>1. {"stored"} \subseteq Places
  BY DEF Places
<1>2. q \in Moved(pl, S, {"stored"})
  BY DEF AudioFlushed
<1>3. /\ q \in [Samples -> Places]
      /\ \A s \in Samples : q[s] = pl[s] \/ (s \in S /\ q[s] \in {"stored"})
      /\ \A s \in Samples \cap S : q[s] \in {"stored"}
  BY <1>1, <1>2, MovedSamples
<1> QED  BY <1>3 DEF At, Samples

(* and a failure concerns only audio that is still on its way.             *)
LEMMA FailedAudio ==
  ASSUME NEW pl \in [Samples -> Places], NEW where \in {"queued", "encoder"},
         NEW q \in AudioFailed(pl, where)
  PROVE  /\ q \in [Samples -> Places]
         /\ \A s \in Samples : q[s] = pl[s] \/ (pl[s] = where /\ q[s] \in {where, "encoder", "lost", "stored"})
<1> DEFINE S == At(pl, Audio, where)
           dest == {where, "encoder", "lost"} \cup (IF Usable THEN {"stored"} ELSE {})
<1>1. dest \subseteq Places /\ dest \subseteq {where, "encoder", "lost", "stored"}
  BY DEF Places
<1>2. q \in Moved(pl, S, dest)
  BY DEF AudioFailed
<1>3. /\ q \in [Samples -> Places]
      /\ \A s \in Samples : q[s] = pl[s] \/ (s \in S /\ q[s] \in dest)
  BY <1>1, <1>2, MovedSamples
<1> QED  BY <1>1, <1>3 DEF At

(* The end of audio disturbs no sample that has arrived.                   *)
LEMMA EndedAudio ==
  ASSUME NEW pl \in [Samples -> Places], NEW q \in AudioEnded(pl)
  PROVE  /\ q \in [Samples -> Places]
         /\ \A s \in Samples :
              q[s] = pl[s] \/ (pl[s] \in {"queued", "encoder"} /\ (q[s] = "queued" => pl[s] = "queued"))
<1>1. CASE q \in AudioFailed(pl, "queued")
  BY <1>1, FailedAudio
<1>2. ASSUME NEW dr \in AudioDrained(pl), q \in AudioFlushed(dr) \cup AudioFailed(dr, "encoder")
      PROVE  /\ q \in [Samples -> Places]
             /\ \A s \in Samples :
                  q[s] = pl[s] \/ (pl[s] \in {"queued", "encoder"} /\ (q[s] = "queued" => pl[s] = "queued"))
  <2>1. /\ dr \in [Samples -> Places]
        /\ \A s \in Samples : dr[s] = pl[s] \/ (pl[s] = "queued" /\ dr[s] \in {"encoder", "stored"})
    BY DrainedAudio
  <2>2. CASE q \in AudioFlushed(dr)
    <3>1. /\ q \in [Samples -> Places]
          /\ \A s \in Samples : q[s] = dr[s] \/ (dr[s] = "encoder" /\ q[s] = "stored")
      BY <2>1, <2>2, FlushedAudio
    <3> QED  BY <2>1, <3>1
  <2>3. CASE q \in AudioFailed(dr, "encoder")
    <3>1. /\ q \in [Samples -> Places]
          /\ \A s \in Samples :
               q[s] = dr[s] \/ (dr[s] = "encoder" /\ q[s] \in {"encoder", "lost", "stored"})
      BY <2>1, <2>3, FailedAudio
    <3> QED  BY <2>1, <3>1
  <2> QED  BY <1>2, <2>2, <2>3
<1> QED  BY <1>1, <1>2 DEF AudioEnded

-----------------------------------------------------------------------------
(* What has been kept stays kept.                                          *)

(* Behind the drains nothing is captured or encoded any more.              *)
LEMMA LateIsQuiet ==
  ASSUME StageInv, SaveInv, Sound, wpc = "encoderDrain" \/ Late
  PROVE  capturing = {} /\ ~Encoding
<1>1. CASE Closed
  BY <1>1 DEF StageInv, StoreClosesLast, SaveInv, KeepInv
<1>2. CASE ~Closed
  BY <1>2 DEF Closed, Late, Publishing, StageInv, CallerInv, FlagInv, OrderInv, Draining, Pipeline,
     WorkerGone, Destroying, Clipping, CaptureDone, QueuesDone
<1> QED  BY <1>1, <1>2

(* Steps that move neither samples nor stages keep the invariant.          *)
LEMMA SaveStays ==
  ASSUME SaveInv,
         UNCHANGED <<wpc, mode, did, pending, caller, latched, videoFault, mediaVars>>,
         state' = state \/ state' # "Saved"
  PROVE  SaveInv'
BY DEF SaveInv, FaultInv, KeepInv, Sound, Kept, Late, Closed, Publishing, mediaVars

(* A pipeline that has failed promises nothing of its samples.             *)
LEMMA SaveOfFailure ==
  ASSUME mode' = "run" => pending' /\ ~Publishing', wpc' \notin Setting, state' # "Saved",
         place' \in [Samples -> Places],
         encode' \in {"idle", "stopped"} => \A s \in Video : place'[s] # "queued"
  PROVE  SaveInv'
BY DEF SaveInv, FaultInv, KeepInv, Sound

(* The stages with nothing behind the drains yet.                          *)
Early ==
  {"prepare", "clips", "loop", "tick", "announceStop", "queueDrain"}

(* A stage before the drains ends: its failure is to be reported.          *)
LEMMA SaveOfMove ==
  ASSUME SaveInv, NEW outcome, NEW flags, NEW next, Ends(outcome, flags, next),
         wpc # "exited", state' = state, UNCHANGED <<encode, storeFault>>,
         mode = "run" /\ outcome # "abort" => next \in Early /\ caller' \notin {"drain", "destroy"},
         next \in Setting => wpc \in Setting,
         latched' \/ videoFault' => latched \/ videoFault \/ outcome = "keep",
         place' \in [Samples -> Places],
         \A s \in Video : place'[s] = "queued" => place[s] = "queued",
         outcome # "keep" => place' = place
  PROVE  SaveInv'
<1>1. state' # "Saved"
  BY DEF SaveInv, KeepInv
<1>2. encode' \in {"idle", "stopped"} => \A s \in Video : place'[s] # "queued"
  BY DEF SaveInv, KeepInv
<1>3. CASE mode = "run" /\ outcome # "abort"
  <2>1. mode' = "run" /\ wpc' = next /\ (pending' <=> (pending \/ outcome = "keep"))
    BY <1>3, StageEnds
  <2>2. ~Late' /\ wpc' # "encoderDrain" /\ ~Closed' /\ ~Publishing'
    BY <1>3, <2>1 DEF Late, Closed, Publishing, Early, Destroying
  <2>3. FaultInv'
    BY <1>3, <2>1 DEF FaultInv, SaveInv
  <2>4. wpc' \in Setting => encode' = "idle"
    BY <2>1 DEF SaveInv, KeepInv
  <2>5. Sound' => Sound /\ place' = place
    BY <1>3, <2>1 DEF Sound
  <2> QED  BY <1>1, <1>2, <2>1, <2>2, <2>3, <2>4, <2>5 DEF SaveInv, KeepInv, Sound
<1>4. CASE ~(mode = "run" /\ outcome # "abort")
  <2>1. mode' # "run" /\ wpc' \notin Setting
    BY <1>4, StageEnds DEF CleansUp, Setting
  <2> QED  BY <1>1, <1>2, <2>1, SaveOfFailure
<1> QED  BY <1>3, <1>4

(* The set-up keeps it,                                                    *)
LEMMA SaveOfSetup == StageInv /\ SaveInv /\ Setup => SaveInv'
<1> SUFFICES ASSUME StageInv, SaveInv, Setup PROVE SaveInv'
  OBVIOUS
<1> USE DEF mediaVars, latchVars, sessionVars
<1>1. ~Late /\ wpc # "encoderDrain" /\ ~Closed /\ ~Publishing /\ caller = "none" /\ mode = "run"
      /\ wpc # "exited" /\ state # "Saved"
  BY DEF Setup, CheckBackend, Prepare, PrepareFails, StopCheck, StartAudio, StartAudioFails,
     StartVideo, StartVideoFails, AnnounceRecording, Late, Closed, Publishing, Destroying,
     StageInv, CallerInv, Clipping, SetupStages, SaveInv, KeepInv
<1>2. place \in [Samples -> Places] /\ (wpc \in Setting => encode = "idle")
      /\ (encode \in {"idle", "stopped"} => \A s \in Video : place[s] # "queued")
  BY DEF SaveInv, KeepInv
<1>3. CASE \E outcome \in {"ok", "abort"} : CheckBackend(outcome)
  <2>1. PICK outcome \in {"ok", "abort"} : CheckBackend(outcome)
    BY <1>3
  <2>2. /\ Ends(outcome, {}, "prepare") /\ wpc \in Setting
        /\ UNCHANGED <<state, encode, storeFault, place, latched, videoFault, caller>>
    BY <2>1 DEF CheckBackend, Setting
  <2>3. "prepare" \in Early /\ caller' \notin {"drain", "destroy"}
    BY <1>1, <2>2 DEF Early
  <2> QED  BY <1>1, <1>2, <2>2, <2>3, SaveOfMove
<1>4. CASE Prepare
  <2>1. wpc' = "stopCheck" /\ mode' = "run" /\ (pending => pending')
    BY <1>1, <1>4, StageEnds DEF Prepare
  <2> QED  BY <1>1, <1>2, <1>4, <2>1 DEF Prepare, SaveInv, FaultInv, KeepInv, Sound, Late, Closed,
           Publishing, Destroying, Setting
<1>5. CASE PrepareFails
  <2>1. mode' # "run" /\ wpc' \notin Setting
    BY <1>5, StageEnds DEF PrepareFails, CleansUp, Setting
  <2> QED  BY <1>1, <1>2, <1>5, <2>1, SaveOfFailure DEF PrepareFails
<1>6. CASE StopCheck
  <2>1. CASE stopRequested
    <3>1. mode' # "run" /\ wpc' \notin Setting
      BY <1>6, <2>1, CleanupOrder DEF StopCheck, Setting
    <3> QED  BY <1>1, <1>2, <1>6, <3>1, SaveOfFailure DEF StopCheck
  <2>2. CASE ~stopRequested
    BY <1>1, <1>2, <1>6, <2>2 DEF StopCheck, SaveInv, FaultInv, KeepInv, Sound, Late, Closed,
       Publishing, Destroying, Setting
  <2> QED  BY <2>1, <2>2
<1>7. CASE StartAudio \/ StartVideo \/ AnnounceRecording
  BY <1>1, <1>2, <1>7 DEF StartAudio, StartVideo, AnnounceRecording, PublishState, SaveInv,
     FaultInv, KeepInv, Sound, Late, Closed, Publishing, Destroying, Setting
<1>8. CASE StartAudioFails \/ StartVideoFails
  <2>1. mode' # "run" /\ wpc' \notin Setting /\ state' = state
    BY <1>8, StageEnds DEF StartAudioFails, StartVideoFails, CleansUp, Setting
  <2>2. place' \in [Samples -> Places] /\ \A s \in Video : place'[s] # "queued"
    <3>1. encode = "idle"
      BY <1>2, <1>8 DEF StartAudioFails, StartVideoFails, Setting
    <3>2. place' = place \/ place' \in AudioEnded(place)
      BY <1>8 DEF StartAudioFails, StartVideoFails
    <3> QED  BY <1>2, <3>1, <3>2, EndedAudio DEF Samples
  <2> QED  BY <1>1, <2>1, <2>2, SaveOfFailure
<1> QED  BY <1>3, <1>4, <1>5, <1>6, <1>7, <1>8 DEF Setup

(* the loop and the clip requests keep it,                                 *)
LEMMA SaveOfRecording == StageInv /\ SaveInv /\ Recording => SaveInv'
<1> SUFFICES ASSUME StageInv, SaveInv, Recording PROVE SaveInv'
  OBVIOUS
<1> USE DEF mediaVars, latchVars, sessionVars
<1>1. wpc \in {"loop", "tick"} \cup Clipping /\ wpc \notin Setting /\ state # "Saved"
  BY DEF Recording, Loop, Tick, TickCaptureFailed, TickEncodeFailed, TickStoreFailed,
     TickAudioFailed, TickEnds, TakeRequest, NoMoreRequests, RequestFails, RequestFindsStoreFailed,
     RequestExported, PublishBookmarkQueued, Clipping, Setting, SaveInv, KeepInv
<1>2. /\ wpc \in Clipping => caller \in {"loop", "last", "drain", "destroy"}
      /\ wpc \notin Clipping => caller = "none" /\ mode = "run"
  BY <1>1 DEF StageInv, CallerInv, Clipping
<1>3. place \in [Samples -> Places]
  BY DEF SaveInv, KeepInv
<1>4. CASE Loop
  BY <1>1, <1>2, <1>4 DEF Loop, EnterClips, SaveInv, FaultInv, KeepInv, Sound, Late, Closed,
     Publishing, Destroying, Setting, Clipping
<1>5. CASE TickCaptureFailed \/ TickEncodeFailed \/ TickStoreFailed \/ TickAudioFailed
  <2>1. PICK outcome \in {"keep", "abort"} :
          /\ TickEnds(outcome)
          /\ UNCHANGED place \/ (outcome = "keep" /\ place' \in AudioFailed(place, "queued"))
          /\ latched' \/ videoFault' => latched \/ videoFault \/ outcome = "keep"
    <3>1. CASE TickCaptureFailed
      BY <3>1 DEF TickCaptureFailed
    <3>2. CASE TickEncodeFailed
      BY <3>2 DEF TickEncodeFailed, LatchStoreFault
    <3>3. CASE TickStoreFailed
      BY <3>3 DEF TickStoreFailed, LatchStoreFault
    <3>4. CASE TickAudioFailed
      BY <3>4 DEF TickAudioFailed
    <3> QED  BY <1>5, <3>1, <3>2, <3>3, <3>4
  <2>2. /\ place' \in [Samples -> Places]
        /\ \A s \in Video : place'[s] = "queued" => place[s] = "queued"
    BY <1>3, <2>1, FailedAudio DEF Samples
  <2> QED  BY <1>1, <1>2, <2>1, <2>2, SaveOfMove DEF TickEnds, Early, Setting
<1>6. CASE Tick
  <2>1. PICK S \in SUBSET At(place, Audio, "queued"), T \in SUBSET At(place, Audio, "encoder") :
          place' = [s \in Samples |-> IF s \in S THEN "encoder"
                                      ELSE IF s \in T THEN "stored" ELSE place[s]]
    BY <1>6 DEF Tick
  <2>2. /\ place' \in [Samples -> Places]
        /\ \A s \in Samples : place'[s] \in {"queued", "lost"} => place[s] = place'[s]
    BY <1>3, <2>1 DEF Places
  <2> QED  BY <1>1, <1>2, <1>6, <2>2 DEF Tick, EnterClips, SaveInv, FaultInv, KeepInv, Sound, Late,
           Closed, Publishing, Destroying, Setting, Clipping, Samples
<1>7. CASE TakeRequest \/ RequestFails \/ PublishBookmarkQueued \/ RequestExported
  <2>1. wpc \in Clipping /\ wpc' \in Clipping
    BY <1>7 DEF TakeRequest, RequestFails, PublishBookmarkQueued, RequestExported, Clipping
  <2>2. UNCHANGED <<mode, did, pending, latched, videoFault, caller, mediaVars, state>>
    BY <1>7 DEF TakeRequest, RequestFails, PublishBookmarkQueued, RequestExported
  <2> QED  BY <1>1, <1>2, <2>1, <2>2 DEF SaveInv, FaultInv, KeepInv, Sound, Kept, Late, Closed,
           Publishing, Destroying, Setting, Clipping
<1>8. ASSUME NEW outcome \in {"ok", "keep"}, wpc \in Clipping, ClipsReturn(outcome),
             UNCHANGED <<mediaVars, state, videoFault>>,
             latched' => latched \/ (outcome = "keep" /\ storeFault)
      PROVE  SaveInv'
  <2>1. CASE caller \in {"loop", "last"}
    <3>1. PICK next : /\ Ends(outcome, {}, next) /\ caller' \in {"none", "last"}
                      /\ next \in {"loop", "clips", "announceStop"}
      <4>1. CASE caller = "loop"
        BY <1>8, <4>1 DEF ClipsReturn
      <4>2. CASE caller = "last"
        BY <1>8, <4>2 DEF ClipsReturn
      <4> QED  BY <2>1, <4>1, <4>2
    <3>2. next \in Early /\ next \notin Setting /\ wpc # "exited"
      BY <1>8, <3>1 DEF Early, Setting, Clipping
    <3>3. caller' \notin {"drain", "destroy"}
      BY <3>1
    <3>4. UNCHANGED <<state, encode, storeFault, place>>
      BY <1>8
    <3>5. latched' \/ videoFault' => latched \/ videoFault \/ outcome = "keep"
      BY <1>8
    <3> QED  BY <1>3, <3>1, <3>2, <3>3, <3>4, <3>5, SaveOfMove
  <2>2. CASE caller \in {"drain", "destroy"}
    <3>1. /\ wpc' = "joinExports" /\ UNCHANGED <<mode, did, caller>>
          /\ Sound' => Sound
          /\ FaultInv'
      <4>1. CASE caller = "drain"
        BY <1>8, <4>1 DEF ClipsReturn, Sound, FaultInv, SaveInv
      <4>2. CASE caller = "destroy"
        <5>1. Sound => ~storeFault
          BY <4>2 DEF SaveInv, KeepInv, Closed, Publishing
        <5> QED  BY <1>8, <4>2, <5>1 DEF ClipsReturn, Sound, FaultInv, SaveInv
      <4> QED  BY <2>2, <4>1, <4>2
    <3> QED  BY <1>1, <1>8, <2>2, <3>1 DEF SaveInv, KeepInv, Sound, Kept, Late, Closed,
             Publishing, Destroying, Setting, Clipping
  <2> QED  BY <1>2, <1>8, <2>1, <2>2
<1>9. CASE NoMoreRequests
  BY <1>8, <1>9 DEF NoMoreRequests, Clipping
<1>10. CASE RequestFindsStoreFailed
  BY <1>8, <1>10 DEF RequestFindsStoreFailed, LatchStoreFault, Clipping
<1> QED  BY <1>4, <1>5, <1>6, <1>7, <1>9, <1>10 DEF Recording

(* A drain behind which something is missing has noticed it.               *)
LEMMA SaveOfQueueDrain ==
  ASSUME StageInv, SaveInv, NEW outcome, NEW flags, Drained(outcome, flags),
         outcome \in {"ok", "keep", "abort"},
         place' \in [Samples -> Places],
         latched' \/ videoFault' => latched \/ videoFault \/ outcome = "keep",
         \A s \in Video : place'[s] = "queued" => place[s] = "queued",
         outcome = "ok" /\ Sound =>
           /\ encode # "failed" /\ \A s \in Samples : place'[s] # "queued"
           /\ \A s \in Samples : place'[s] = "lost" => place[s] = "lost"
  PROVE  SaveInv'
<1>1. /\ state' # "Saved" /\ UNCHANGED <<encode, storeFault, state>> /\ wpc = "queueJoin"
      /\ caller = "none" /\ caller' = "none"
  BY DEF Drained, sessionVars, SaveInv, KeepInv, StageInv, CallerInv, Clipping
<1>2. encode' \in {"idle", "stopped"} => \A s \in Video : place'[s] # "queued"
  BY <1>1 DEF SaveInv, KeepInv
<1>3. CASE mode = "run" /\ outcome # "abort"
  <2>1. mode' = "run" /\ wpc' = "encoderDrain" /\ (pending' <=> (pending \/ outcome = "keep"))
    BY <1>3, StageEnds DEF Drained
  <2>2. ~Late' /\ ~Closed' /\ ~Publishing'
    BY <1>1, <2>1 DEF Late, Closed, Publishing, Destroying
  <2>3. CASE outcome = "keep"
    BY <1>1, <1>2, <2>1, <2>2, <2>3, SaveOfFailure DEF Setting
  <2>4. CASE outcome # "keep"
    <3>1. outcome = "ok"
      BY <1>3, <2>4
    <3>2. Sound' => Sound
      BY <1>3, <2>1 DEF Sound
    <3>3. FaultInv'
      BY <1>3, <2>1, <2>4 DEF FaultInv, SaveInv
    <3> QED  BY <1>1, <1>2, <2>1, <2>2, <3>1, <3>2, <3>3 DEF SaveInv, KeepInv, Setting
  <2> QED  BY <2>3, <2>4
<1>4. CASE ~(mode = "run" /\ outcome # "abort")
  <2>1. mode' # "run" /\ wpc' \notin Setting
    BY <1>4, StageEnds DEF Drained, CleansUp, Setting
  <2> QED  BY <1>1, <1>2, <2>1, SaveOfFailure
<1> QED  BY <1>3, <1>4

(* The same of the encoders.                                               *)
LEMMA SaveOfEncoderDrain ==
  ASSUME StageInv, SaveInv, NEW outcome, EncoderDrained(outcome),
         outcome \in {"ok", "keep", "abort"},
         place' \in [Samples -> Places],
         latched' \/ videoFault' => latched \/ videoFault \/ outcome = "keep",
         \A s \in Video : place'[s] = "queued" => place[s] = "queued",
         outcome = "ok" /\ Sound => \A s \in Samples : Kept(s)'
  PROVE  SaveInv'
<1>1. /\ state' # "Saved" /\ UNCHANGED <<encode, storeFault, state>> /\ wpc = "encoderDrain"
      /\ caller = "none" /\ caller' = "none"
  BY DEF EncoderDrained, sessionVars, SaveInv, KeepInv, StageInv, CallerInv, Clipping
<1>2. encode' \in {"idle", "stopped"} => \A s \in Video : place'[s] # "queued"
  BY <1>1 DEF SaveInv, KeepInv
<1>3. CASE mode = "run" /\ outcome # "abort"
  <2>1. mode' = "run" /\ wpc' = "clipDrain" /\ (pending' <=> (pending \/ outcome = "keep"))
    BY <1>3, StageEnds DEF EncoderDrained
  <2>2. ~Closed' /\ ~Publishing'
    BY <1>1, <2>1 DEF Closed, Publishing, Destroying
  <2>3. CASE outcome = "keep"
    BY <1>1, <1>2, <2>1, <2>2, <2>3, SaveOfFailure DEF Setting
  <2>4. CASE outcome = "ok"
    <3>1. Sound' => Sound
      BY <1>3, <2>1 DEF Sound
    <3>2. FaultInv'
      BY <1>3, <2>1, <2>4 DEF FaultInv, SaveInv
    <3>3. Sound => encode # "failed"
      BY <1>1 DEF SaveInv, KeepInv
    <3>4. Sound => \A s \in Samples : place'[s] = "lost" => storeFault'
      BY <2>4 DEF Kept
    <3> QED  BY <1>1, <1>2, <2>1, <2>2, <2>4, <3>1, <3>2, <3>3, <3>4 DEF SaveInv, KeepInv, Setting
  <2> QED  BY <1>3, <2>3, <2>4
<1>4. CASE ~(mode = "run" /\ outcome # "abort")
  <2>1. mode' # "run" /\ wpc' \notin Setting
    BY <1>4, StageEnds DEF EncoderDrained, CleansUp, Setting
  <2> QED  BY <1>1, <1>2, <2>1, SaveOfFailure
<1> QED  BY <1>3, <1>4

(* The drains lose nothing unnoticed,                                      *)
LEMMA SaveOfDrains ==
  ASSUME StageInv, SaveInv,
         \/ QueueDiscarded \/ QueueDrained \/ QueueDrainFails
         \/ EncoderSkipped \/ DrainEncoder \/ DrainEncoderFails
  PROVE  SaveInv'
<1>1. /\ place \in [Samples -> Places]
      /\ Sound => ~latched /\ ~videoFault
      /\ Sound => \A s \in Samples : place[s] = "lost" => storeFault \/ encode = "failed"
      /\ encode \in {"idle", "stopped"} => \A s \in Video : place[s] # "queued"
      /\ wpc = "encoderDrain" /\ Sound =>
           encode # "failed" /\ \A s \in Samples : place[s] # "queued"
  BY DEF SaveInv, FaultInv, KeepInv, Sound
<1>2. /\ VideoDiscarded \in [Samples -> Places]
      /\ \A s \in Samples : VideoDiscarded[s] = "queued" => place[s] = "queued"
  BY <1>1 DEF VideoDiscarded, Places
<1>3. CASE QueueDiscarded
  BY <1>1, <1>2, <1>3, SaveOfQueueDrain DEF QueueDiscarded, latchVars, Samples
<1>4. CASE QueueDrained
  <2> DEFINE video == IF videoFault \/ NewRuntimeFault THEN VideoDiscarded ELSE place
  <2>1. /\ video \in [Samples -> Places]
        /\ \A s \in Samples : video[s] = "queued" => place[s] = "queued"
    BY <1>1, <1>2
  <2>2. CASE /\ place' \in AudioDrained(video)
             /\ Drained(IF NewRuntimeFault THEN "keep" ELSE "ok", {"audioDrained"})
             /\ UNCHANGED latched
    <3> HIDE DEF video
    <3>1. /\ place' \in [Samples -> Places]
          /\ \A s \in Samples :
               place'[s] = video[s] \/ (video[s] = "queued" /\ place'[s] \in {"encoder", "stored"})
          /\ \A s \in Audio : place'[s] # "queued"
      BY <2>1, <2>2, DrainedAudio
    <3>2. CASE NewRuntimeFault
      BY <1>4, <2>1, <2>2, <3>1, <3>2, SaveOfQueueDrain DEF QueueDrained, Samples
    <3>3. CASE ~NewRuntimeFault
      <4>2. Drained("ok", {"audioDrained"})
        BY <2>2, <3>3
      <4>3. videoFault' => videoFault
        BY <1>4, <3>3 DEF QueueDrained
      <4>4. Sound => video = place /\ encode \in {"idle", "stopped"}
        BY <1>1, <1>4, <3>3, <4>2 DEF QueueDrained, NewRuntimeFault, Drained, EncodeEnded, video
      <4> QED  BY <1>1, <2>1, <2>2, <3>1, <4>2, <4>3, <4>4, SaveOfQueueDrain DEF Samples
    <3> QED  BY <3>2, <3>3
  <2>3. CASE place' \in AudioFailed(video, "queued") /\ Drained("keep", {})
    <3> HIDE DEF video
    <3>1. /\ place' \in [Samples -> Places]
          /\ \A s \in Samples : place'[s] = video[s] \/ video[s] = "queued"
      BY <2>1, <2>3, FailedAudio
    <3> QED  BY <2>1, <2>3, <3>1, SaveOfQueueDrain DEF Samples
  <2> QED  BY <1>4, <2>2, <2>3 DEF QueueDrained
<1>5. CASE QueueDrainFails
  <2>1. Sound => encode = "failed"
    BY <1>5 DEF QueueDrainFails
  <2>2. CASE storeFault
    BY <1>1, <1>5, <2>2, SaveOfQueueDrain DEF QueueDrainFails, PossibleStoreFailure
  <2>3. CASE ~storeFault
    BY <1>1, <1>5, <2>3, SaveOfQueueDrain DEF QueueDrainFails, PossibleStoreFailure, LatchStoreFault
  <2> QED  BY <2>2, <2>3
<1>6. CASE EncoderSkipped
  BY <1>1, <1>6, SaveOfEncoderDrain DEF EncoderSkipped, latchVars
<1>7. CASE DrainEncoder
  <2>1. PICK video \in BOOLEAN :
          LET pl == IF videoFault THEN place ELSE IF video THEN VideoFinalized ELSE VideoLost
          IN /\ \/ /\ place' \in AudioFlushed(pl) /\ EncoderDrained(IF video THEN "ok" ELSE "keep")
                   /\ UNCHANGED latched
                \/ place' \in AudioFailed(pl, "encoder") \cup {pl} /\ EncoderDrained("keep")
             /\ videoFault' = (videoFault \/ ~video)
    BY <1>7 DEF DrainEncoder
  <2> DEFINE pl == IF videoFault THEN place ELSE IF video THEN VideoFinalized ELSE VideoLost
  <2>2. /\ pl \in [Samples -> Places]
        /\ \A s \in Samples : pl[s] = "queued" => place[s] = "queued"
    BY <1>1 DEF VideoFinalized, VideoLost, Places
  <2>3. CASE /\ place' \in AudioFlushed(pl) /\ EncoderDrained(IF video THEN "ok" ELSE "keep")
             /\ UNCHANGED latched
    <3>1. /\ place' \in [Samples -> Places]
          /\ \A s \in Samples : place'[s] = pl[s] \/ (pl[s] = "encoder" /\ place'[s] = "stored")
          /\ \A s \in Audio : place'[s] # "encoder"
      <4> HIDE DEF pl
      <4> QED  BY <2>2, <2>3, FlushedAudio
    <3>2. CASE ~video
      <4> HIDE DEF pl
      <4> QED  BY <2>2, <2>3, <3>1, <3>2, SaveOfEncoderDrain DEF Samples
    <3>3. CASE video
      <4>1. EncoderDrained("ok") /\ (videoFault' => videoFault)
        BY <2>1, <2>3, <3>3
      <4>2. wpc = "encoderDrain" /\ storeFault' = storeFault
        BY <4>1 DEF EncoderDrained
      <4>3. Sound => /\ \A s \in Samples : pl[s] \in {place[s], "stored"}
                     /\ \A s \in Video : pl[s] # "encoder"
        BY <1>1, <3>3 DEF VideoFinalized, InEncoder, At, Samples
      <4> HIDE DEF pl
      <4>4. Sound => \A s \in Samples : Kept(s)'
        BY <1>1, <3>1, <4>2, <4>3 DEF Kept, Samples, Places
      <4> QED  BY <2>2, <2>3, <3>1, <4>1, <4>4, SaveOfEncoderDrain DEF Samples
    <3> QED  BY <3>2, <3>3
  <2>4. CASE place' \in AudioFailed(pl, "encoder") \cup {pl} /\ EncoderDrained("keep")
    <3> HIDE DEF pl
    <3>1. /\ place' \in [Samples -> Places]
          /\ \A s \in Samples :
               place'[s] = pl[s] \/ (pl[s] = "encoder" /\ place'[s] \in {"encoder", "lost", "stored"})
      BY <2>2, <2>4, FailedAudio
    <3> QED  BY <2>2, <2>4, <3>1, SaveOfEncoderDrain DEF Samples
  <2> QED  BY <2>1, <2>3, <2>4
<1>8. CASE DrainEncoderFails
  <2>1. /\ VideoLost \in [Samples -> Places]
        /\ \A s \in Samples : VideoLost[s] = "queued" => place[s] = "queued"
    BY <1>1 DEF VideoLost, Places
  <2>2. CASE storeFault
    BY <1>8, <2>1, <2>2, SaveOfEncoderDrain DEF DrainEncoderFails, PossibleStoreFailure, Samples
  <2>3. CASE ~storeFault
    BY <1>8, <2>1, <2>3, SaveOfEncoderDrain DEF DrainEncoderFails, PossibleStoreFailure,
       LatchStoreFault, Samples
  <2> QED  BY <2>2, <2>3
<1> QED  BY <1>3, <1>4, <1>5, <1>6, <1>7, <1>8

(* and what comes behind the drains leaves the samples alone.              *)
LEMMA SaveOfFinalizing == StageInv /\ SaveInv /\ Finalizing => SaveInv'
<1> SUFFICES ASSUME StageInv, SaveInv, Finalizing PROVE SaveInv'
  OBVIOUS
<1> USE DEF mediaVars, latchVars, sessionVars
<1>1. /\ place \in [Samples -> Places]
      /\ encode \in {"idle", "stopped"} => \A s \in Video : place[s] # "queued"
      /\ state = "Saved" => wpc = "exited"
  BY DEF SaveInv, KeepInv
<1>2. CASE AnnounceStop \/ PublishOutcome
  <2>1. wpc' \in {"captureStop", "exited"} /\ (wpc' = "exited" <=> wpc = "publish")
    BY <1>2 DEF AnnounceStop, PublishOutcome
  <2>2. UNCHANGED <<mode, did, pending, latched, videoFault, caller, mediaVars>>
    BY <1>2 DEF AnnounceStop, PublishOutcome
  <2>3. state' = "Saved" => state = "Saved" \/ (wpc' = "exited" /\ Sound)
    BY <1>2 DEF AnnounceStop, PublishOutcome, PublishState, Outcome, Sound
  <2>4. wpc \in {"announceStop", "publish"}
    BY <1>2 DEF AnnounceStop, PublishOutcome
  <2> QED  BY <1>1, <2>1, <2>2, <2>3, <2>4 DEF SaveInv, FaultInv, KeepInv, Sound, Kept, Late, Closed,
           Publishing, Destroying, Setting
<1>3. CASE QueueDrainBegin
  BY <1>1, <1>3 DEF QueueDrainBegin, AskEncodeToStop, SaveInv, FaultInv, KeepInv, Sound, Kept, Late,
     Closed, Publishing, Destroying, Setting, StageInv, CallerInv, Clipping
<1>4. CASE \/ QueueDiscarded \/ QueueDrained \/ QueueDrainFails
           \/ EncoderSkipped \/ DrainEncoder \/ DrainEncoderFails
  BY <1>4, SaveOfDrains
<1>5. CASE ClipDrainBegin
  BY <1>1, <1>5 DEF ClipDrainBegin, EnterClips, SaveInv, FaultInv, KeepInv, Sound, Kept, Late,
     Closed, Publishing, Destroying, Setting
<1>6. ASSUME NEW outcome \in {"ok", "abort"}, NEW flags, NEW next, Ends(outcome, flags, next),
             UNCHANGED <<place, encode, storeFault, state, latched, videoFault>>,
             wpc \in {"joinExports", "manifest", "closeStore", "recover", "exportPlan", "mp4"},
             caller' = "none", Sound => Late,
             next \in {"manifest", "closeStore", "recover", "exportPlan", "mp4", "destroy"},
             next \in {"recover", "exportPlan", "mp4", "destroy"} /\ outcome = "ok" /\ Sound =>
               store' = "closed" /\ ~storeFault,
             next = "destroy" /\ outcome = "ok" => flags = {"mp4Written"}
      PROVE  SaveInv'
  <2>1. CASE mode = "run" /\ outcome = "ok"
    <3>1. mode' = "run" /\ wpc' = next /\ (pending' <=> pending) /\ did' = did \cup flags
      BY <1>6, <2>1, StageEnds
    <3>2. Sound' => Sound
      BY <2>1, <3>1 DEF Sound
    <3>3. FaultInv'
      BY <1>6, <3>1, <2>1 DEF FaultInv, SaveInv
    <3>4. Closed' => next \in {"recover", "exportPlan", "mp4", "destroy"}
      BY <1>6, <3>1 DEF Closed, Publishing, Destroying
    <3>5. Publishing' => next = "destroy"
      BY <1>6, <3>1 DEF Publishing, Destroying
    <3>6. \A s \in Samples : Kept(s) => Kept(s)'
      BY <1>6 DEF Kept
    <3>7. wpc # "exited" /\ state' # "Saved" /\ next \notin Setting
      BY <1>1, <1>6 DEF Setting
    <3> QED  BY <1>1, <1>6, <2>1, <3>1, <3>2, <3>3, <3>4, <3>5, <3>6, <3>7 DEF SaveInv, KeepInv
  <2>2. CASE mode # "run" \/ outcome = "abort"
    <3>1. mode' # "run" /\ wpc' \notin Setting
      BY <1>6, <2>2, StageEnds DEF CleansUp, Setting
    <3> QED  BY <1>1, <1>6, <3>1, SaveOfFailure
  <2> QED  BY <1>6, <2>1, <2>2
<1>7. CASE JoinExports
  <2>1. CASE caller = "drain"
    <3>1. Late
      BY <2>1 DEF Late
    <3> QED  BY <1>6, <1>7, <2>1, <3>1 DEF JoinExports
  <2>2. CASE caller # "drain"
    <3>1. caller = "destroy"
      BY <1>7, <2>2 DEF JoinExports, StageInv, CallerInv
    <3>2. /\ wpc' = "destroyStore" /\ caller' = "none"
          /\ UNCHANGED <<mode, did, pending, latched, videoFault, place, encode, store, storeFault, state>>
      BY <1>7, <2>2 DEF JoinExports
    <3> QED  BY <1>1, <1>7, <3>1, <3>2 DEF JoinExports, SaveInv, FaultInv, KeepInv, Sound, Kept, Late,
             Closed, Publishing, Destroying, Setting
  <2> QED  BY <2>1, <2>2
<1>8. CASE ClosePacketStore
  <2> DEFINE outcome == IF storeFault /\ ~latched THEN "abort" ELSE "ok"
  <2>1. /\ wpc = "closeStore" /\ caller = "none" /\ Late
    BY <1>8 DEF ClosePacketStore, StageInv, CallerInv, Clipping, Late
  <2>2. outcome = "ok" /\ Sound => ~storeFault
    BY DEF SaveInv, FaultInv, Sound
  <2>3. /\ Ends(outcome, {"storeClosed"}, "recover") /\ store' = "closed" /\ caller' = "none"
        /\ UNCHANGED <<place, encode, storeFault, state, latched, videoFault>>
    BY <1>8, <2>1 DEF ClosePacketStore
  <2>4. outcome \in {"ok", "abort"}
    OBVIOUS
  <2> HIDE DEF outcome
  <2> QED  BY <1>6, <2>1, <2>2, <2>3, <2>4
<1>9. ASSUME NEW outcome \in Outcomes, StopCapture(outcome)
      PROVE  SaveInv'
  <2>1. "queueDrain" \in Early /\ "queueDrain" \notin Setting /\ wpc # "exited" /\ caller' = "none"
    BY <1>9 DEF Early, Setting, StopCapture, StageInv, CallerInv, Clipping
  <2> QED  BY <1>1, <1>9, <2>1, SaveOfMove DEF StopCapture
<1>10. ASSUME NEW outcome \in Outcomes, WriteManifest(outcome)
       PROVE  SaveInv'
  <2>1. wpc = "manifest" /\ caller' = "none" /\ Late
    BY <1>10 DEF WriteManifest, StageInv, CallerInv, Clipping, Late
  <2> QED  BY <1>6, <1>10, <2>1 DEF WriteManifest
<1>11. ASSUME NEW outcome \in Outcomes,
              RecoverPacketStore(outcome) \/ BuildExportPlan(outcome) \/ WriteMp4(outcome)
       PROVE  SaveInv'
  <2>1. PICK next \in {"exportPlan", "mp4", "destroy"} : ExportRecording(wpc, outcome, next)
    BY <1>11 DEF RecoverPacketStore, BuildExportPlan, WriteMp4, ExportRecording
  <2>2. wpc \in {"recover", "exportPlan", "mp4"} /\ caller' = "none"
    BY <1>11 DEF RecoverPacketStore, BuildExportPlan, WriteMp4, ExportRecording, StageInv, CallerInv,
       Clipping
  <2>3. Closed /\ Late
    BY <2>2 DEF Closed, Late
  <2>4. Sound => store = "closed" /\ ~storeFault
    BY <2>3 DEF SaveInv, KeepInv
  <2> QED  BY <1>6, <2>1, <2>2, <2>3, <2>4 DEF ExportRecording
<1>12. CASE DestroyCapture
  <2>1. Sound => encode # "running"
    BY <1>12, LateIsQuiet DEF DestroyCapture, Late, Closed, Publishing, Destroying, Encoding
  <2> QED  BY <1>1, <1>12, <2>1 DEF DestroyCapture, AskEncodeToStop, SaveInv, FaultInv, KeepInv, Sound,
           Kept, Late, Closed, Publishing, Destroying, Setting
<1>13. CASE DestroyEncode
  <2>1. /\ place' \in [Samples -> Places]
        /\ \A s \in Samples : place'[s] = place[s]
             \/ (place[s] \in {"queued", "encoder"} /\ (place'[s] = "queued" => place[s] = "queued"))
    BY <1>1, <1>13, EndedAudio DEF DestroyEncode
  <2>2. Publishing /\ Closed /\ Late
    BY <1>13 DEF DestroyEncode, Publishing, Closed, Late, Destroying
  <2>3. Sound => \A s \in Samples : place'[s] = place[s]
    BY <2>1, <2>2 DEF SaveInv, KeepInv, Kept
  <2> QED  BY <1>1, <1>13, <2>1, <2>2, <2>3 DEF DestroyEncode, EnterClips, SaveInv, FaultInv, KeepInv,
           Sound, Kept, Samples, Setting
<1>14. CASE DestroyStore
  BY <1>1, <1>14 DEF DestroyStore, SaveInv, FaultInv, KeepInv, Sound, Kept, Late, Closed, Publishing,
     Destroying, Setting
<1> QED  BY <1>2, <1>3, <1>4, <1>5, <1>7, <1>8, <1>9, <1>10, <1>11, <1>12, <1>13, <1>14 DEF Finalizing

(* The commands, a throw, a hang, and a new worker, which begins with      *)
(* nothing.                                                                *)
LEMMA SaveOfCommands ==
  ASSUME StageInv, SessionInv, SaveInv,
         WorkerThrows \/ CaptureStopHangs \/ UiCommand \/ UiReturns
  PROVE  SaveInv'
<1>1. CASE WorkerThrows
  <2>1. state # "Saved"
    BY <1>1 DEF WorkerThrows, WorkerGone, SaveInv, KeepInv
  <2> QED  BY <1>1, <2>1, SaveOfFailure DEF WorkerThrows, mediaVars, sessionVars, Setting, SaveInv,
           KeepInv
<1>2. CASE UiCommand
  BY <1>2, SaveStays DEF UiCommand, StartBegin, StopAndSave, SaveLastClip, AddBookmarkAndSave,
     RequestExport, ShutdownBegin, workerVars, stageVars, latchVars, sessionVars
<1>3. CASE StartSpawn
  BY <1>3 DEF StartSpawn, MediaReset, SessionInv, SaveInv, FaultInv, KeepInv, Sound, Late, Closed,
     Publishing, Destroying, Setting, StageInv, CallerInv, WorkerGone, Clipping, Samples, Places
<1>4. CASE StartSpawnFails
  BY <1>4 DEF StartSpawnFails, SaveInv, FaultInv, KeepInv, Sound, Kept, Late, Closed, Publishing,
     Destroying, Setting, StageInv, CallerInv, WorkerGone, Clipping, latchVars, mediaVars
<1>5. CASE ShutdownJoin
  BY <1>5, SaveStays DEF ShutdownJoin, workerVars, stageVars, latchVars
<1>6. CASE CaptureStopHangs
  BY <1>6 DEF CaptureStopHangs, StageInv, CallerInv, SaveInv, FaultInv, KeepInv, Sound, Late, Closed,
     Publishing, Destroying, Setting, Clipping, latchVars, sessionVars
<1> QED  BY <1>1, <1>2, <1>3, <1>4, <1>5, <1>6 DEF UiReturns

(* The other threads lose samples only for a failure of encoder or store.  *)
LEMMA SaveOfOthers ==
  ASSUME StageInv, SaveInv, EncodeThread \/ ExportThread \/ Environment \/ Ended \/ UNCHANGED vars
  PROVE  SaveInv'
<1> USE DEF workerVars, stageVars, latchVars, sessionVars, mediaVars
<1>1. CASE ExportThread \/ Ended \/ UNCHANGED vars
  BY <1>1, SaveStays DEF ExportThread, Ended, vars
<1>2. CASE EncodeThread \/ Environment
  <2>1. UNCHANGED <<wpc, mode, did, pending, caller, latched, videoFault, state, capturing, store>>
    BY <1>2 DEF EncodeThread, EncodeFrame, EncoderOutput, EncodeFails, EncodeStops, Environment,
       CaptureVideo, Pushed, CaptureAudio, CaptureFails, CaptureSinkFails, EncodeNeverRuns, StoreFails
  <2>2. Sound /\ (wpc = "encoderDrain" \/ Late) => capturing = {} /\ ~Encoding
    BY LateIsQuiet
  <2>3. place \in [Samples -> Places] /\ (encode \in {"idle", "stopped"} => \A s \in Video : place[s] # "queued")
    BY DEF SaveInv, KeepInv
  <2>4. /\ Sound' <=> Sound
        /\ Late' <=> Late
        /\ Closed' <=> Closed
        /\ Publishing' <=> Publishing
    BY <2>1 DEF Sound, Late, Closed, Publishing
  <2>5. FaultInv' /\ did' = did
    <3>1. did' = did
      BY <1>2 DEF EncodeThread, Environment
    <3> QED  BY <2>1, <3>1 DEF FaultInv, SaveInv
  <2>6. ASSUME Encoding,
               place' \in [Samples -> Places],
               encode' \in {"idle", "stopped"} => \A s \in Video : place'[s] # "queued",
               (\A s \in Samples : place'[s] = "lost" => place[s] = "lost") \/ encode' = "failed",
               encode' # "failed" => encode # "failed",
               storeFault => storeFault'
        PROVE  SaveInv'
    <3>1. ~(Sound /\ (wpc = "encoderDrain" \/ Late))
      BY <2>2, <2>6
    <3>2. wpc \notin Setting
      BY <2>6 DEF SaveInv, KeepInv, Encoding
    <3>3. ~(Sound /\ Closed)
      BY <3>1 DEF Late
    <3> QED  BY <2>1, <2>4, <2>5, <2>6, <3>1, <3>2, <3>3 DEF SaveInv, KeepInv
  <2>7. CASE EncodeThread
    <3>1. CASE EncodeStops
      BY <2>3, <2>6, <3>1 DEF EncodeStops, At, Encoding
    <3>2. ASSUME NEW s \in Video,
                 EncodeFrame(s) \/ EncoderOutput(s) \/ EncodeFails("runtime", s) \/ EncodeFails("other", s)
          PROVE  SaveInv'
      BY <2>3, <2>6, <3>2 DEF EncodeFrame, EncoderOutput, EncodeFails, Encoding, Samples, Places
    <3> QED  BY <2>7, <3>1, <3>2 DEF EncodeThread
  <2>8. CASE Environment
    <3>1. ASSUME NEW s \in Video, NEW backlog \in SUBSET Video, CaptureVideo(s, backlog)
          PROVE  SaveInv'
      BY <2>3, <2>6, <3>1 DEF CaptureVideo, Pushed, Accepting, Encoding, Samples, Places
    <3>2. ASSUME NEW s \in Audio, CaptureAudio(s)
          PROVE  SaveInv'
      <4>1. ~(Sound /\ (wpc = "encoderDrain" \/ Late)) /\ ~(Sound /\ Closed)
        BY <2>2, <3>2 DEF CaptureAudio, Late
      <4>2. /\ place' \in [Samples -> Places]
            /\ \A x \in Video : place'[x] = place[x]
            /\ \A x \in Samples : place'[x] = "lost" => place[x] = "lost"
        BY <2>3, <3>2, MediaAssumption DEF CaptureAudio, Samples, Places
      <4> QED  BY <2>1, <2>4, <2>5, <3>2, <4>1, <4>2 DEF CaptureAudio, SaveInv, KeepInv
    <3>3. CASE CaptureSinkFails \/ \E kind \in {"topology", "device", "other"} : CaptureFails(kind)
      BY <2>1, <3>3, SaveStays, <2>4, <2>5 DEF CaptureSinkFails, CaptureFails, SaveInv, KeepInv, Kept
    <3>4. CASE EncodeNeverRuns
      BY <2>3, <2>6, <3>4 DEF EncodeNeverRuns
    <3>5. ASSUME NEW lost \in SUBSET Samples, StoreFails(lost)
          PROVE  SaveInv'
      <4>1. ~(Sound /\ Closed) /\ storeFault' = TRUE /\ UNCHANGED encode
        BY <3>5 DEF StoreFails, Usable, SaveInv, KeepInv
      <4>2. /\ place' \in [Samples -> Places]
            /\ \A s \in Samples : place'[s] \in {place[s], "lost"}
        BY <2>3, <3>5 DEF StoreFails, Places
      <4> QED  BY <2>1, <2>4, <2>5, <4>1, <4>2 DEF SaveInv, KeepInv, Kept, Samples
    <3> QED  BY <2>8, <3>1, <3>2, <3>3, <3>4, <3>5 DEF Environment
  <2> QED  BY <1>2, <2>7, <2>8
<1> QED  BY <1>1, <1>2

\* A recording that is published as saved is whole: every sample its sources
\* delivered is in the closed store the MP4 was made from, and no fault,
\* latched or found late, has been passed over, for any samples
\* (RunVideoRecorderPipelineWithBackend, VideoRecorderSession::WorkerMain).
THEOREM SavedIsWhole == Spec => []SavedMeansComplete
<1>1. Init => SaveInv
  BY DEF Init, MediaInit, SaveInv, FaultInv, KeepInv, Sound, Late, Closed, Publishing, Destroying,
     Setting, Samples, Places
<1>2. StageInv /\ SessionInv /\ SaveInv /\ [Next]_vars => SaveInv'
  BY SaveOfSetup, SaveOfRecording, SaveOfFinalizing, SaveOfCommands, SaveOfOthers DEF Next, Worker
<1>3. SaveInv => SavedMeansComplete
  <2> SUFFICES ASSUME SaveInv, state = "Saved" PROVE SavedMeansComplete
    BY DEF SavedMeansComplete
  <2>1. wpc = "exited" /\ Sound /\ Publishing /\ Closed /\ Late
    BY DEF SaveInv, KeepInv, Publishing, Closed, Late
  <2>2. "mp4Written" \in did /\ ~storeFault /\ \A s \in Samples : Kept(s)
    BY <2>1 DEF SaveInv, KeepInv, Sound
  <2> QED  BY <2>2 DEF SavedMeansComplete, Kept
<1> QED  BY <1>1, <1>2, <1>3, Staging, Sessions, PTL DEF Spec

-----------------------------------------------------------------------------
(* Requests.  One that has not been answered is in the command queue, in   *)
(* the pipeline's hand, in the export queue, or with the export worker.    *)

(* What a queue holds, and that it holds nothing twice.                    *)
Holds(queue, r) == \E i \in DOMAIN queue : queue[i] = r
Distinct(queue) == \A i, j \in DOMAIN queue : i # j => queue[i] # queue[j]

(* An element of a sequence, and the recording of a request.               *)
LEMMA Listed ==
  ASSUME NEW S, NEW list \in Seq(S), NEW i \in 1..Len(list)
  PROVE  list[i] \in S
OBVIOUS

LEMMA RecordingIsNumber ==
  ASSUME NEW list \in Seq([kind : RequestKinds, recording : Nat]), NEW r \in 1..Len(list)
  PROVE  list[r].recording \in Nat
<1>1. list[r] \in [kind : RequestKinds, recording : Nat]
  BY Listed
<1> QED  BY <1>1

(* Pushing to a queue and popping from it.                                 *)
LEMMA PushedOne ==
  ASSUME NEW queue \in Seq(Nat), NEW r \in Nat
  PROVE  /\ Append(queue, r) \in Seq(Nat)
         /\ \A q : Holds(Append(queue, r), q) <=> Holds(queue, q) \/ q = r
         /\ Distinct(queue) /\ ~Holds(queue, r) => Distinct(Append(queue, r))
<1> DEFINE pushed == Append(queue, r)
           last == Len(queue) + 1
<1>1. /\ pushed \in Seq(Nat) /\ DOMAIN pushed = DOMAIN queue \cup {last}
      /\ pushed[last] = r /\ \A i \in DOMAIN queue : pushed[i] = queue[i]
  OBVIOUS
<1> HIDE DEF pushed, last
<1>2. \A q : Holds(pushed, q) <=> Holds(queue, q) \/ q = r
  BY <1>1 DEF Holds
<1>3. ASSUME Distinct(queue), ~Holds(queue, r) PROVE Distinct(pushed)
  <2> SUFFICES ASSUME NEW i \in DOMAIN pushed, NEW j \in DOMAIN pushed, i # j
               PROVE  pushed[i] # pushed[j]
    BY DEF Distinct
  <2>1. \A k \in DOMAIN queue : queue[k] # r
    BY <1>3 DEF Holds
  <2>2. \A k, l \in DOMAIN queue : k # l => queue[k] # queue[l]
    BY <1>3 DEF Distinct
  <2> QED  BY <1>1, <2>1, <2>2
<1> QED  BY <1>1, <1>2, <1>3 DEF pushed

LEMMA Popped ==
  ASSUME NEW queue \in Seq(Nat), queue # <<>>
  PROVE  /\ Tail(queue) \in Seq(Nat) /\ Head(queue) \in Nat /\ Holds(queue, Head(queue))
         /\ Distinct(queue) => Distinct(Tail(queue))
         /\ Distinct(queue) =>
              \A q : Holds(Tail(queue), q) <=> Holds(queue, q) /\ q # Head(queue)
<1> DEFINE rest == Tail(queue)
           head == Head(queue)
<1>1. /\ rest \in Seq(Nat) /\ head \in Nat /\ head = queue[1] /\ 1 \in DOMAIN queue
      /\ \A i \in DOMAIN rest :
           i \in Nat /\ i + 1 \in DOMAIN queue /\ rest[i] = queue[i + 1] /\ i + 1 # 1
      /\ \A i \in DOMAIN queue : i # 1 => \E j \in DOMAIN rest : i = j + 1
  <2>1. \A i \in DOMAIN queue : i # 1 => i - 1 \in DOMAIN rest /\ i = (i - 1) + 1
    OBVIOUS
  <2> QED  BY <2>1
<1> HIDE DEF rest, head
<1>2. Holds(queue, head)
  BY <1>1 DEF Holds
<1>3. ASSUME Distinct(queue) PROVE Distinct(rest)
  <2> SUFFICES ASSUME NEW i \in DOMAIN rest, NEW j \in DOMAIN rest, i # j
               PROVE  rest[i] # rest[j]
    BY DEF Distinct
  <2>1. i + 1 # j + 1
    BY <1>1
  <2> QED  BY <1>1, <1>3, <2>1 DEF Distinct
<1>4. ASSUME Distinct(queue), NEW q
      PROVE  Holds(rest, q) <=> Holds(queue, q) /\ q # head
  <2>1. ASSUME Holds(rest, q) PROVE Holds(queue, q) /\ q # head
    <3>1. PICK i \in DOMAIN rest : rest[i] = q
      BY <2>1 DEF Holds
    <3> QED  BY <1>1, <1>4, <3>1 DEF Holds, Distinct
  <2>2. ASSUME Holds(queue, q), q # head PROVE Holds(rest, q)
    <3>1. PICK i \in DOMAIN queue : queue[i] = q
      BY <2>2 DEF Holds
    <3>2. PICK j \in DOMAIN rest : i = j + 1
      BY <1>1, <2>2, <3>1
    <3> QED  BY <1>1, <3>1, <3>2 DEF Holds
  <2> QED  BY <2>1, <2>2
<1> QED  BY <1>1, <1>2, <1>3, <1>4 DEF rest, head

(* A request's number, and where a request can be.                        *)
Numbers == 1..Len(requests)
Queued(r) == Holds(commands, r)
Planned(r) == wpc = "plan" /\ hand = r
Exporting(r) == Holds(jobs, r)
Writing(r) == writing.phase # "idle" /\ writing.request = r
Underway(r) == Queued(r) \/ Planned(r) \/ Exporting(r) \/ Writing(r)

(* The type of what the invariant is about; who waits is a request.        *)
ExportWorker == [request : Nat, phase : {"idle", "writing", "saved", "failed"}]

RequestShape ==
  /\ generation \in Nat /\ writing \in ExportWorker
  /\ requests \in Seq([kind : RequestKinds, recording : Nat])
  /\ \A r \in Numbers : requests[r].recording <= generation
  /\ answers \in Seq({"none", "saved", "failed", "twice"}) /\ Len(answers) = Len(requests)
  /\ commands \in Seq(Nat) /\ jobs \in Seq(Nat)
  /\ \A r : Underway(r) => r \in Numbers

(* No request is in two places, or in one place twice.                     *)
OncePlaced ==
  /\ Distinct(commands) /\ Distinct(jobs)
  /\ \A r \in Numbers :
       /\ Queued(r) => ~Planned(r) /\ ~Exporting(r) /\ ~Writing(r)
       /\ Planned(r) => ~Exporting(r) /\ ~Writing(r)
       /\ Exporting(r) => ~Writing(r)

(* What is on its way has no answer; what is neither was forgotten by a    *)
(* pipeline that threw or a session that shuts down.                       *)
AnswerInv ==
  /\ upc = "spawn" => \A r \in Numbers : requests[r].recording # generation
  /\ \A r \in Numbers :
       /\ answers[r] # "twice"
       /\ Underway(r) => answers[r] = "none"
       /\ ~shuttingDown /\ mode # "throw" /\ requests[r].recording = generation =>
            answers[r] # "none" \/ Underway(r)

RequestInv == RequestShape /\ OncePlaced /\ AnswerInv

(* Steps that touch neither requests nor where they are; a throw forgets   *)
(* the one in hand.                                                        *)
LEMMA RequestsStay ==
  ASSUME RequestInv,
         UNCHANGED <<requests, commands, answers, jobs, writing, generation, shuttingDown>>,
         wpc' = "plan" => wpc = "plan" /\ hand' = hand,
         wpc = "plan" => wpc' = "plan" \/ mode' = "throw",
         mode = "throw" => mode' = "throw" \/ upc = "spawn",
         upc' = "spawn" => upc = "spawn"
  PROVE  RequestInv'
<1>1. /\ Numbers' = Numbers
      /\ \A r : /\ Queued(r)' <=> Queued(r)
                /\ Exporting(r)' <=> Exporting(r)
                /\ Writing(r)' <=> Writing(r)
                /\ Planned(r)' => Planned(r)
                /\ Planned(r) /\ mode' # "throw" => Planned(r)'
  BY DEF Numbers, Queued, Exporting, Writing, Planned, Holds
<1>2. RequestShape' /\ OncePlaced'
  BY <1>1 DEF RequestInv, RequestShape, OncePlaced, Distinct, Underway
<1>3. AnswerInv'
  BY <1>1 DEF RequestInv, AnswerInv, Underway
<1> QED  BY <1>2, <1>3 DEF RequestInv

(* A request is accepted: it is a new one, and waits.                      *)
LEMMA RequestAccepted ==
  ASSUME RequestInv, NEW kind, EnqueueRequest(kind, generation),
         UNCHANGED <<generation, hand, wpc, mode, shuttingDown, upc>>, upc = "idle"
  PROVE  RequestInv'
<1> DEFINE n == Len(requests) + 1
<1>1. /\ requests \in Seq([kind : RequestKinds, recording : Nat])
      /\ answers \in Seq({"none", "saved", "failed", "twice"}) /\ Len(answers) = Len(requests)
      /\ commands \in Seq(Nat) /\ generation \in Nat /\ kind \in RequestKinds
      /\ \A r : Underway(r) => r \in Numbers
  BY DEF RequestInv, RequestShape, EnqueueRequest
<1>2. /\ requests' \in Seq([kind : RequestKinds, recording : Nat]) /\ Len(requests') = n
      /\ requests'[n].recording = generation /\ n \in Nat
      /\ \A r \in Numbers : requests'[r] = requests[r]
  BY <1>1 DEF EnqueueRequest, Numbers
<1>3. Numbers' = Numbers \cup {n} /\ n \notin Numbers
  BY <1>1, <1>2 DEF Numbers
<1>4. /\ answers' \in Seq({"none", "saved", "failed", "twice"}) /\ Len(answers') = n
      /\ answers'[n] = "none"
      /\ \A r \in Numbers : answers'[r] = answers[r]
  BY <1>1 DEF EnqueueRequest, Numbers
<1>5. UNCHANGED <<jobs, writing>> /\ commands' = Append(commands, n)
  BY DEF EnqueueRequest, exportVars
<1> HIDE DEF n
<1>6. ~Underway(n)
  BY <1>1, <1>3
<1>7. /\ \A r : /\ Queued(r)' <=> Queued(r) \/ r = n
                /\ Exporting(r)' <=> Exporting(r)
                /\ Writing(r)' <=> Writing(r)
                /\ Planned(r)' <=> Planned(r)
      /\ commands' \in Seq(Nat) /\ (Distinct(commands) => Distinct(commands'))
  <2>1. \A r : Holds(commands', r) <=> Holds(commands, r) \/ r = n
    BY <1>1, <1>2, <1>5, PushedOne
  <2>2. commands' \in Seq(Nat) /\ (Distinct(commands) => Distinct(commands'))
    BY <1>1, <1>2, <1>5, <1>6, PushedOne DEF Underway, Queued
  <2> QED  BY <1>5, <2>1, <2>2 DEF Queued, Exporting, Writing, Planned, Holds
<1>8. RequestShape'
  <2>1. \A r \in Numbers' : requests'[r].recording <= generation'
    <3>1. generation <= generation
      BY <1>1
    <3> QED  BY <1>2, <1>3, <3>1 DEF RequestInv, RequestShape
  <2>2. \A r : Underway(r)' => r \in Numbers'
    BY <1>1, <1>3, <1>7 DEF Underway
  <2> QED  BY <1>2, <1>4, <1>5, <1>7, <2>1, <2>2 DEF RequestInv, RequestShape
<1>9. OncePlaced'
  <2>1. Distinct(commands)' /\ Distinct(jobs)'
    BY <1>5, <1>7 DEF RequestInv, OncePlaced, Distinct
  <2> QED  BY <1>3, <1>6, <1>7, <2>1 DEF RequestInv, OncePlaced, Underway
<1>10. AnswerInv'
  BY <1>2, <1>3, <1>4, <1>6, <1>7 DEF RequestInv, AnswerInv, Underway
<1> QED  BY <1>8, <1>9, <1>10 DEF RequestInv

(* A request moves on: it is taken, planned and queued for its export, or  *)
(* taken by the export worker.                                             *)
LEMMA RequestMoves ==
  ASSUME RequestInv, NEW m,
         Underway(m),
         UNCHANGED <<requests, answers, generation, mode, shuttingDown, upc>>,
         writing' \in ExportWorker,
         commands' \in Seq(Nat), jobs' \in Seq(Nat),
         Distinct(commands'), Distinct(jobs'),
         \A r : r # m =>
           /\ Queued(r)' <=> Queued(r)
           /\ Exporting(r)' <=> Exporting(r)
           /\ Writing(r)' <=> Writing(r)
           /\ Planned(r)' <=> Planned(r),
         Underway(m)',
         Queued(m)' => ~Planned(m)' /\ ~Exporting(m)' /\ ~Writing(m)',
         Planned(m)' => ~Exporting(m)' /\ ~Writing(m)',
         Exporting(m)' => ~Writing(m)'
  PROVE  RequestInv'
<1>1. Numbers' = Numbers
  BY DEF Numbers
<1>2. \A r : Underway(r)' <=> Underway(r)
  BY DEF Underway
<1>3. RequestShape'
  BY <1>1, <1>2 DEF RequestInv, RequestShape
<1>4. OncePlaced'
  BY <1>1 DEF RequestInv, OncePlaced, Distinct
<1>5. AnswerInv'
  BY <1>1, <1>2 DEF RequestInv, AnswerInv
<1> QED  BY <1>3, <1>4, <1>5 DEF RequestInv

(* A request is answered, or, once the session shuts down, dropped.        *)
LEMMA RequestAnswered ==
  ASSUME RequestInv, NEW m, NEW event \in {"saved", "failed"},
         Underway(m), ShowEvent(m, event, Listening),
         UNCHANGED <<requests, commands, jobs, generation, shuttingDown, upc>>,
         mode = "throw" => mode' = "throw",
         writing' \in ExportWorker,
         \A r : r # m => (Writing(r)' <=> Writing(r)) /\ (Planned(r)' <=> Planned(r)),
         ~Queued(m), ~Exporting(m), ~Writing(m)', ~Planned(m)'
  PROVE  RequestInv'
<1>1. Numbers' = Numbers /\ m \in Numbers
  BY DEF Numbers, RequestInv, RequestShape
<1>2. \A r : /\ Queued(r)' <=> Queued(r)
             /\ Exporting(r)' <=> Exporting(r)
             /\ Underway(r)' <=> Underway(r) /\ r # m
  BY DEF Queued, Exporting, Holds, Underway
<1>3. answers[m] = "none"
  BY <1>1 DEF RequestInv, AnswerInv
<1>4. /\ answers' \in Seq({"none", "saved", "failed", "twice"}) /\ Len(answers') = Len(answers)
      /\ \A r \in Numbers : r # m => answers'[r] = answers[r]
      /\ answers'[m] = IF shuttingDown THEN "none" ELSE event
  <2>1. answers \in Seq({"none", "saved", "failed", "twice"}) /\ DOMAIN answers = Numbers
    BY DEF RequestInv, RequestShape, Numbers
  <2>2. CASE shuttingDown
    <3>1. answers' = answers
      BY <2>2 DEF ShowEvent, Listening
    <3> QED  BY <1>3, <2>1, <2>2, <3>1
  <2>3. CASE ~shuttingDown
    <3>1. answers' = [answers EXCEPT ![m] = event]
      BY <1>3, <2>3 DEF ShowEvent, Listening
    <3> QED  BY <1>1, <2>1, <2>3, <3>1
  <2> QED  BY <2>2, <2>3
<1>5. RequestShape'
  BY <1>1, <1>2, <1>4 DEF RequestInv, RequestShape
<1>6. OncePlaced'
  BY <1>1, <1>2 DEF RequestInv, OncePlaced, Distinct
<1>7. AnswerInv'
  BY <1>1, <1>2, <1>4 DEF RequestInv, AnswerInv
<1> QED  BY <1>5, <1>6, <1>7 DEF RequestInv

(* Steps of the pipeline that are not about requests.                      *)
LEMMA RequestsAside ==
  ASSUME RequestInv,
         UNCHANGED <<requests, commands, answers, jobs, writing, generation, shuttingDown, upc>>,
         wpc # "plan", wpc' # "plan", mode = "throw" => mode' = "throw"
  PROVE  RequestInv'
BY RequestsStay

(* A stage that ends is not a plan for a request.                          *)
LEMMA StageAside ==
  ASSUME RequestInv, NEW outcome, NEW flags, NEW next, Ends(outcome, flags, next),
         next # "plan", wpc # "plan", UNCHANGED <<sessionVars, requestVars, jobs, writing>>
  PROVE  RequestInv'
BY StageEnds, RequestsAside DEF CleansUp, sessionVars, requestVars

(* The stages keep the invariant: the set-up,                              *)
LEMMA RequestsOfSetup == StageInv /\ RequestInv /\ Setup => RequestInv'
<1> SUFFICES ASSUME StageInv, RequestInv, Setup PROVE RequestInv'
  OBVIOUS
<1> USE DEF clipVars, exportVars
<1>1. ASSUME NEW outcome, CheckBackend(outcome) PROVE RequestInv'
  BY <1>1, StageAside DEF CheckBackend
<1>2. CASE Prepare \/ PrepareFails
  BY <1>2, StageAside DEF Prepare, PrepareFails
<1>3. CASE StopCheck
  <2>1. mode = "run" /\ wpc' # "plan"
    BY <1>3, CleanupOrder DEF StopCheck, StageInv, CallerInv, SetupStages
  <2> QED  BY <1>3, <2>1, RequestsAside DEF StopCheck, sessionVars, requestVars
<1>4. CASE StartAudio \/ StartVideo \/ AnnounceRecording
  BY <1>4, RequestsAside DEF StartAudio, StartVideo, AnnounceRecording, sessionVars, requestVars
<1>5. CASE StartAudioFails \/ StartVideoFails
  BY <1>5, StageAside DEF StartAudioFails, StartVideoFails
<1> QED  BY <1>1, <1>2, <1>3, <1>4, <1>5 DEF Setup

(* the loop and the requests it takes,                                     *)
LEMMA RequestsOfRecording == StageInv /\ RequestInv /\ Recording => RequestInv'
<1> SUFFICES ASSUME StageInv, RequestInv, Recording PROVE RequestInv'
  OBVIOUS
<1> USE DEF clipVars, exportVars
<1>1. CASE Loop \/ Tick \/ PublishBookmarkQueued
  BY <1>1, RequestsAside DEF Loop, Tick, PublishBookmarkQueued, ShowEvent, EnterClips,
     sessionVars, requestVars
<1>2. CASE TickCaptureFailed \/ TickEncodeFailed \/ TickStoreFailed \/ TickAudioFailed
  <2>1. PICK outcome : TickEnds(outcome)
    BY <1>2 DEF TickCaptureFailed, TickEncodeFailed, TickStoreFailed, TickAudioFailed
  <2> QED  BY <2>1, StageAside DEF TickEnds
<1>3. ASSUME NEW outcome, ClipsReturn(outcome), wpc \in Clipping
      PROVE  wpc' # "plan" /\ (mode = "throw" <=> mode' = "throw")
  <2>1. caller \in {"loop", "last", "drain", "destroy"}
    BY <1>3 DEF StageInv, CallerInv
  <2>2. CASE caller = "loop" \/ caller = "last"
    <3>1. PICK next \in {"loop", "clips", "announceStop"} : Ends(outcome, {}, next)
      BY <1>3, <2>2 DEF ClipsReturn
    <3> QED  BY <3>1, StageEnds DEF CleansUp
  <2>3. CASE caller = "drain" \/ caller = "destroy"
    BY <1>3, <2>3 DEF ClipsReturn
  <2> QED  BY <2>1, <2>2, <2>3
<1>4. CASE NoMoreRequests
  BY <1>3, <1>4, RequestsAside DEF NoMoreRequests, Clipping, sessionVars, requestVars
<1>5. CASE TakeRequest
  <2> PICK m : m = Head(commands)
    OBVIOUS
  <2>1. /\ commands \in Seq(Nat) /\ commands # <<>> /\ jobs \in Seq(Nat)
        /\ Distinct(commands) /\ Distinct(jobs) /\ wpc = "clips" /\ wpc' = "plan" /\ hand' = m
        /\ commands' = Tail(commands)
    BY <1>5 DEF TakeRequest, PopRequest, RequestInv, RequestShape, OncePlaced
  <2>2. UNCHANGED <<requests, answers, generation, mode, shuttingDown, upc, jobs, writing>>
    BY <1>5 DEF TakeRequest, sessionVars
  <2>3. /\ commands' \in Seq(Nat) /\ Distinct(commands') /\ Queued(m)
        /\ \A r : Queued(r)' <=> Queued(r) /\ r # m
    BY <2>1, Popped DEF Queued, Holds
  <2>4. \A r : /\ Exporting(r)' <=> Exporting(r)
               /\ Writing(r)' <=> Writing(r)
               /\ Planned(r)' <=> r = m
               /\ ~Planned(r)
    BY <2>1, <2>2 DEF Exporting, Writing, Planned, Holds
  <2>5. Underway(m) /\ ~Exporting(m) /\ ~Writing(m)
    BY <2>3 DEF Underway, RequestInv, RequestShape, OncePlaced
  <2>6. writing' \in ExportWorker
    BY <2>2 DEF RequestInv, RequestShape
  <2> QED  BY <2>1, <2>2, <2>3, <2>4, <2>5, <2>6, RequestMoves DEF Underway
<1>6. CASE RequestFails \/ RequestFindsStoreFailed
  <2>1. /\ wpc = "plan" /\ wpc' # "plan" /\ ShowEvent(hand, "failed", Listening)
        /\ UNCHANGED <<requests, commands, jobs, writing, generation, shuttingDown, upc>>
        /\ mode = "throw" => mode' = "throw"
    BY <1>3, <1>6 DEF RequestFails, RequestFindsStoreFailed, Clipping, sessionVars
  <2>2. /\ Planned(hand) /\ Underway(hand)
        /\ ~Queued(hand) /\ ~Exporting(hand) /\ ~Writing(hand)
    BY <2>1 DEF Planned, Underway, RequestInv, RequestShape, OncePlaced
  <2>3. \A r : /\ Writing(r)' <=> Writing(r)
               /\ ~Planned(r)'
               /\ Planned(r) => r = hand
    BY <2>1 DEF Writing, Planned
  <2>4. writing' \in ExportWorker
    BY <2>1 DEF RequestInv, RequestShape
  <2> PICK m : m = hand
    OBVIOUS
  <2>5. /\ ShowEvent(m, "failed", Listening) /\ Underway(m) /\ ~Queued(m) /\ ~Exporting(m)
        /\ ~Writing(m)' /\ ~Planned(m)'
        /\ \A r : r # m => (Writing(r)' <=> Writing(r)) /\ (Planned(r)' <=> Planned(r))
    BY <2>1, <2>2, <2>3
  <2> QED  BY <2>1, <2>4, <2>5, RequestAnswered
<1>7. CASE RequestExported
  <2>1. /\ wpc = "plan" /\ wpc' # "plan" /\ jobs' = Append(jobs, hand)
        /\ UNCHANGED <<requests, commands, answers, writing, generation, mode, shuttingDown, upc>>
    BY <1>7 DEF RequestExported, sessionVars, requestVars
  <2>2. /\ Planned(hand) /\ Underway(hand) /\ hand \in Numbers
        /\ ~Queued(hand) /\ ~Exporting(hand) /\ ~Writing(hand)
    BY <2>1 DEF Planned, Underway, RequestInv, RequestShape, OncePlaced
  <2>3. /\ jobs \in Seq(Nat) /\ hand \in Nat /\ Distinct(jobs) /\ Distinct(commands)
        /\ commands \in Seq(Nat) /\ writing \in ExportWorker
    BY <2>2 DEF Numbers, RequestInv, RequestShape, OncePlaced
  <2>4. /\ jobs' \in Seq(Nat) /\ Distinct(jobs')
        /\ \A r : Exporting(r)' <=> Exporting(r) \/ r = hand
    BY <2>1, <2>2, <2>3, PushedOne DEF Exporting
  <2>5. \A r : /\ Queued(r)' <=> Queued(r)
               /\ Writing(r)' <=> Writing(r)
               /\ ~Planned(r)'
               /\ Planned(r) => r = hand
    BY <2>1 DEF Queued, Writing, Planned, Holds
  <2> PICK m : m = hand
    OBVIOUS
  <2>6. /\ Underway(m) /\ Underway(m)' /\ ~Queued(m)' /\ ~Planned(m)' /\ ~Writing(m)'
        /\ \A r : r # m => /\ Queued(r)' <=> Queued(r)
                           /\ Exporting(r)' <=> Exporting(r)
                           /\ Writing(r)' <=> Writing(r)
                           /\ Planned(r)' <=> Planned(r)
    BY <2>2, <2>4, <2>5 DEF Underway
  <2> QED  BY <2>1, <2>3, <2>4, <2>6, RequestMoves
<1> QED  BY <1>1, <1>2, <1>4, <1>5, <1>6, <1>7 DEF Recording

(* and what comes after the loop.                                          *)
LEMMA RequestsOfFinalizing == RequestInv /\ Finalizing => RequestInv'
<1> SUFFICES ASSUME RequestInv, Finalizing PROVE RequestInv'
  OBVIOUS
<1> USE DEF clipVars, exportVars
<1>1. CASE AnnounceStop \/ PublishOutcome \/ QueueDrainBegin \/ ClipDrainBegin \/ DestroyCapture
           \/ DestroyEncode \/ DestroyStore
  BY <1>1, RequestsAside DEF AnnounceStop, PublishOutcome, QueueDrainBegin, ClipDrainBegin,
     DestroyCapture, DestroyEncode, DestroyStore, EnterClips, sessionVars, requestVars
<1>2. ASSUME NEW outcome, NEW flags, Drained(outcome, flags) \/ EncoderDrained(outcome)
      PROVE  RequestInv'
  BY <1>2, StageAside DEF Drained, EncoderDrained
<1>3. CASE QueueDiscarded \/ QueueDrained \/ QueueDrainFails
  BY <1>2, <1>3 DEF QueueDiscarded, QueueDrained, QueueDrainFails
<1>4. CASE EncoderSkipped \/ DrainEncoder \/ DrainEncoderFails
  BY <1>2, <1>4 DEF EncoderSkipped, DrainEncoder, DrainEncoderFails
<1>5. CASE JoinExports
  <2>1. CASE caller = "drain"
    BY <1>5, <2>1, StageAside DEF JoinExports
  <2>2. CASE caller # "drain"
    BY <1>5, <2>2, RequestsAside DEF JoinExports, sessionVars, requestVars
  <2> QED  BY <2>1, <2>2
<1>6. CASE ClosePacketStore
  BY <1>6, StageAside DEF ClosePacketStore
<1>7. ASSUME NEW outcome \in Outcomes,
             StopCapture(outcome) \/ WriteManifest(outcome) \/ RecoverPacketStore(outcome)
             \/ BuildExportPlan(outcome) \/ WriteMp4(outcome)
      PROVE  RequestInv'
  BY <1>7, StageAside DEF StopCapture, WriteManifest, RecoverPacketStore, BuildExportPlan,
     WriteMp4, ExportRecording
<1> QED  BY <1>1, <1>3, <1>4, <1>5, <1>6, <1>7 DEF Finalizing

(* The export worker takes the requests on, and answers them.              *)
LEMMA RequestsOfExport == RequestInv /\ ExportThread => RequestInv'
<1> SUFFICES ASSUME RequestInv, ExportThread PROVE RequestInv'
  OBVIOUS
<1>1. /\ UNCHANGED <<requests, generation, mode, shuttingDown, upc, wpc, hand>>
      /\ commands \in Seq(Nat) /\ jobs \in Seq(Nat) /\ Distinct(commands) /\ Distinct(jobs)
      /\ writing \in ExportWorker
  BY DEF ExportThread, sessionVars, workerVars, stageVars, ExportTake, ExportWrite, ExportPublish,
     requestVars, RequestInv, RequestShape, OncePlaced
<1>2. CASE ExportTake
  <2> PICK m : m = Head(jobs)
    OBVIOUS
  <2>1. /\ jobs # <<>> /\ jobs' = Tail(jobs) /\ writing = Idle
        /\ writing' = [request |-> m, phase |-> "writing"]
        /\ UNCHANGED <<commands, answers>>
    BY <1>2 DEF ExportTake, requestVars
  <2>2. /\ jobs' \in Seq(Nat) /\ Distinct(jobs') /\ Exporting(m) /\ m \in Nat
        /\ \A r : Exporting(r)' <=> Exporting(r) /\ r # m
    BY <1>1, <2>1, Popped DEF Exporting, Holds
  <2>3. \A r : /\ Queued(r)' <=> Queued(r)
               /\ Planned(r)' <=> Planned(r)
               /\ ~Writing(r)
               /\ Writing(r)' <=> r = m
    BY <1>1, <2>1 DEF Queued, Planned, Writing, Idle, Holds
  <2>4. Underway(m) /\ ~Queued(m) /\ ~Planned(m)
    BY <2>2 DEF Underway, RequestInv, RequestShape, OncePlaced
  <2>5. writing' \in ExportWorker /\ commands' = commands
    BY <2>1, <2>2 DEF ExportWorker
  <2> QED  BY <1>1, <2>1, <2>2, <2>3, <2>4, <2>5, RequestMoves DEF Underway
<1>3. ASSUME NEW outcome \in {"saved", "failed"}, ExportWrite(outcome)
      PROVE  RequestInv'
  <2> PICK m : m = writing.request
    OBVIOUS
  <2>1. /\ writing.phase = "writing" /\ UNCHANGED <<commands, answers, jobs>>
        /\ writing' = [writing EXCEPT !.phase = outcome]
    BY <1>3 DEF ExportWrite, requestVars
  <2>2. /\ writing' \in ExportWorker /\ writing'.phase # "idle"
        /\ writing'.request = writing.request
    BY <1>1, <2>1 DEF ExportWorker
  <2>3. \A r : /\ Queued(r)' <=> Queued(r)
               /\ Exporting(r)' <=> Exporting(r)
               /\ Planned(r)' <=> Planned(r)
               /\ Writing(r)' <=> r = m
               /\ Writing(r) <=> r = m
    BY <1>1, <2>1, <2>2 DEF Queued, Exporting, Planned, Writing, Holds
  <2>4. Underway(m) /\ ~Queued(m) /\ ~Planned(m) /\ ~Exporting(m)
    BY <2>3 DEF Underway, RequestInv, RequestShape, OncePlaced
  <2> QED  BY <1>1, <2>1, <2>2, <2>3, <2>4, RequestMoves DEF Underway
<1>4. CASE ExportPublish(Listening)
  <2> PICK m, event : m = writing.request /\ event = writing.phase
    OBVIOUS
  <2>1. /\ event \in {"saved", "failed"} /\ ShowEvent(m, event, Listening)
        /\ writing' = Idle /\ UNCHANGED <<commands, jobs>>
    BY <1>4 DEF ExportPublish
  <2>2. /\ Writing(m) /\ \A r : /\ Writing(r) => r = m
                                /\ ~Writing(r)'
                                /\ Planned(r)' <=> Planned(r)
    BY <1>1, <2>1 DEF Writing, Planned, Idle
  <2>3. Underway(m) /\ ~Queued(m) /\ ~Exporting(m) /\ ~Planned(m)
    BY <2>2 DEF Underway, RequestInv, RequestShape, OncePlaced
  <2>4. writing' \in ExportWorker
    BY <2>1 DEF Idle, ExportWorker
  <2> QED  BY <1>1, <2>1, <2>2, <2>3, <2>4, RequestAnswered
<1> QED  BY <1>2, <1>3, <1>4 DEF ExportThread

(* The message thread: a new recording has no requests yet; a shutdown     *)
(* drops those the pipeline has not taken.                                 *)
LEMMA RequestsOfCommands ==
  ASSUME RequestInv, StageInv, WorkerThrows \/ CaptureStopHangs \/ UiCommand \/ UiReturns
  PROVE  RequestInv'
<1>1. CASE WorkerThrows
  BY <1>1, RequestsStay DEF WorkerThrows, sessionVars, clipVars, requestVars, exportVars
<1>2. CASE StartBegin
  <2>1. /\ UNCHANGED <<requests, commands, answers, jobs, writing, shuttingDown, wpc, hand, mode>>
        /\ generation' = generation + 1 /\ generation \in Nat
    BY <1>2 DEF StartBegin, workerVars, stageVars, exportVars, RequestInv, RequestShape
  <2>2. /\ Numbers' = Numbers
        /\ \A r : /\ Queued(r)' <=> Queued(r)
                  /\ Exporting(r)' <=> Exporting(r)
                  /\ Writing(r)' <=> Writing(r)
                  /\ Planned(r)' <=> Planned(r)
    BY <2>1 DEF Numbers, Queued, Exporting, Writing, Planned, Holds
  <2>3. \A r \in Numbers : requests[r].recording <= generation' /\ requests[r].recording # generation'
    <3> SUFFICES ASSUME NEW r \in Numbers
                 PROVE  requests[r].recording <= generation' /\ requests[r].recording # generation'
      OBVIOUS
    <3>1. requests \in Seq([kind : RequestKinds, recording : Nat])
      BY DEF RequestInv, RequestShape
    <3>2. r \in 1..Len(requests) /\ requests[r].recording <= generation
      BY DEF RequestInv, RequestShape, Numbers
    <3>3. requests[r].recording <= generation /\ requests[r].recording \in Nat
      BY <3>1, <3>2, RecordingIsNumber
    <3> QED  BY <2>1, <3>3
  <2>4. RequestShape' /\ OncePlaced'
    BY <2>1, <2>2, <2>3 DEF RequestInv, RequestShape, OncePlaced, Distinct, Underway
  <2>5. AnswerInv'
    BY <2>1, <2>2, <2>3 DEF RequestInv, AnswerInv, Underway
  <2> QED  BY <2>4, <2>5 DEF RequestInv
<1>3. CASE ShutdownBegin
  <2>1. /\ UNCHANGED <<requests, answers, jobs, writing, generation, wpc, hand, mode>>
        /\ commands' = <<>> /\ shuttingDown' = TRUE /\ upc' = "shutdown"
    BY <1>3 DEF ShutdownBegin, CloseCommands, workerVars, stageVars, exportVars
  <2>2. /\ Numbers' = Numbers /\ commands' \in Seq(Nat) /\ Distinct(commands')
        /\ \A r : /\ ~Queued(r)'
                  /\ Exporting(r)' <=> Exporting(r)
                  /\ Writing(r)' <=> Writing(r)
                  /\ Planned(r)' <=> Planned(r)
    BY <2>1 DEF Numbers, Queued, Exporting, Writing, Planned, Holds, Distinct
  <2>3. RequestShape' /\ OncePlaced'
    BY <2>1, <2>2 DEF RequestInv, RequestShape, OncePlaced, Distinct, Underway
  <2>4. AnswerInv'
    BY <2>1, <2>2 DEF RequestInv, AnswerInv, Underway
  <2> QED  BY <2>3, <2>4 DEF RequestInv
<1>4. CASE SaveLastClip \/ AddBookmarkAndSave
  <2>1. PICK kind \in {"clip", "bookmark"} : RequestExport(kind)
    BY <1>4 DEF SaveLastClip, AddBookmarkAndSave
  <2> QED  BY <2>1, RequestAccepted DEF RequestExport, sessionVars, workerVars, stageVars
<1>5. CASE StopAndSave \/ ShutdownJoin \/ StartSpawnFails
  BY <1>5, RequestsStay DEF StopAndSave, ShutdownJoin, StartSpawnFails, WorkerGone, workerVars,
     stageVars, clipVars, requestVars, exportVars
<1>6. CASE StartSpawn
  BY <1>6, RequestsStay DEF StartSpawn, WorkerGone, clipVars, requestVars, exportVars
<1>7. CASE CaptureStopHangs
  BY <1>7, RequestsStay DEF CaptureStopHangs, sessionVars, clipVars, requestVars, exportVars
<1> QED  BY <1>1, <1>2, <1>3, <1>4, <1>5, <1>6, <1>7 DEF UiCommand, UiReturns

(* So no request is lost or answered twice.                                *)
LEMMA Requesting == Spec => []RequestInv
<1>1. Init => RequestInv
  BY DEF Init, ClipInit, RequestInv, RequestShape, OncePlaced, AnswerInv, Numbers, Queued, Planned,
     Exporting, Writing, Underway, Holds, Distinct, Idle, ExportWorker
<1>2. StageInv /\ RequestInv /\ [Next]_vars => RequestInv'
  <2> SUFFICES ASSUME StageInv, RequestInv, [Next]_vars PROVE RequestInv'
    OBVIOUS
  <2>1. CASE EncodeThread \/ Environment \/ Ended \/ UNCHANGED vars
    BY <2>1, RequestsStay DEF EncodeThread, Environment, Ended, vars, sessionVars, workerVars,
       stageVars, clipVars, requestVars, exportVars
  <2> QED  BY <2>1, RequestsOfSetup, RequestsOfRecording, RequestsOfFinalizing, RequestsOfExport,
           RequestsOfCommands DEF Next, Worker
<1> QED  BY <1>1, <1>2, Staging, PTL DEF Spec

(* While requests are taken the clip exports have not been drained, and    *)
(* only then is the session recording.                                     *)
Taking == wpc \in {"announce", "loop", "tick", "announceStop"} \/ caller \in {"loop", "last"}
TakingInv ==
  /\ Taking => /\ ~CaptureDone(did) /\ "clipsDrained" \notin did /\ store # "closed"
  /\ wpc \in {"recover", "exportPlan", "mp4"} => CaptureDone(did)
  /\ state = "Recording" => Taking \/ mode = "throw" \/ shuttingDown

(* Behind the drain of the clip exports no request waits to be taken.      *)
Served == store = "closed" \/ "clipsDrained" \in did
          \/ wpc \in {"joinExports", "manifest", "closeStore", "destroyStore", "publish", "exited"}
ServedInv ==
  /\ shuttingDown => upc \in {"shutdown", "ended"}
  /\ ~storeFault /\ mode # "throw" /\ ~shuttingDown /\ Served => commands = <<>>

ServiceInv == TakingInv /\ ServedInv

(* The stages keep these as well: the set-up,                              *)
LEMMA ServiceOfSetup == StageInv /\ ServiceInv /\ Setup => ServiceInv'
<1> SUFFICES ASSUME StageInv, ServiceInv, Setup PROVE ServiceInv'
  OBVIOUS
<1> USE DEF ServiceInv, TakingInv, Taking, ServedInv, Served, StageInv, CallerInv, FlagInv, Pipeline,
     WorkerGone, Destroying, Clipping, Setting, SetupStages, CleansUp, CaptureDone, ClipsDone,
     sessionVars, latchVars, clipVars, requestVars, mediaVars
<1>1. CASE \E outcome \in {"ok", "abort"} : CheckBackend(outcome)
  BY <1>1, StageEnds DEF CheckBackend
<1>2. CASE Prepare
  BY <1>2, StageEnds DEF Prepare
<1>3. CASE PrepareFails
  BY <1>3, StageEnds DEF PrepareFails
<1>4. CASE StopCheck
  BY <1>4, CleanupOrder DEF StopCheck
<1>5. CASE StartAudio
  BY <1>5 DEF StartAudio
<1>6. CASE StartAudioFails
  BY <1>6, StageEnds DEF StartAudioFails
<1>7. CASE StartVideo
  BY <1>7 DEF StartVideo
<1>8. CASE StartVideoFails
  BY <1>8, StageEnds DEF StartVideoFails
<1>9. CASE AnnounceRecording
  BY <1>9 DEF AnnounceRecording
<1> QED  BY <1>1, <1>2, <1>3, <1>4, <1>5, <1>6, <1>7, <1>8, <1>9 DEF Setup

(* the loop, which leaves Taking by way of announceStop only,              *)
LEMMA ServiceOfRecording == StageInv /\ ServiceInv /\ Recording => ServiceInv'
<1> SUFFICES ASSUME StageInv, ServiceInv, Recording PROVE ServiceInv'
  OBVIOUS
<1> USE DEF ServiceInv, TakingInv, Taking, ServedInv, Served, StageInv, CallerInv,
     Destroying, Clipping, SetupStages, CleansUp, CaptureDone,
     sessionVars, latchVars, clipVars, requestVars, mediaVars
<1>1. CASE Loop
  BY <1>1 DEF Loop, EnterClips
<1>2. CASE TickCaptureFailed \/ TickEncodeFailed \/ TickStoreFailed \/ TickAudioFailed
  <2>1. PICK outcome \in {"keep", "abort"} : TickEnds(outcome)
    BY <1>2 DEF TickCaptureFailed, TickEncodeFailed, TickStoreFailed, TickAudioFailed
  <2> QED  BY <2>1, StageEnds DEF TickEnds
<1>3. CASE Tick
  BY <1>3 DEF Tick, EnterClips
<1>4. CASE TakeRequest
  BY <1>4 DEF TakeRequest, PopRequest
<1>5. CASE NoMoreRequests
  <2>1. CASE caller = "loop"
    BY <1>5, <2>1, StageEnds DEF NoMoreRequests, ClipsReturn
  <2>2. CASE caller = "last"
    BY <1>5, <2>2, StageEnds DEF NoMoreRequests, ClipsReturn
  <2>3. CASE caller \in {"drain", "destroy"}
    BY <1>5, <2>3 DEF NoMoreRequests, ClipsReturn
  <2> QED  BY <1>5, <2>1, <2>2, <2>3 DEF NoMoreRequests
<1>6. CASE RequestFails \/ PublishBookmarkQueued
  BY <1>6 DEF RequestFails, PublishBookmarkQueued
<1>7. CASE RequestFindsStoreFailed
  <2>1. CASE caller = "loop"
    BY <1>7, <2>1, StageEnds DEF RequestFindsStoreFailed, ClipsReturn
  <2>2. CASE caller = "last"
    BY <1>7, <2>2, StageEnds DEF RequestFindsStoreFailed, ClipsReturn
  <2>3. CASE caller \in {"drain", "destroy"}
    BY <1>7, <2>3 DEF RequestFindsStoreFailed, ClipsReturn
  <2> QED  BY <1>7, <2>1, <2>2, <2>3 DEF RequestFindsStoreFailed
<1>8. CASE RequestExported
  BY <1>8 DEF RequestExported
<1> QED  BY <1>1, <1>2, <1>3, <1>4, <1>5, <1>6, <1>7, <1>8 DEF Recording

(* what comes after the loop, where nothing is accepted,                   *)
LEMMA ServiceOfFinalizing == StageInv /\ ServiceInv /\ Finalizing => ServiceInv'
<1> SUFFICES ASSUME StageInv, ServiceInv, Finalizing PROVE ServiceInv'
  OBVIOUS
<1> USE DEF ServiceInv, TakingInv, Taking, ServedInv, Served, StageInv, CallerInv, OrderInv, Draining,
     Pipeline, WorkerGone, Destroying, Clipping, SetupStages, CleansUp, CaptureDone, ClipsDone,
     sessionVars, latchVars, clipVars, requestVars, mediaVars
<1>1. CASE AnnounceStop
  BY <1>1 DEF AnnounceStop, PublishState
<1>2. CASE PublishOutcome
  BY <1>2 DEF PublishOutcome, PublishState, Outcome
<1>3. CASE QueueDrainBegin \/ ClipDrainBegin \/ DestroyCapture \/ DestroyEncode
  BY <1>3 DEF QueueDrainBegin, ClipDrainBegin, DestroyCapture, DestroyEncode, EnterClips
<1>4. CASE QueueDiscarded \/ QueueDrained \/ QueueDrainFails
  <2>1. ASSUME NEW outcome, NEW flags, flags \subseteq {"audioDrained"}, Drained(outcome, flags)
        PROVE  ServiceInv'
    BY <2>1, StageEnds DEF Drained
  <2>2. CASE QueueDiscarded
    BY <2>1, <2>2 DEF QueueDiscarded
  <2>3. CASE QueueDrained
    BY <2>1, <2>3 DEF QueueDrained
  <2>4. CASE QueueDrainFails
    BY <2>1, <2>4 DEF QueueDrainFails
  <2> QED  BY <1>4, <2>2, <2>3, <2>4
<1>5. CASE EncoderSkipped \/ DrainEncoder \/ DrainEncoderFails
  <2>1. PICK outcome : EncoderDrained(outcome)
    BY <1>5 DEF EncoderSkipped, DrainEncoder, DrainEncoderFails
  <2> QED  BY <2>1, StageEnds DEF EncoderDrained
<1>6. CASE JoinExports
  BY <1>6, StageEnds DEF JoinExports
<1>7. CASE ClosePacketStore
  BY <1>7, StageEnds DEF ClosePacketStore
<1>8. ASSUME NEW outcome \in Outcomes, StopCapture(outcome) \/ WriteManifest(outcome)
      PROVE  ServiceInv'
  BY <1>8, StageEnds DEF StopCapture, WriteManifest
<1>9. ASSUME NEW outcome \in Outcomes,
             RecoverPacketStore(outcome) \/ BuildExportPlan(outcome) \/ WriteMp4(outcome)
      PROVE  ServiceInv'
  BY <1>9, StageEnds DEF RecoverPacketStore, BuildExportPlan, WriteMp4, ExportRecording
<1>10. CASE DestroyStore
  BY <1>10 DEF DestroyStore
<1> QED  BY <1>1, <1>2, <1>3, <1>4, <1>5, <1>6, <1>7, <1>8, <1>9, <1>10 DEF Finalizing

(* the message thread, which accepts requests while they are taken,        *)
LEMMA ServiceOfCommands ==
  ASSUME SessionInv, StageInv, ServiceInv,
         WorkerThrows \/ CaptureStopHangs \/ UiCommand \/ UiReturns
  PROVE  ServiceInv'
<1> USE DEF ServiceInv, TakingInv, Taking, ServedInv, Served, workerVars, stageVars, clipVars,
     requestVars, mediaVars
<1>1. CASE WorkerThrows
  BY <1>1 DEF WorkerThrows, sessionVars
<1>2. CASE StartBegin \/ StopAndSave \/ ShutdownBegin
  BY <1>2 DEF StartBegin, StopAndSave, ShutdownBegin, CloseCommands
<1>3. CASE SaveLastClip \/ AddBookmarkAndSave
  <2>1. PICK kind \in {"clip", "bookmark"} : RequestExport(kind)
    BY <1>3 DEF SaveLastClip, AddBookmarkAndSave
  <2>2. /\ UNCHANGED <<state, shuttingDown, upc, wpc, mode, did, caller, store, storeFault>>
        /\ state = "Recording" /\ ~shuttingDown
    BY <2>1 DEF RequestExport, Listening, sessionVars
  <2>3. ~Served \/ mode = "throw"
    BY <2>2 DEF StageInv, CallerInv, Clipping
  <2> QED  BY <2>2, <2>3
<1>4. CASE StartSpawn
  BY <1>4 DEF StartSpawn, MediaReset, SessionInv, StageInv, CallerInv, Clipping, CaptureDone, WorkerGone
<1>5. CASE StartSpawnFails
  BY <1>5 DEF StartSpawnFails, StageInv, CallerInv, Clipping, WorkerGone
<1>6. CASE ShutdownJoin
  BY <1>6 DEF ShutdownJoin
<1>7. CASE CaptureStopHangs
  BY <1>7 DEF CaptureStopHangs, sessionVars
<1> QED  BY <1>1, <1>2, <1>3, <1>4, <1>5, <1>6, <1>7 DEF UiCommand, UiReturns

(* and the other threads.                                                  *)
LEMMA ServiceOfOthers ==
  ASSUME ServiceInv, EncodeThread \/ ExportThread \/ Environment \/ Ended \/ UNCHANGED vars
  PROVE  ServiceInv'
<1>1. UNCHANGED <<state, shuttingDown, upc, wpc, mode, did, caller, store, commands>>
  BY DEF EncodeThread, ExportThread, Environment, Ended, vars, sessionVars, workerVars, stageVars,
     clipVars, requestVars, mediaVars, ExportTake, ExportWrite, ExportPublish, EncodeFrame,
     EncoderOutput, EncodeFails, EncodeStops, CaptureVideo, Pushed, CaptureAudio, CaptureFails,
     CaptureSinkFails, EncodeNeverRuns, StoreFails
<1>2. ~storeFault' => ~storeFault
  BY DEF EncodeThread, ExportThread, Environment, Ended, vars, mediaVars, EncodeFrame,
     EncoderOutput, EncodeFails, EncodeStops, CaptureVideo, Pushed, CaptureAudio, CaptureFails,
     CaptureSinkFails, EncodeNeverRuns, StoreFails
<1> QED  BY <1>1, <1>2 DEF ServiceInv, TakingInv, Taking, ServedInv, Served

(* So what is accepted is served.                                          *)
LEMMA Serving == Spec => []ServiceInv
<1>1. Init => ServiceInv
  BY DEF Init, ClipInit, MediaInit, ServiceInv, TakingInv, Taking, ServedInv, Served
<1>2. SessionInv /\ StageInv /\ ServiceInv /\ [Next]_vars => ServiceInv'
  BY ServiceOfSetup, ServiceOfRecording, ServiceOfFinalizing, ServiceOfCommands, ServiceOfOthers
     DEF Next, Worker
<1> QED  BY <1>1, <1>2, Sessions, Staging, PTL DEF Spec

\* Whatever a clip or bookmark request races with, it is served while the
\* store is open and answered exactly once by the end of its recording, unless
\* the store failed, the pipeline threw or the session shuts down: for any
\* number of requests and any capacities (ProcessClipRequests,
\* DrainClipExports, ClipExportQueue::Shutdown).
THEOREM RequestsAnswered == Spec => []EveryRequestAnswered
<1>1. SessionInv /\ StageInv /\ RequestInv /\ ServiceInv => EveryRequestAnswered
  <2> SUFFICES ASSUME SessionInv, StageInv, RequestInv, ServiceInv,
                      upc = "idle", ~storeFault, mode # "throw"
               PROVE  /\ store = "closed" => commands = <<>>
                      /\ wpc = "exited" => \A r \in DOMAIN requests :
                           requests[r].recording = generation => answers[r] \in {"saved", "failed"}
    BY DEF EveryRequestAnswered
  <2>1. ~shuttingDown /\ (Served => commands = <<>>)
    BY DEF ServiceInv, ServedInv
  <2>2. ASSUME wpc = "exited", NEW r \in DOMAIN requests, requests[r].recording = generation
        PROVE  answers[r] \in {"saved", "failed"}
    <3>1. r \in Numbers /\ answers[r] \in {"none", "saved", "failed", "twice"}
      BY DEF RequestInv, RequestShape, Numbers
    <3>2. commands = <<>> /\ jobs = <<>> /\ writing = Idle
      BY <2>1, <2>2 DEF Served, StageInv, DestroyInv, ExportInv, WorkerGone
    <3>3. ~Underway(r)
      BY <2>2, <3>2 DEF Underway, Queued, Planned, Exporting, Writing, Holds, Idle
    <3> QED  BY <2>1, <2>2, <3>1, <3>3 DEF RequestInv, AnswerInv
  <2> QED  BY <2>1, <2>2 DEF Served
<1> QED  BY <1>1, Sessions, Staging, Requesting, Serving, PTL
=============================================================================
