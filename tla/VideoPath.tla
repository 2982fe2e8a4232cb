------------------------------- MODULE VideoPath -------------------------------
(***************************************************************************)
(* The video of one recording, from the screen to the packet store: the    *)
(* capture session and the encode thread, driven by the worker of the      *)
(* recorder (src/record/VideoRecorderPipeline.cpp).  The worker starts the *)
(* thread and then the capture, looks at the faults of both on each tick,  *)
(* and at the end stops the capture, has the thread finish its queue,      *)
(* joins it and drains the encoder.  The store and audio are left out.     *)
(***************************************************************************)
EXTENDS VideoCapture, VideoEncode

\* The pool has two textures more than the queue holds frames, one for the
\* callback and one for the encoder (VideoRecorderPipeline.cpp:367; short of
\* the two longest queues that 32 bits can ask for).
ASSUME PoolAssumption == IsFiniteSet(Textures) /\ PoolCapacity >= QueueCapacity + 2

VARIABLES
  worker,        \* where the recorder's worker is
  woken,         \* Stop has been notified while it was blocked
  runtimeFault,  \* video_runtime_fault_: packets are kept, the encoder is not drained
  failed         \* some call of the recording has failed

recorderVars == <<worker, woken, runtimeFault, failed>>
vars == <<poolVars, captureVars, encodeVars, recorderVars>>

Init ==
  /\ PoolInit /\ CaptureInit /\ EncodeInit
  /\ worker = "idle" /\ woken = FALSE /\ runtimeFault = FALSE /\ failed = FALSE

To(w) == worker' = w

-----------------------------------------------------------------------------
(* Start.                                                                  *)

StartVideo ==
  /\ worker = "idle" /\ StartThread /\ To("starting")
  /\ UNCHANGED <<captureVars, woken, runtimeFault, failed>>

CaptureStarts ==
  /\ worker = "starting" /\ StartCapture /\ To("recording")
  /\ UNCHANGED <<encodeVars, woken, runtimeFault, failed>>

\* Start undoes what it did before it returns, then the thread is stopped.
CaptureCannotStart ==
  /\ worker = "starting" /\ ClearRuntime /\ AskToStop /\ To("abandoning") /\ failed' = TRUE
  /\ UNCHANGED <<wgcVars, callVars, countVars, running, fault, woken, runtimeFault>>

-----------------------------------------------------------------------------
(* The loop.                                                               *)

Poll ==
  /\ worker = "recording" /\ \E kind \in {"device", "other"} : PollFinds(kind)
  /\ UNCHANGED <<encodeVars, recorderVars>>

\* The user stops the recording, or a tick finds a fault.
LeaveLoop ==
  /\ worker = "recording" /\ To("stopping")
  /\ \/ UNCHANGED <<runtimeFault, failed>>
     \/ fault # "none" /\ failed' = TRUE /\ runtimeFault' = (fault = "device")
     \/ /\ fault = "none" /\ encodeFault # "none"
        /\ failed' = TRUE /\ runtimeFault' = (encodeFault = "runtime")
  /\ MarkStopped
  /\ UNCHANGED <<encodeVars, poolVars, wgcVars, callVars, countVars, fault, runtime, woken>>

-----------------------------------------------------------------------------
(* Stop.  It waits on a condition variable for the last callback, under a  *)
(* mutex the callbacks do not take: between its look at the count and its  *)
(* sleep the count may fall, and the notification goes to nobody.          *)

RemoveHandlers ==
  /\ worker = "stopping" /\ RemoveCallbacks /\ To("looking")
  /\ UNCHANGED <<encodeVars, poolVars, callVars, countVars, sessionVars, woken, runtimeFault, failed>>

LookForCallbacks ==
  /\ worker = "looking" /\ To(IF active = 0 THEN "clearing" ELSE "blocking")
  /\ UNCHANGED <<encodeVars, poolVars, captureVars, woken, runtimeFault, failed>>

Block ==
  /\ worker = "blocking" /\ To("blocked")
  /\ UNCHANGED <<encodeVars, poolVars, captureVars, woken, runtimeFault, failed>>

WakeUp ==
  /\ worker = "blocked" /\ woken /\ To("looking") /\ woken' = FALSE
  /\ UNCHANGED <<encodeVars, poolVars, captureVars, runtimeFault, failed>>

\* Condition variables may wake up unasked; nothing makes them do so.
WakeUpUnasked ==
  /\ worker = "blocked" /\ ~woken /\ To("looking")
  /\ UNCHANGED <<encodeVars, poolVars, captureVars, woken, runtimeFault, failed>>

ClearCapture ==
  /\ worker = "clearing" /\ ClearRuntime /\ AskToStop /\ To("joining")
  /\ UNCHANGED <<wgcVars, callVars, countVars, running, fault, woken, runtimeFault, failed>>

Notify ==
  /\ \/ frameCall.pc = "notifying" /\ frameCall' = NoCall /\ UNCHANGED closedCall
     \/ closedCall = "notifying" /\ closedCall' = "idle" /\ UNCHANGED frameCall
  /\ woken' = (worker = "blocked")
  /\ UNCHANGED <<encodeVars, poolVars, wgcVars, active, countVars, sessionVars,
                 worker, runtimeFault, failed>>

-----------------------------------------------------------------------------
(* DrainQueuedFrames and DrainEncoder.                                     *)

Joined == step = "done"

\* After a runtime failure what is still queued is discarded and the
\* encoder left alone; otherwise, an abort included, it is drained.
DrainQueuedFrames ==
  /\ worker = "joining" /\ Joined
  /\ runtimeFault' = (runtimeFault \/ encodeFault = "runtime")
  /\ failed' = (failed \/ thread = "failed")
  /\ IF runtimeFault' THEN To("ended") /\ ClearQueuedFrames
     ELSE To("finalizing") /\ UNCHANGED <<queue, poolVars>>
  /\ UNCHANGED <<accepting, threadVars, encoderVars, stored, captureVars, woken>>

DrainEncoder ==
  /\ worker = "finalizing" /\ FinalizeBegins /\ To("draining")
  /\ UNCHANGED <<captureVars, woken, runtimeFault, failed>>

\* The encoder refuses to be drained before it has had a frame.
NothingToDrain ==
  /\ worker = "finalizing" /\ submitted = 0 /\ To("ended") /\ failed' = TRUE
  /\ UNCHANGED <<encodeVars, poolVars, captureVars, woken, runtimeFault>>

EncoderDrained ==
  /\ worker = "draining" /\ drain.by = "none" /\ To("ended")
  /\ failed' = (failed \/ drain.result # "none")
  /\ UNCHANGED <<encodeVars, poolVars, captureVars, woken, runtimeFault>>

NeverStarted ==
  /\ worker = "abandoning" /\ Joined /\ To("ended")
  /\ UNCHANGED <<encodeVars, poolVars, captureVars, woken, runtimeFault, failed>>

\* The recording's objects go, what is left of the queue with them.
Reset ==
  /\ worker = "ended" /\ To("gone") /\ ClearQueuedFrames
  /\ UNCHANGED <<accepting, threadVars, encoderVars, stored, captureVars,
                 woken, runtimeFault, failed>>

Gone == worker = "gone" /\ UNCHANGED vars

-----------------------------------------------------------------------------
(* Composition.                                                            *)

\* OnCapturedVideoFrame: a thread that accepts no more is a fault.
Deliver ==
  /\ frameCall.pc = "copied"
  /\ IF accepting
     THEN /\ Push([stamp |-> frameCall.stamp, texture |-> frameCall.texture])
          /\ frameCall' = [frameCall EXCEPT !.pc = "counting", !.texture = {}, !.stamp = Dropped]
          /\ UNCHANGED fault
     ELSE /\ Return(frameCall.texture) /\ LookAgain /\ fault' = Latched("sink")
          /\ UNCHANGED queue
  /\ UNCHANGED <<accepting, threadVars, encoderVars, stored,
                 wgcVars, active, closedCall, countVars, running, runtime, recorderVars>>

\* The counters follow the delivery.
Count ==
  /\ frameCall.pc = "counting" /\ CountFrame(frameCall.stamp) /\ LookAgain
  /\ UNCHANGED <<encodeVars, poolVars, wgcVars, active, closedCall, sessionVars, recorderVars>>

FrameThread == Callbacks /\ UNCHANGED <<encodeVars, recorderVars>>
Windows == Compose /\ UNCHANGED <<encodeVars, recorderVars>>
EncodeThread == (ThreadNext \/ DrainNext) /\ UNCHANGED <<captureVars, recorderVars>>
Transform == Encode /\ UNCHANGED <<captureVars, recorderVars>>
Recorder ==
  \/ StartVideo \/ CaptureStarts \/ CaptureCannotStart \/ Poll \/ LeaveLoop
  \/ RemoveHandlers \/ LookForCallbacks \/ Block \/ WakeUp \/ ClearCapture
  \/ DrainQueuedFrames \/ DrainEncoder \/ NothingToDrain \/ EncoderDrained
  \/ NeverStarted \/ Reset

Next ==
  \/ FrameThread \/ Windows \/ EncodeThread \/ Transform \/ Deliver \/ Count \/ Notify
  \/ Recorder \/ WakeUpUnasked \/ Gone

Spec == Init /\ [][Next]_vars

\* Windows schedules every thread; nothing makes it wake a sleeper unasked.
Fairness ==
  /\ WF_vars(FrameThread \/ Deliver \/ Count \/ Notify)
  /\ WF_vars(EncodeThread) /\ WF_vars(Transform) /\ WF_vars(Recorder)
FairSpec == Spec /\ Fairness

TypeOK ==
  /\ PoolTypeOK /\ CaptureTypeOK /\ EncodeTypeOK
  /\ worker \in {"idle", "starting", "recording", "stopping", "looking", "blocking",
                 "blocked", "clearing", "joining", "abandoning", "finalizing",
                 "draining", "ended", "gone"}
  /\ {woken, runtimeFault, failed} \subseteq BOOLEAN

-----------------------------------------------------------------------------
(* Properties.                                                             *)

\* A packet shows the picture of its stamp: neither a texture of the pool,
\* nor the one NV12 texture every frame is converted into, is written
\* again while an encoder or a queue still needs what is in it
\* (BgraTexturePool.cpp:18, VideoRecordingSession.cpp:297).
PacketsShowTheirFrames ==
  \A i \in DOMAIN stored : stored[i].picture = stored[i].stamp

\* When a recording ends and nothing has failed, the frames the capture
\* counts as taken and not dropped are in the store, each once, in order;
\* and no frame was ever lost for want of a texture, of which the pool has
\* two more than the queue holds (VideoRecorderPipeline.cpp:367).
CapturedIsStored ==
  /\ worker = "ended" /\ ~failed =>
       /\ Len(stored) + dropped = accepted
       /\ \A i \in 1..(Len(stored) - 1) : stored[i].stamp < stored[i + 1].stamp
  /\ frameCall.pc = "taken" => ~Exhausted

\* Once Stop clears device, sink and pool no callback is past its look at
\* running_, in whatever order calls begin, Stop marks, waits and is woken,
\* and although callbacks may not be removable (WgcMonitorCaptureSession.cpp:778).
CallbacksSeeRuntime ==
  runtime = "cleared" =>
    /\ frameCall.pc \in {"idle", "guarded", "leaving", "notifying"}
    /\ closedCall \in {"idle", "guarded", "leaving", "notifying"}

\* Stop of the capture comes back: src/capture/README.md:16 has a stoppable
\* owner that waits for active callbacks during stop.
StopReturns == worker = "stopping" ~> runtime = "cleared"
=============================================================================
