----------------------------- MODULE VideoCapture -----------------------------
(***************************************************************************)
(* WgcMonitorCaptureSession (src/capture/WgcMonitorCaptureSession.cpp):    *)
(* FrameArrived and CaptureItemClosed, which Windows calls on threads of   *)
(* its own, against Start, Snapshot and Stop of the recorder's worker.     *)
(* The frame pool of Windows is external: it has Surfaces buffers, calls   *)
(* FrameArrived for what arrives, one call at a time, and drops frames for *)
(* which it has no buffer.  Stamps grow.  Which frames the cadence lets    *)
(* pass is FrameCadence's matter.                                          *)
(***************************************************************************)
EXTENDS BgraTexturePool, Sequences

CONSTANTS
  Surfaces,   \* buffers of the frame pool
  MaxFrames   \* bound: frames Windows composes

ASSUME SurfacesAssumption == Surfaces \in Nat \ {0} /\ MaxFrames \in Nat

VARIABLES
  surfaces,   \* stamps of the frames in the frame pool
  composed,   \* stamp of the last frame
  arrived,    \* a call of FrameArrived is due
  handlers,   \* registered callbacks, "frame" and "closed"
  running,    \* running
  fault,      \* fault_latch, and callback_failed with it
  runtime,    \* device, context, sink, pool...: "none", "ready" or "cleared"
  active,     \* active_callback_count
  frameCall,  \* where the call of FrameArrived is, with stamp and lease
  closedCall, \* where the call of CaptureItemClosed is
  accepted, dropped   \* accepted_frame_count, dropped_frame_count

wgcVars == <<surfaces, composed, arrived, handlers>>
callVars == <<active, frameCall, closedCall>>
countVars == <<accepted, dropped>>
sessionVars == <<running, fault, runtime>>
captureVars == <<wgcVars, callVars, countVars, sessionVars>>

NoCall == [pc |-> "idle", stamp |-> 0, texture |-> {}]

CaptureInit ==
  /\ surfaces = <<>> /\ composed = 0 /\ arrived = FALSE /\ handlers = {}
  /\ running = FALSE /\ fault = "none" /\ runtime = "none"
  /\ active = 0 /\ frameCall = NoCall /\ closedCall = "idle"
  /\ accepted = 0 /\ dropped = 0

CaptureTypeOK ==
  /\ Len(surfaces) <= Surfaces /\ composed \in 0..MaxFrames /\ arrived \in BOOLEAN
  /\ handlers \subseteq {"frame", "closed"}
  /\ running \in BOOLEAN /\ runtime \in {"none", "ready", "cleared"}
  /\ fault \in {"none", "device", "sink", "other"}
  /\ active \in 0..2
  /\ frameCall.pc \in {"idle", "guarded", "looking", "taken", "creating", "leased",
                       "copied", "counting", "leaving", "notifying"}
  /\ closedCall \in {"idle", "guarded", "closed", "leaving", "notifying"}
  /\ {accepted, dropped} \subseteq Nat

Compose ==
  /\ composed < MaxFrames /\ "frame" \in handlers
  /\ composed' = composed + 1
  /\ IF Len(surfaces) < Surfaces
     THEN surfaces' = Append(surfaces, composed') /\ arrived' = TRUE
     ELSE UNCHANGED <<surfaces, arrived>>
  /\ UNCHANGED <<handlers, callVars, countVars, sessionVars, poolVars>>

-----------------------------------------------------------------------------
(* The guard of both callbacks, and its destructor: the count falls first, *)
(* then whoever waits is woken.                                            *)

Goto(pc) == frameCall' = [frameCall EXCEPT !.pc = pc]
LookAgain == frameCall' = [NoCall EXCEPT !.pc = "looking"]

GuardEnters == active' = active + 1
GuardLeaves == active' = active - 1

\* SetCallbackFault: the first fault stays.  A lost device and a sink that
\* fails are told from the others: a monitor gone or resized, a bad frame.
Latched(kind) == IF fault = "none" THEN kind ELSE fault

-----------------------------------------------------------------------------
(* FrameArrived.                                                           *)

FrameArrives ==
  /\ frameCall.pc = "idle" /\ "frame" \in handlers /\ arrived
  /\ arrived' = FALSE /\ GuardEnters /\ Goto("guarded")
  /\ UNCHANGED <<surfaces, composed, handlers, closedCall, countVars, sessionVars, poolVars>>

SeesRunning ==
  /\ frameCall.pc = "guarded"
  /\ Goto(IF running THEN "looking" ELSE "leaving")
  /\ UNCHANGED <<wgcVars, active, closedCall, countVars, sessionVars, poolVars>>

\* The newest frame is taken and the others are dropped.  It is let go if
\* the session ends or has failed, or if the cadence has no use for it.
TakeFrame ==
  /\ frameCall.pc = "looking" /\ surfaces # <<>>
  /\ surfaces' = <<>>
  /\ \/ UNCHANGED frameCall
     \/ /\ running /\ fault = "none"
        /\ frameCall' = [pc |-> "taken", stamp |-> surfaces[Len(surfaces)], texture |-> {}]
  /\ UNCHANGED <<composed, arrived, handlers, active, closedCall, countVars, sessionVars, poolVars>>

NoMoreFrames ==
  /\ frameCall.pc = "looking" /\ surfaces = <<>> /\ Goto("leaving")
  /\ UNCHANGED <<wgcVars, active, closedCall, countVars, sessionVars, poolVars>>

\* A bad stamp, size or format.
FrameIsUnusable ==
  /\ frameCall.pc = "taken" /\ LookAgain
  /\ fault' = Latched("other")
  /\ UNCHANGED <<wgcVars, active, closedCall, countVars, running, runtime, poolVars>>

\* A pool without a texture costs the frame, and is no fault.
AcquireTexture ==
  /\ frameCall.pc = "taken"
  /\ IF Exhausted THEN LookAgain /\ dropped' = dropped + 1 /\ UNCHANGED poolVars
     ELSE /\ \/ \E t \in Textures : /\ Reuse(t)
                                   /\ frameCall' = [frameCall EXCEPT !.pc = "leased", !.texture = {t}]
             \/ Reserve /\ Goto("creating")
          /\ UNCHANGED dropped
  /\ UNCHANGED <<wgcVars, active, closedCall, accepted, sessionVars>>

TextureIsCreated ==
  /\ frameCall.pc = "creating"
  /\ \/ \E t \in Textures : /\ CreateTexture(t)
                            /\ frameCall' = [frameCall EXCEPT !.pc = "leased", !.texture = {t}]
        /\ UNCHANGED fault
     \/ /\ CreateFails /\ LookAgain
        /\ \E kind \in {"device", "other"} : fault' = Latched(kind)
  /\ UNCHANGED <<wgcVars, active, closedCall, countVars, running, runtime>>

CopyTexture ==
  /\ frameCall.pc = "leased"
  /\ \E t \in frameCall.texture : CopyFrame(t, frameCall.stamp)
  /\ Goto("copied")
  /\ UNCHANGED <<wgcVars, active, closedCall, countVars, sessionVars>>

\* A call into Windows throws, or the device is lost while copying.  The
\* loop goes on; of a frame pool that is closed it gets no frame.
CallbackFails ==
  /\ frameCall.pc \in {"looking", "taken", "leased"}
  /\ \E kind \in {"device", "other"} : fault' = Latched(kind)
  /\ Return(frameCall.texture) /\ LookAgain
  /\ UNCHANGED <<wgcVars, active, closedCall, countVars, running, runtime>>

\* The sink took the frame, and so many before it had to go.
CountFrame(backlog) ==
  /\ accepted' = accepted + 1 /\ dropped' = dropped + backlog

LeaveFrame ==
  /\ frameCall.pc = "leaving" /\ GuardLeaves
  /\ frameCall' = [NoCall EXCEPT !.pc = IF active = 1 THEN "notifying" ELSE "idle"]
  /\ UNCHANGED <<wgcVars, closedCall, countVars, sessionVars, poolVars>>

-----------------------------------------------------------------------------
(* CaptureItemClosed.                                                      *)

ItemCloses ==
  /\ closedCall = "idle" /\ "closed" \in handlers
  /\ GuardEnters /\ closedCall' = "guarded" /\ handlers' = handlers \ {"closed"}
  /\ UNCHANGED <<surfaces, composed, arrived, frameCall, countVars, sessionVars, poolVars>>

ClosedSeesRunning ==
  /\ closedCall = "guarded"
  /\ closedCall' = IF running THEN "closed" ELSE "leaving"
  /\ UNCHANGED <<wgcVars, active, frameCall, countVars, sessionVars, poolVars>>

ReportClosed ==
  /\ closedCall = "closed" /\ closedCall' = "leaving" /\ fault' = Latched("other")
  /\ UNCHANGED <<wgcVars, active, frameCall, countVars, running, runtime, poolVars>>

LeaveClosed ==
  /\ closedCall = "leaving" /\ GuardLeaves
  /\ closedCall' = IF active = 1 THEN "notifying" ELSE "idle"
  /\ UNCHANGED <<wgcVars, frameCall, countVars, sessionVars, poolVars>>

-----------------------------------------------------------------------------
(* What the recorder's worker calls.                                       *)

\* Start.  On a failure its own Stop clears what there is.
StartCapture ==
  /\ runtime' = "ready" /\ running' = TRUE /\ handlers' = {"frame", "closed"}
  /\ UNCHANGED <<surfaces, composed, arrived, fault, callVars, countVars, poolVars>>

\* Snapshot polls the monitor and the device.
PollFinds(kind) ==
  /\ running /\ fault = "none" /\ fault' = kind
  /\ UNCHANGED <<wgcVars, callVars, countVars, running, runtime, poolVars>>

\* Mutant: the mark is left to the end of Stop.
MarkLater == UNCHANGED running

\* Stop, first the mark, then the removal of the callbacks and the close of
\* the frame pool, each of which Windows may refuse.
MarkStopped == running' = FALSE

RemoveCallbacks ==
  /\ handlers' \in SUBSET handlers
  /\ IF "frame" \in handlers' THEN UNCHANGED <<surfaces, arrived>>
     ELSE surfaces' = <<>> /\ arrived' = FALSE
  /\ UNCHANGED composed

ClearRuntime == runtime' = "cleared"

Callbacks ==
  \/ FrameArrives \/ SeesRunning \/ TakeFrame \/ NoMoreFrames \/ FrameIsUnusable
  \/ AcquireTexture \/ TextureIsCreated \/ CopyTexture \/ CallbackFails \/ LeaveFrame
  \/ ItemCloses \/ ClosedSeesRunning \/ ReportClosed \/ LeaveClosed
=============================================================================
