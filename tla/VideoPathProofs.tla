---------------------------- MODULE VideoPathProofs ----------------------------
(***************************************************************************)
(* Proofs about VideoPath, for any pool of textures, length of the queue,  *)
(* number of surfaces and of frames.                                       *)
(***************************************************************************)
EXTENDS VideoRefinement, TLAPS, FiniteSetTheorems

-----------------------------------------------------------------------------
(* The shape of the state, as far as the arguments below need it.          *)

FramePlaces == {"idle", "guarded", "looking", "taken", "creating", "leased",
                "copied", "counting", "leaving", "notifying"}
ClosedPlaces == {"idle", "guarded", "closed", "leaving", "notifying"}
Steps == {"none", "starting", "wait", "frame", "drain", "done"}

Frames == [stamp : Nat, texture : (SUBSET Textures) \ {{}}]
Packets == [stamp : Nat, picture : Nat]

CallShape ==
  /\ frameCall \in [pc : FramePlaces, stamp : Nat, texture : SUBSET Textures]
  /\ frameCall.pc \in {"leased", "copied"} => frameCall.texture # {}
  /\ closedCall \in ClosedPlaces
  /\ surfaces \in Seq(Nat) /\ composed \in Nat

PoolShape ==
  /\ available \subseteq Textures /\ created \subseteq Textures
  /\ picture \in [Textures -> Nat]

ThreadShape ==
  /\ queue \in Seq(Frames) /\ step \in Steps
  /\ frame \in Frames \cup {NoFrame} /\ (step = "frame" => frame \in Frames)

DrainShape ==
  drain \in [by : {"none", "thread", "recorder"}, got : Seq(Packets),
            target : Int, result : {"none", "runtime", "other"}]

EncoderShape ==
  /\ nv12 \in Nat /\ submitted \in Nat /\ drained \in Nat
  /\ input \in Seq(Nat) /\ output \in Seq(Packets) /\ stored \in Seq(Packets)
  /\ DrainShape

ShapeInv == CallShape /\ PoolShape /\ ThreadShape /\ EncoderShape

(* The initial state has that shape.                                       *)
LEMMA InitShape == Init => ShapeInv
<1> SUFFICES ASSUME Init PROVE ShapeInv
  OBVIOUS
<1> USE DEF Init
<1>1. CallShape /\ PoolShape
  BY DEF PoolInit, CaptureInit, NoCall, CallShape, PoolShape, FramePlaces, ClosedPlaces
<1>2. ThreadShape
  BY DEF EncodeInit, ThreadShape, Steps
<1>3. DrainShape
  BY DEF EncodeInit, NoDrain, DrainShape
<1>4. EncoderShape
  BY <1>3 DEF EncodeInit, EncoderShape
<1> QED  BY <1>1, <1>2, <1>4 DEF ShapeInv

(* What the queue leases are textures.                                     *)
LEMMA LeasesAreTextures ==
  ASSUME NEW q \in Seq(Frames)
  PROVE  Leases(q) \subseteq Textures
<1> SUFFICES ASSUME NEW i \in DOMAIN q, NEW t \in q[i].texture PROVE t \in Textures
  BY DEF Leases
<1>1. q[i] \in Frames
  OBVIOUS
<1> QED  BY <1>1 DEF Frames

(* What an operation on one part of the state does to the others.          *)
LEMMA ThreadStays == ThreadShape /\ UNCHANGED <<queue, frame, step>> => ThreadShape'
BY DEF ThreadShape

(* The same for the encoder,                                               *)
LEMMA EncoderStays == EncoderShape /\ UNCHANGED <<encoderVars, stored>> => EncoderShape'
BY DEF EncoderShape, DrainShape, encoderVars

(* for the pool,                                                           *)
LEMMA PoolStays == PoolShape /\ UNCHANGED poolVars => PoolShape'
BY DEF PoolShape, poolVars

(* and for the callbacks.                                                  *)
LEMMA CallStays == CallShape /\ UNCHANGED <<frameCall, closedCall, surfaces, composed>> => CallShape'
BY DEF CallShape


(* A drain that ends leaves shapes as they are.                            *)
LEMMA DrainEndsShape ==
  ASSUME ShapeInv, NEW kind \in {"none", "runtime", "other"}, DrainEnds(kind)
  PROVE  ThreadShape' /\ available' \subseteq Textures /\ DrainShape' /\ UNCHANGED <<created, picture>>
<1> USE DEF ShapeInv, PoolShape
<1>1. DrainShape'
  <2>1. drain' = [by |-> "none", got |-> <<>>, target |-> 0,
                  result |-> IF drain.by = "recorder" THEN kind ELSE "none"]
    BY DEF DrainEnds, NoDrain
  <2> QED  BY <2>1 DEF DrainShape
<1>2. CASE drain.by = "recorder"
  BY <1>1, <1>2 DEF DrainEnds, queueVars, threadVars, poolVars, ThreadShape
<1>3. CASE drain.by # "recorder"
  <2>1. ThreadShape'
    BY <1>3 DEF DrainEnds, Fail, ThreadShape, Steps, queueVars
  <2>2. frame.texture \subseteq Textures
    BY DEF ThreadShape, Frames, NoFrame
  <2> QED  BY <1>1, <1>3, <2>1, <2>2 DEF DrainEnds, Return
<1> QED  BY <1>2, <1>3

(* Nor does storing packets change shapes.                                 *)
LEMMA AppendShape ==
  ASSUME ShapeInv, NEW got \in Seq(Packets), AppendDrainedPackets(got)
  PROVE  /\ ThreadShape' /\ available' \subseteq Textures /\ stored' \in Seq(Packets)
         /\ DrainShape'
         /\ UNCHANGED <<created, picture>>
<1>1. PICK n \in 0..Len(got) :
         /\ stored' = stored \o SubSeq(got, 1, n)
         /\ DrainEnds("none") \/ DrainEnds("other")
  BY DEF AppendDrainedPackets
<1>2. stored' \in Seq(Packets)
  <2>1. SubSeq(got, 1, n) \in Seq(Packets)  OBVIOUS
  <2> QED  BY <1>1, <2>1 DEF ShapeInv, EncoderShape
<1> QED  BY <1>1, <1>2, DrainEndsShape

(* Callbacks keep the shape,                                               *)
LEMMA CallbackShape == ShapeInv /\ FrameThread => ShapeInv'
<1> SUFFICES ASSUME ShapeInv, FrameThread PROVE ShapeInv'
  OBVIOUS
<1> USE DEF ShapeInv, CallShape, PoolShape
<1>1. ThreadShape' /\ EncoderShape'
  BY ThreadStays, EncoderStays DEF FrameThread, encodeVars, queueVars, threadVars
<1>2. CASE TakeFrame
  <2>1. surfaces # <<>> => surfaces[Len(surfaces)] \in Nat  OBVIOUS
  <2> QED  BY <1>1, <1>2, <2>1 DEF TakeFrame, FramePlaces, ClosedPlaces, poolVars
<1>3. CASE AcquireTexture
  <2> USE <1>1, <1>3 DEF AcquireTexture, wgcVars, FramePlaces
  <2>1. CASE Exhausted
    BY <2>1 DEF LookAgain, NoCall, poolVars
  <2>2. CASE ~Exhausted /\ Reserve /\ Goto("creating")
    BY <2>2 DEF Reserve, Goto
  <2>3. ASSUME NEW t \in Textures, Reuse(t),
               frameCall' = [frameCall EXCEPT !.pc = "leased", !.texture = {t}]
        PROVE  ShapeInv'
    BY <2>3 DEF Reuse
  <2> QED  BY <2>1, <2>2, <2>3
<1>4. CASE TextureIsCreated
  <2> USE <1>1, <1>4 DEF TextureIsCreated, wgcVars, FramePlaces
  <2>1. CASE CreateFails /\ LookAgain
    BY <2>1 DEF CreateFails, LookAgain, NoCall
  <2>2. ASSUME NEW t \in Textures, CreateTexture(t),
               frameCall' = [frameCall EXCEPT !.pc = "leased", !.texture = {t}]
        PROVE  ShapeInv'
    BY <2>2 DEF CreateTexture
  <2> QED  BY <2>1, <2>2
<1>5. CASE CopyTexture
  BY <1>1, <1>5 DEF CopyTexture, CopyFrame, Goto, FramePlaces, ClosedPlaces, wgcVars
<1>6. CASE CallbackFails
  BY <1>1, <1>6 DEF CallbackFails, Return, LookAgain, NoCall, FramePlaces, ClosedPlaces, wgcVars
<1>7. CASE \/ FrameArrives \/ SeesRunning \/ NoMoreFrames \/ FrameIsUnusable \/ LeaveFrame
           \/ ItemCloses \/ ClosedSeesRunning \/ ReportClosed \/ LeaveClosed
  BY <1>1, <1>7 DEF FrameArrives, SeesRunning, NoMoreFrames, FrameIsUnusable, LeaveFrame,
     ItemCloses, ClosedSeesRunning, ReportClosed, LeaveClosed, Goto, LookAgain, NoCall,
     FramePlaces, ClosedPlaces, wgcVars, poolVars
<1> QED  BY <1>2, <1>3, <1>4, <1>5, <1>6, <1>7 DEF FrameThread, Callbacks

(* the encode thread and the transform keep it,                            *)
LEMMA EncodeShape == ShapeInv /\ (EncodeThread \/ Transform) => ShapeInv'
<1> SUFFICES ASSUME ShapeInv, EncodeThread \/ Transform PROVE ShapeInv'
  OBVIOUS
<1> USE DEF ShapeInv
<1>1. CallShape'
  BY DEF EncodeThread, Transform, CallShape, captureVars, wgcVars, callVars
<1>2. CASE Encode
  <2>1. Head(input) \in Nat /\ Tail(input) \in Seq(Nat)
    BY <1>2 DEF Encode, EncoderShape
  <2>2. [stamp |-> Head(input), picture |-> nv12] \in Packets
    BY <2>1 DEF EncoderShape, Packets
  <2>3. output' \in Seq(Packets) /\ input' \in Seq(Nat)
    BY <1>2, <2>1, <2>2 DEF Encode, EncoderShape
  <2>4. EncoderShape'
    BY <1>2, <2>3 DEF Encode, EncoderShape, DrainShape
  <2> QED  BY <1>1, <1>2, <2>4, PoolStays, ThreadStays DEF Encode, queueVars, threadVars
<1>3. CASE InitializeCom \/ ThreadEnds
  <2>1. ThreadShape'
    BY <1>3 DEF InitializeCom, ThreadEnds, Fail, ThreadShape, Steps, queueVars
  <2> QED  BY <1>1, <1>3, <2>1, PoolStays, EncoderStays DEF InitializeCom, ThreadEnds
<1>4. CASE PopFrame
  <2>1. Head(queue) \in Frames /\ Tail(queue) \in Seq(Frames)
    BY <1>4 DEF PopFrame, ThreadShape
  <2>2. ThreadShape'
    BY <1>4, <2>1 DEF PopFrame, ThreadShape, Steps
  <2> QED  BY <1>1, <1>4, <2>2, PoolStays, EncoderStays DEF PopFrame
<1>5. CASE FrameRefused \/ SubmitFails \/ LostAfterSubmit \/ SubmitFrame
  <2>1. frame \in Frames
    BY <1>5 DEF FrameRefused, SubmitFails, LostAfterSubmit, SubmitFrame, ThreadShape
  <2>2. picture[CHOOSE t \in frame.texture : TRUE] \in Nat
    BY <2>1 DEF Frames, PoolShape
  <2>3. ThreadShape'
    BY <1>5 DEF FrameRefused, SubmitFails, LostAfterSubmit, SubmitFrame, Fail, ThreadShape, Steps,
       queueVars
  <2>4. PoolShape'
    BY <1>5, <2>1 DEF FrameRefused, SubmitFails, LostAfterSubmit, SubmitFrame, Return, PoolShape,
       Frames, poolVars
  <2>5. CASE FrameRefused \/ SubmitFails
    BY <1>1, <2>2, <2>3, <2>4, <2>5 DEF FrameRefused, SubmitFails, Convert, EncoderShape, DrainShape,
       encoderVars
  <2>6. CASE LostAfterSubmit \/ SubmitFrame
    <3>1. nv12' \in Nat /\ submitted' \in Nat /\ drained' \in Nat /\ input' \in Seq(Nat)
      <4>1. frame.stamp \in Nat
        BY <2>1 DEF Frames
      <4>2. ProcessInput /\ Convert /\ UNCHANGED drained
        BY <2>6 DEF LostAfterSubmit, SubmitFrame
      <4>3. input' \in Seq(Nat)
        BY <4>1, <4>2 DEF ProcessInput, EncoderShape
      <4> QED  BY <2>2, <4>2, <4>3 DEF ProcessInput, Convert, EncoderShape
    <3>2. DrainShape'
      <4>1. CASE LostAfterSubmit
        BY <4>1 DEF LostAfterSubmit, EncoderShape, DrainShape
      <4>2. CASE SubmitFrame
        <5>1. drain' = [by |-> "thread", got |-> <<>>, target |-> Target + 1, result |-> "none"]
          BY <4>2 DEF SubmitFrame, NoDrain
        <5> QED  BY <5>1 DEF DrainShape, Target, EncoderShape
      <4> QED  BY <2>6, <4>1, <4>2
    <3> QED  BY <1>1, <2>3, <2>4, <2>6, <3>1, <3>2 DEF LostAfterSubmit, SubmitFrame, EncoderShape
  <2> QED  BY <1>5, <2>5, <2>6
<1>6. CASE DrainNext
  <2>1. drain.got \in Seq(Packets)
    BY DEF EncoderShape, DrainShape
  <2>2. CASE FetchPacket
    <3> DEFINE got == Append(drain.got, Head(output))
    <3>1. Head(output) \in Packets /\ Tail(output) \in Seq(Packets)
      BY <2>2 DEF FetchPacket, EncoderShape
    <3>2. got \in Seq(Packets)
      BY <2>1, <3>1
    <3>3. UNCHANGED <<nv12, submitted, input>> /\ drained' \in Nat /\ output' \in Seq(Packets)
      BY <2>2, <3>1 DEF FetchPacket, EncoderShape
    <3>4. CASE Enough(got)
      <4>1. AppendDrainedPackets(got)
        BY <2>2, <3>4 DEF FetchPacket
      <4> HIDE DEF got
      <4> QED  BY <1>1, <3>2, <3>3, <4>1, AppendShape DEF PoolShape, EncoderShape
    <3>5. CASE ~Enough(got)
      <4>1. drain' = [drain EXCEPT !.got = got] /\ UNCHANGED <<queueVars, threadVars, stored, poolVars>>
        BY <2>2, <3>5 DEF FetchPacket
      <4> HIDE DEF got
      <4>2. DrainShape'
        BY <3>2, <4>1 DEF EncoderShape, DrainShape
      <4> QED  BY <1>1, <3>3, <4>1, <4>2, PoolStays, ThreadStays DEF EncoderShape, queueVars, threadVars
    <3> QED  BY <3>4, <3>5
  <2>3. CASE DrainTimesOut \/ DrainFails \/ DrainCompletes
    <3>1. UNCHANGED <<nv12, submitted, drained, input, output>>
      BY <2>3 DEF DrainTimesOut, DrainFails, DrainCompletes
    <3>2. AppendDrainedPackets(drain.got) \/ (UNCHANGED stored /\ DrainEnds("runtime"))
      BY <2>3 DEF DrainTimesOut, DrainFails, DrainCompletes
    <3>3. CASE AppendDrainedPackets(drain.got)
      BY <1>1, <2>1, <3>1, <3>3, AppendShape DEF PoolShape, EncoderShape
    <3>4. CASE UNCHANGED stored /\ DrainEnds("runtime")
      BY <1>1, <3>1, <3>4, DrainEndsShape DEF PoolShape, EncoderShape
    <3> QED  BY <3>2, <3>3, <3>4
  <2> QED  BY <1>6, <2>2, <2>3 DEF DrainNext
<1> QED  BY <1>2, <1>3, <1>4, <1>5, <1>6 DEF EncodeThread, Transform, ThreadNext

(* the recorder and what else the composition has,                         *)
LEMMA RecorderShape == ShapeInv /\ (Recorder \/ Notify \/ Count \/ Windows) => ShapeInv'
<1> SUFFICES ASSUME ShapeInv, Recorder \/ Notify \/ Count \/ Windows PROVE ShapeInv'
  OBVIOUS
<1> USE DEF ShapeInv
<1>1. CASE StartVideo
  BY <1>1, PoolStays, EncoderStays, CallStays DEF StartVideo, StartThread, ThreadShape, Steps,
     captureVars, wgcVars, callVars
<1>2. CASE CaptureStarts
  BY <1>2, PoolStays, EncoderStays, ThreadStays, CallStays DEF CaptureStarts, StartCapture,
     encodeVars, queueVars, threadVars, callVars
<1>3. CASE CaptureCannotStart \/ ClearCapture
  BY <1>3, PoolStays, EncoderStays, ThreadStays, CallStays DEF CaptureCannotStart, ClearCapture,
     AskToStop, wgcVars, callVars
<1>4. CASE Poll \/ LeaveLoop \/ LookForCallbacks \/ Block \/ WakeUp \/ NothingToDrain
           \/ EncoderDrained \/ NeverStarted
  BY <1>4, PoolStays, EncoderStays, ThreadStays, CallStays DEF Poll, PollFinds, LeaveLoop,
     LookForCallbacks, Block, WakeUp, NothingToDrain, EncoderDrained, NeverStarted,
     encodeVars, queueVars, threadVars, captureVars, wgcVars, callVars
<1>5. CASE RemoveHandlers
  <2>1. (surfaces' = surfaces \/ surfaces' = <<>>) /\ UNCHANGED <<composed, frameCall, closedCall>>
    BY <1>5 DEF RemoveHandlers, RemoveCallbacks, callVars
  <2>2. surfaces' \in Seq(Nat)
    <3>1. <<>> \in Seq(Nat)
      OBVIOUS
    <3>2. surfaces \in Seq(Nat)
      BY DEF CallShape
    <3> QED  BY <2>1, <3>1, <3>2
  <2>3. CallShape'
    BY <2>1, <2>2 DEF CallShape
  <2> QED  BY <1>5, <2>3, PoolStays, EncoderStays, ThreadStays DEF RemoveHandlers,
           encodeVars, queueVars, threadVars
<1>6. ASSUME ClearQueuedFrames, UNCHANGED <<frame, step>> PROVE ThreadShape' /\ PoolShape'
  <2>1. Leases(queue) \subseteq Textures
    BY LeasesAreTextures DEF ThreadShape
  <2> QED  BY <1>6, <2>1 DEF ClearQueuedFrames, Return, PoolShape, ThreadShape
<1>7. CASE DrainQueuedFrames \/ Reset
  BY <1>6, <1>7, PoolStays, EncoderStays, ThreadStays, CallStays DEF DrainQueuedFrames, Reset,
     threadVars, captureVars, wgcVars, callVars
<1>8. CASE DrainEncoder
  <2>1. drain' = [by |-> "recorder", got |-> <<>>, target |-> Target, result |-> "none"]
    BY <1>8 DEF DrainEncoder, FinalizeBegins, NoDrain
  <2>2. DrainShape'
    BY <2>1 DEF DrainShape, Target, EncoderShape
  <2> QED  BY <1>8, <2>2, PoolStays, ThreadStays, CallStays DEF DrainEncoder, FinalizeBegins,
           EncoderShape, queueVars, threadVars, captureVars, wgcVars, callVars
<1>9. CASE Notify
  BY <1>9, PoolStays, EncoderStays, ThreadStays DEF Notify, CallShape, NoCall, FramePlaces,
     ClosedPlaces, encodeVars, queueVars, threadVars, wgcVars
<1>10. CASE Count
  BY <1>10, PoolStays, EncoderStays, ThreadStays DEF Count, LookAgain, CallShape, NoCall, FramePlaces,
     encodeVars, queueVars, threadVars, wgcVars
<1>11. CASE Windows
  BY <1>11, PoolStays, EncoderStays, ThreadStays DEF Windows, Compose, CallShape, callVars,
     encodeVars, queueVars, threadVars
<1> QED  BY <1>1, <1>2, <1>3, <1>4, <1>5, <1>7, <1>8, <1>9, <1>10, <1>11 DEF Recorder

(* and the delivery of a frame.                                            *)
LEMMA DeliverShape == ShapeInv /\ Deliver => ShapeInv'
<1> SUFFICES ASSUME ShapeInv, Deliver PROVE ShapeInv'
  OBVIOUS
<1> USE DEF ShapeInv, Deliver
<1> DEFINE new == [stamp |-> frameCall.stamp, texture |-> frameCall.texture]
<1>1. frameCall.texture \subseteq Textures /\ new \in Frames
  BY DEF CallShape, Frames
<1>2. Dropped \in Nat
  BY DEF Dropped, ThreadShape
<1>3. EncoderShape'
  BY EncoderStays
<1>4. CASE accepting
  <2>1. Push(new)
    BY <1>4
  <2> HIDE DEF new
  <2>2. queue' \in Seq(Frames)
    BY <1>1, <2>1 DEF Push, ThreadShape
  <2>3. ThreadShape'
    BY <2>2 DEF ThreadShape, threadVars
  <2>4. Leases(queue) \subseteq Textures
    BY LeasesAreTextures DEF ThreadShape
  <2>5. PoolShape'
    BY <2>1, <2>4 DEF Push, Return, PoolShape
  <2>6. CallShape'
    BY <1>2, <1>4 DEF CallShape, FramePlaces, wgcVars
  <2> QED  BY <1>3, <2>3, <2>5, <2>6
<1>5. CASE ~accepting
  BY <1>1, <1>3, <1>5, ThreadStays DEF Return, LookAgain, NoCall, PoolShape, CallShape, FramePlaces,
     threadVars, wgcVars
<1> QED  BY <1>4, <1>5

(* So the state always has that shape.                                     *)
LEMMA Shapes == Spec => []ShapeInv
<1>1. ShapeInv /\ [Next]_vars => ShapeInv'
  <2> SUFFICES ASSUME ShapeInv, [Next]_vars PROVE ShapeInv'
    OBVIOUS
  <2>1. CASE UNCHANGED vars
    BY <2>1, PoolStays, EncoderStays, ThreadStays, CallStays DEF ShapeInv, vars, captureVars,
       wgcVars, callVars, encodeVars, queueVars, threadVars
  <2>2. CASE WakeUpUnasked
    BY <2>2, PoolStays, EncoderStays, ThreadStays, CallStays DEF WakeUpUnasked, ShapeInv, captureVars,
       wgcVars, callVars, encodeVars, queueVars, threadVars
  <2> QED  BY <2>1, <2>2, CallbackShape, EncodeShape, RecorderShape, DeliverShape DEF Next, Gone
<1> QED  BY InitShape, <1>1, PTL DEF Spec

-----------------------------------------------------------------------------
(* No callback sees a runtime that is cleared.                             *)

InFlight(place) == IF place \in {"idle", "notifying"} THEN 0 ELSE 1
Calm ==
  /\ frameCall.pc \in {"idle", "guarded", "leaving", "notifying"}
  /\ closedCall \in {"idle", "guarded", "leaving", "notifying"}
Cleared == {"joining", "abandoning", "finalizing", "draining", "ended", "gone"}

(* The count is that of the calls past their guard; only while recording   *)
(* does a call see the session run; and when Stop has once seen no call,   *)
(* all there are begin after its mark.                                     *)
StopInv ==
  /\ active = InFlight(frameCall.pc) + InFlight(closedCall)
  /\ running => worker = "recording"
  /\ worker \in {"idle", "starting"} =>
       handlers = {} /\ frameCall.pc = "idle" /\ closedCall = "idle"
  /\ worker \in Cleared \cup {"clearing"} => Calm
  /\ runtime = "cleared" => worker \in Cleared

stopVars == <<frameCall, closedCall, active, handlers, running, runtime, worker>>

(* Steps elsewhere do not matter.                                          *)
LEMMA StopStays == StopInv /\ UNCHANGED stopVars => StopInv'
BY DEF StopInv, stopVars, Calm

(* A call that is past its look at running_ may move on, or leave.         *)
Within == {"looking", "taken", "creating", "leased", "copied", "counting"}

(* Such a move keeps the invariant.                                        *)
LEMMA StopWithin ==
  ASSUME ShapeInv, StopInv, frameCall.pc \in Within, frameCall'.pc \in Within \cup {"leaving"},
         UNCHANGED <<closedCall, active, handlers, running, runtime, worker>>
  PROVE  StopInv'
BY DEF StopInv, Calm, Cleared, InFlight, Within

(* Every step of a callback keeps it,                                      *)
LEMMA StopOfCallback ==
  ASSUME ShapeInv, StopInv, FrameThread
  PROVE  StopInv'
<1> USE DEF ShapeInv, CallShape, recorderVars, sessionVars, wgcVars
<1>1. UNCHANGED worker
  BY DEF FrameThread
<1>2. CASE FrameArrives \/ ItemCloses
  BY <1>1, <1>2 DEF FrameArrives, ItemCloses, GuardEnters, Goto, StopInv, Calm, Cleared, InFlight
<1>3. CASE SeesRunning \/ ClosedSeesRunning
  BY <1>1, <1>3 DEF SeesRunning, ClosedSeesRunning, Goto, StopInv, Calm, Cleared, InFlight
<1>4. CASE TakeFrame \/ NoMoreFrames \/ FrameIsUnusable \/ AcquireTexture
  <2>1. frameCall.pc \in Within /\ frameCall'.pc \in Within \cup {"leaving"}
    <3>1. CASE TakeFrame \/ NoMoreFrames \/ FrameIsUnusable
      BY <3>1 DEF TakeFrame, NoMoreFrames, FrameIsUnusable, LookAgain, NoCall, Goto, Within
    <3>2. CASE AcquireTexture
      BY <3>2 DEF AcquireTexture, LookAgain, NoCall, Goto, Within
    <3> QED  BY <1>4, <3>1, <3>2
  <2> QED  BY <1>1, <1>4, <2>1, StopWithin DEF TakeFrame, NoMoreFrames, FrameIsUnusable, AcquireTexture
<1>5. CASE TextureIsCreated \/ CopyTexture \/ CallbackFails
  <2>1. frameCall.pc \in Within /\ frameCall'.pc \in Within
    BY <1>5 DEF TextureIsCreated, CopyTexture, CallbackFails, LookAgain, NoCall, Goto, Within
  <2> QED  BY <1>1, <1>5, <2>1, StopWithin DEF TextureIsCreated, CopyTexture, CallbackFails
<1>6. CASE LeaveFrame \/ LeaveClosed \/ ReportClosed
  BY <1>1, <1>6 DEF LeaveFrame, LeaveClosed, ReportClosed, GuardLeaves, NoCall, StopInv, Calm, Cleared,
     InFlight
<1> QED  BY <1>2, <1>3, <1>4, <1>5, <1>6 DEF FrameThread, Callbacks

(* and every step of the recorder.                                         *)
LEMMA StopOfRecorder ==
  ASSUME ShapeInv, StopInv, Recorder \/ WakeUpUnasked
  PROVE  StopInv'
<1> USE DEF StopInv, Calm, Cleared, InFlight, ShapeInv, CallShape, To, captureVars, wgcVars, callVars,
            sessionVars
<1>1. CASE StartVideo \/ CaptureStarts \/ CaptureCannotStart
  BY <1>1 DEF StartVideo, CaptureStarts, CaptureCannotStart, StartCapture, ClearRuntime
<1>2. CASE Poll \/ LeaveLoop
  BY <1>2 DEF Poll, PollFinds, LeaveLoop, MarkStopped, recorderVars
<1>3. CASE RemoveHandlers \/ Block \/ WakeUp \/ WakeUpUnasked
  BY <1>3 DEF RemoveHandlers, RemoveCallbacks, Block, WakeUp, WakeUpUnasked
<1>4. CASE LookForCallbacks
  BY <1>4 DEF LookForCallbacks, FramePlaces, ClosedPlaces
<1>5. CASE ClearCapture
  BY <1>5 DEF ClearCapture, ClearRuntime
<1>6. CASE DrainQueuedFrames \/ DrainEncoder \/ NothingToDrain \/ EncoderDrained \/ NeverStarted \/ Reset
  BY <1>6 DEF DrainQueuedFrames, DrainEncoder, NothingToDrain, EncoderDrained, NeverStarted, Reset
<1> QED  BY <1>1, <1>2, <1>3, <1>4, <1>5, <1>6 DEF Recorder

(* So it always holds.                                                     *)
LEMMA Stops == Spec => []StopInv
<1>1. Init => StopInv
  BY DEF Init, CaptureInit, NoCall, StopInv, InFlight, Cleared
<1>2. ShapeInv /\ StopInv /\ [Next]_vars => StopInv'
  <2> SUFFICES ASSUME ShapeInv, StopInv, [Next]_vars PROVE StopInv'
    OBVIOUS
  <2>1. CASE EncodeThread \/ Transform \/ Windows \/ UNCHANGED vars
    BY <2>1, StopStays DEF EncodeThread, Transform, Windows, Compose, stopVars, vars, captureVars,
       wgcVars, callVars, sessionVars, recorderVars
  <2>2. CASE Deliver \/ Count
    <3>1. frameCall.pc \in Within /\ frameCall'.pc \in Within
      BY <2>2 DEF Deliver, Count, LookAgain, NoCall, ShapeInv, CallShape, Within
    <3> QED  BY <2>2, <3>1, StopWithin DEF Deliver, Count, wgcVars, sessionVars, recorderVars
  <2>3. CASE Notify
    BY <2>3 DEF Notify, NoCall, StopInv, Calm, InFlight, Cleared, ShapeInv, CallShape, wgcVars, sessionVars
  <2> QED  BY <2>1, <2>2, <2>3, StopOfCallback, StopOfRecorder DEF Next, Gone
<1> QED  BY Shapes, <1>1, <1>2, PTL DEF Spec

\* Once Stop has cleared the runtime of the capture, no callback is past its
\* look at running_, whatever the order of calls, marks and waits: for any
\* pool, queue and number of frames (WgcMonitorCaptureSession.cpp:778).
THEOREM CallbacksAreSafe == Spec => []CallbacksSeeRuntime
<1>1. StopInv => CallbacksSeeRuntime
  BY DEF StopInv, Calm, Cleared, CallbacksSeeRuntime
<1> QED  BY Stops, <1>1, PTL

-----------------------------------------------------------------------------
(* Every texture has one owner at most: the pool, the callback, a frame in *)
(* the queue, or the frame that is being encoded.                          *)

CallLease ==
  IF frameCall.pc \in {"leased", "copied"}
  THEN \E t \in Textures : frameCall.texture = {t}
  ELSE frameCall.texture = {}

Taken == available \cup frameCall.texture \cup frame.texture

LeaseInv ==
  /\ CallLease
  /\ Taken \subseteq created
  /\ available \cap frameCall.texture = {} /\ available \cap frame.texture = {}
  /\ frameCall.texture \cap frame.texture = {}
  /\ \A i \in DOMAIN queue : queue[i].texture \subseteq created \ Taken
  /\ \A i, j \in DOMAIN queue : i # j => queue[i].texture \cap queue[j].texture = {}

leaseVars == <<available, created, frameCall, frame, queue>>

(* Steps elsewhere do not matter.                                          *)
LEMMA LeasesStay == LeaseInv /\ UNCHANGED leaseVars => LeaseInv'
BY DEF LeaseInv, CallLease, Taken, leaseVars

(* Dropping the lease of the frame that is being encoded.                  *)
LEMMA FrameReturned ==
  ASSUME LeaseInv, Return(frame.texture), frame' = NoFrame, UNCHANGED <<frameCall, queue>>
  PROVE  LeaseInv'
BY DEF LeaseInv, CallLease, Taken, Return, NoFrame

(* A callback leases a texture nobody has, and gives it back or on.        *)
LEMMA LeasesOfCallback ==
  ASSUME ShapeInv, LeaseInv, FrameThread
  PROVE  LeaseInv'
<1> USE DEF ShapeInv, CallShape, Taken
<1>1. UNCHANGED <<queue, frame>>
  BY DEF FrameThread, encodeVars, queueVars, threadVars
<1>2. CASE \/ FrameArrives \/ SeesRunning \/ TakeFrame \/ NoMoreFrames \/ FrameIsUnusable \/ LeaveFrame
           \/ ItemCloses \/ ClosedSeesRunning \/ ReportClosed \/ LeaveClosed
  <2>1. UNCHANGED <<available, created>>
    BY <1>2 DEF FrameArrives, SeesRunning, TakeFrame, NoMoreFrames, FrameIsUnusable, LeaveFrame,
       ItemCloses, ClosedSeesRunning, ReportClosed, LeaveClosed, poolVars
  <2>2. /\ frameCall.texture = {} /\ frameCall'.texture = {}
        /\ frameCall'.pc \notin {"leased", "copied"}
        \/ UNCHANGED frameCall
    BY <1>2 DEF FrameArrives, SeesRunning, TakeFrame, NoMoreFrames, FrameIsUnusable, LeaveFrame,
       ItemCloses, ClosedSeesRunning, ReportClosed, LeaveClosed, Goto, LookAgain, NoCall,
       LeaseInv, CallLease
  <2> QED  BY <1>1, <2>1, <2>2 DEF LeaseInv, CallLease
<1>3. CASE AcquireTexture
  <2> USE <1>1, <1>3 DEF AcquireTexture
  <2>1. frameCall.texture = {}
    BY DEF LeaseInv, CallLease
  <2>2. CASE Exhausted \/ (Reserve /\ Goto("creating"))
    BY <2>1, <2>2 DEF LookAgain, NoCall, Reserve, Goto, poolVars, LeaseInv, CallLease
  <2>3. ASSUME NEW t \in Textures, Reuse(t),
               frameCall' = [frameCall EXCEPT !.pc = "leased", !.texture = {t}]
        PROVE  LeaseInv'
    <3>1. frameCall'.texture = {t} /\ CallLease'
      BY <2>3 DEF CallLease
    <3>2. t \in available /\ available' = available \ {t} /\ UNCHANGED created
      BY <2>3 DEF Reuse
    <3>3. /\ Taken' \subseteq created' /\ Taken' = Taken
          /\ available' \cap frameCall'.texture = {} /\ available' \cap frame'.texture = {}
          /\ frameCall'.texture \cap frame'.texture = {}
      BY <2>1, <3>1, <3>2 DEF LeaseInv
    <3> HIDE DEF Taken
    <3> QED  BY <3>1, <3>2, <3>3 DEF LeaseInv
  <2> QED  BY <2>2, <2>3
<1>4. CASE TextureIsCreated
  <2> USE <1>1, <1>4 DEF TextureIsCreated
  <2>1. frameCall.texture = {}
    BY DEF LeaseInv, CallLease
  <2>2. CASE CreateFails /\ LookAgain
    BY <2>1, <2>2 DEF LookAgain, NoCall, CreateFails, LeaseInv, CallLease
  <2>3. ASSUME NEW t \in Textures, CreateTexture(t),
               frameCall' = [frameCall EXCEPT !.pc = "leased", !.texture = {t}]
        PROVE  LeaseInv'
    <3>1. frameCall'.texture = {t} /\ CallLease'
      BY <2>3 DEF CallLease
    <3>2. t \notin created /\ created' = created \cup {t} /\ UNCHANGED available
      BY <2>3 DEF CreateTexture
    <3>3. /\ Taken' \subseteq created' /\ Taken' = Taken \cup {t}
          /\ available' \cap frameCall'.texture = {} /\ available' \cap frame'.texture = {}
          /\ frameCall'.texture \cap frame'.texture = {}
      BY <2>1, <3>1, <3>2 DEF LeaseInv
    <3>4. \A i \in DOMAIN queue' : queue'[i].texture \subseteq created' \ Taken'
      <4> HIDE DEF Taken
      <4> QED  BY <3>2, <3>3 DEF LeaseInv
    <3> HIDE DEF Taken
    <3> QED  BY <3>1, <3>3, <3>4 DEF LeaseInv
  <2> QED  BY <2>2, <2>3
<1>5. CASE CopyTexture
  BY <1>1, <1>5 DEF CopyTexture, CopyFrame, Goto, LeaseInv, CallLease
<1>6. CASE CallbackFails
  BY <1>1, <1>6 DEF CallbackFails, Return, LookAgain, NoCall, LeaseInv, CallLease
<1> QED  BY <1>2, <1>3, <1>4, <1>5, <1>6 DEF FrameThread, Callbacks

(* The frame that is encoded was at the head of the queue; it goes back    *)
(* when the thread is done with it.                                        *)
LEMMA LeasesOfThread ==
  ASSUME ShapeInv, LeaseInv, EncodeThread \/ Transform
  PROVE  LeaseInv'
<1>1. UNCHANGED frameCall
  BY DEF EncodeThread, Transform, captureVars, callVars
<1>2. CASE Encode \/ ThreadEnds \/ SubmitFrame
  BY <1>1, <1>2, LeasesStay DEF Encode, ThreadEnds, SubmitFrame, queueVars, threadVars, poolVars, leaseVars
<1>3. CASE InitializeCom
  BY <1>1, <1>3 DEF InitializeCom, Fail, NoFrame, LeaseInv, CallLease, Taken, queueVars, poolVars
<1>4. CASE FrameRefused \/ SubmitFails \/ LostAfterSubmit
  BY <1>1, <1>4, FrameReturned DEF FrameRefused, SubmitFails, LostAfterSubmit, Fail
<1>5. CASE DrainNext
  <2>1. ASSUME NEW kind, DrainEnds(kind) PROVE LeaseInv'
    <3>1. CASE drain.by = "recorder"
      BY <1>1, <2>1, <3>1, LeasesStay DEF DrainEnds, queueVars, threadVars, poolVars, leaseVars
    <3>2. CASE drain.by # "recorder"
      BY <1>1, <2>1, <3>2, FrameReturned DEF DrainEnds, Fail, queueVars
    <3> QED  BY <3>1, <3>2
  <2>2. \/ \E kind \in {"none", "runtime", "other"} : DrainEnds(kind)
        \/ UNCHANGED <<queueVars, threadVars, poolVars>>
    BY <1>5 DEF DrainNext, FetchPacket, DrainTimesOut, DrainFails, DrainCompletes, AppendDrainedPackets
  <2> QED  BY <1>1, <2>1, <2>2, LeasesStay DEF queueVars, threadVars, poolVars, leaseVars
<1>6. CASE PopFrame
  <2>1. Head(queue) = queue[1] /\ queue # <<>> /\ frame' = queue[1] /\ UNCHANGED poolVars
    BY <1>6 DEF PopFrame, ShapeInv, ThreadShape
  <2>2. DOMAIN queue' = 1..(Len(queue) - 1) /\ \A i \in DOMAIN queue' : queue'[i] = queue[i + 1]
    BY <1>6 DEF PopFrame, ShapeInv, ThreadShape
  <2>3. DOMAIN queue = 1..Len(queue) /\ Len(queue) \in Nat \ {0}
    BY <2>1 DEF ShapeInv, ThreadShape
  <2>4. Taken' \subseteq Taken \cup queue[1].texture
    BY <1>1, <2>1 DEF Taken, poolVars
  <2>5. \A i \in DOMAIN queue' : queue'[i].texture \subseteq created \ (Taken \cup queue[1].texture)
    BY <2>2, <2>3 DEF LeaseInv
  <2>6. \A i, j \in DOMAIN queue' : i # j => queue'[i].texture \cap queue'[j].texture = {}
    BY <2>2, <2>3 DEF LeaseInv
  <2>7. queue[1].texture \subseteq created \ Taken
    BY <2>3 DEF LeaseInv
  <2> QED  BY <1>1, <2>1, <2>4, <2>5, <2>6, <2>7 DEF LeaseInv, CallLease, Taken, poolVars
<1> QED  BY <1>2, <1>3, <1>4, <1>5, <1>6 DEF EncodeThread, Transform, ThreadNext

(* Clearing the queue gives its textures back to the pool.                 *)
LEMMA QueueReturned ==
  ASSUME LeaseInv, Return(Leases(queue)), queue' = <<>>, UNCHANGED <<frameCall, frame>>
  PROVE  LeaseInv'
<1>1. Leases(queue) \subseteq created \ Taken
  BY DEF Leases, LeaseInv
<1>2. \A i \in DOMAIN queue' : FALSE
  OBVIOUS
<1> QED  BY <1>1, <1>2 DEF Return, LeaseInv, CallLease, Taken

(* A delivered frame takes its texture along; those it displaces return.   *)
LEMMA LeasesOfDeliver ==
  ASSUME ShapeInv, LeaseInv, Deliver
  PROVE  LeaseInv'
<1> USE DEF Deliver, ShapeInv, CallShape
<1>1. UNCHANGED frame /\ frameCall'.texture = {} /\ frameCall'.pc \notin {"leased", "copied"}
  BY DEF threadVars, LookAgain, NoCall
<1>2. CASE ~accepting
  BY <1>1, <1>2 DEF Return, LeaseInv, CallLease, Taken
<1>3. CASE accepting
  <2> DEFINE new == [stamp |-> frameCall.stamp, texture |-> frameCall.texture]
  <2>1. Push(new) /\ new.texture = frameCall.texture
    BY <1>3
  <2> HIDE DEF new
  <2>2. CASE Overflows
    <3>1. DOMAIN queue' = {1} /\ queue'[1] = new
      BY <2>1, <2>2 DEF Push
    <3>2. Leases(queue) \subseteq created \ Taken
      BY DEF Leases, LeaseInv
    <3> QED  BY <1>1, <2>1, <2>2, <3>1, <3>2 DEF Push, Return, LeaseInv, CallLease, Taken
  <2>3. CASE ~Overflows
    <3>1. DOMAIN queue = 1..Len(queue) /\ Len(queue) \in Nat
      BY DEF ThreadShape
    <3>2. /\ DOMAIN queue' = 1..(Len(queue) + 1) /\ queue'[Len(queue) + 1] = new
          /\ \A i \in DOMAIN queue : queue'[i] = queue[i]
      BY <2>1, <2>3 DEF Push, ThreadShape
    <3>3. UNCHANGED <<available, created>>
      BY <2>1, <2>3 DEF Push, Return
    <3>4. new.texture \cap (available \cup frame.texture) = {} /\ new.texture \subseteq created
      BY <2>1 DEF LeaseInv, Taken
    <3>5. \A i \in DOMAIN queue : /\ queue'[i].texture \subseteq created \ (available \cup frame.texture)
                                  /\ queue'[i].texture \cap new.texture = {}
      BY <2>1, <3>2 DEF LeaseInv, Taken
    <3>6. \A i \in DOMAIN queue' : queue'[i].texture \subseteq created' \ Taken'
      BY <1>1, <3>1, <3>2, <3>3, <3>4, <3>5 DEF Taken
    <3>7. \A i, j \in DOMAIN queue' : i # j => queue'[i].texture \cap queue'[j].texture = {}
      BY <3>1, <3>2, <3>5 DEF LeaseInv
    <3> QED  BY <1>1, <3>3, <3>6, <3>7 DEF LeaseInv, CallLease, Taken
  <2> QED  BY <2>2, <2>3
<1> QED  BY <1>2, <1>3

(* No texture ever has two owners.                                         *)
THEOREM Leasing == Spec => []LeaseInv
<1>1. Init => LeaseInv
  BY DEF Init, PoolInit, CaptureInit, EncodeInit, NoCall, NoFrame, LeaseInv, CallLease, Taken
<1>2. ShapeInv /\ LeaseInv /\ [Next]_vars => LeaseInv'
  <2> SUFFICES ASSUME ShapeInv, LeaseInv, [Next]_vars PROVE LeaseInv'
    OBVIOUS
  <2>1. CASE DrainQueuedFrames \/ Reset
    <3>1. UNCHANGED <<frameCall, frame>>
      BY <2>1 DEF DrainQueuedFrames, Reset, captureVars, callVars, threadVars
    <3>2. ClearQueuedFrames \/ UNCHANGED <<queue, poolVars>>
      BY <2>1 DEF DrainQueuedFrames, Reset
    <3> QED  BY <3>1, <3>2, QueueReturned, LeasesStay DEF ClearQueuedFrames, poolVars, leaseVars
  <2>2. CASE Count \/ Notify
    BY <2>2 DEF Count, Notify, LookAgain, NoCall, LeaseInv, CallLease, Taken, ShapeInv, CallShape,
       encodeVars, queueVars, threadVars, poolVars
  <2>3. CASE Windows \/ WakeUpUnasked \/ UNCHANGED vars
    BY <2>3, LeasesStay DEF Windows, Compose, WakeUpUnasked, vars, captureVars, callVars, encodeVars,
       queueVars, threadVars, poolVars, leaseVars
  <2>4. CASE StartVideo \/ CaptureStarts \/ CaptureCannotStart \/ Poll \/ LeaveLoop
    BY <2>4, LeasesStay DEF StartVideo, StartThread, CaptureStarts, StartCapture, CaptureCannotStart,
       AskToStop, Poll, PollFinds, LeaveLoop, captureVars, callVars, encodeVars, queueVars, threadVars,
       poolVars, leaseVars
  <2>5. CASE RemoveHandlers \/ LookForCallbacks \/ Block \/ WakeUp \/ ClearCapture
    BY <2>5, LeasesStay DEF RemoveHandlers, LookForCallbacks, Block, WakeUp, ClearCapture, AskToStop,
       captureVars, callVars, encodeVars, queueVars, threadVars, poolVars, leaseVars
  <2>6. CASE DrainEncoder \/ NothingToDrain \/ EncoderDrained \/ NeverStarted
    BY <2>6, LeasesStay DEF DrainEncoder, FinalizeBegins, NothingToDrain, EncoderDrained, NeverStarted,
       captureVars, callVars, encodeVars, queueVars, threadVars, poolVars, leaseVars
  <2> QED  BY <2>1, <2>2, <2>3, <2>4, <2>5, <2>6, LeasesOfCallback, LeasesOfThread, LeasesOfDeliver
           DEF Next, Gone, Recorder
<1> QED  BY Shapes, <1>1, <1>2, PTL DEF Spec

-----------------------------------------------------------------------------
(* Pictures.  A texture that is leased shows the frame it was leased for,  *)
(* and the NV12 texture that of the sample the transform has.              *)

PictureInv ==
  /\ frameCall.pc = "copied" => \A t \in frameCall.texture : picture[t] = frameCall.stamp
  /\ \A i \in DOMAIN queue : \A t \in queue[i].texture : picture[t] = queue[i].stamp
  /\ step = "frame" => \A t \in frame.texture : picture[t] = frame.stamp

pictureVars == <<picture, frameCall, queue, frame, step>>

(* The thread gives the transform a sample only when it has none, and      *)
(* waits for its packet.                                                   *)
Before == {"none", "starting", "wait", "frame"}
StepInv ==
  /\ step \in Before =>
       input = <<>> /\ output = <<>> /\ submitted = drained /\ drain.by = "none"
  /\ step = "drain" =>
       /\ drain.by = "thread" /\ drain.got = <<>> /\ drain.target = 1
       /\ submitted = drained + 1 /\ Len(input) + Len(output) = 1
  /\ drain.by = "thread" => step = "drain"
  /\ worker = "idle" => step = "none"
  /\ worker \in {"finalizing", "draining", "ended", "gone"} => step = "done"

Honest(packets) == \A i \in DOMAIN packets : packets[i].picture = packets[i].stamp

SampleInv ==
  /\ \A i \in DOMAIN input : input[i] = nv12
  /\ Honest(output) /\ Honest(drain.got) /\ Honest(stored)

EncodeInv == StepInv /\ SampleInv

encodeInvVars == <<step, worker, input, output, submitted, drained, drain, nv12, stored>>

(* Steps elsewhere do not matter.                                          *)
LEMMA PicturesStay == PictureInv /\ UNCHANGED pictureVars => PictureInv'
BY DEF PictureInv, pictureVars

(* A callback writes only to the texture that it alone has.                *)
LEMMA PicturesOfCallback ==
  ASSUME ShapeInv, LeaseInv, PictureInv, FrameThread
  PROVE  PictureInv'
<1> USE DEF ShapeInv, CallShape
<1>1. UNCHANGED <<queue, frame, step>>
  BY DEF FrameThread, encodeVars, queueVars, threadVars
<1>2. CASE CopyTexture
  <2>1. PICK t \in Textures : frameCall.texture = {t} /\ CopyFrame(t, frameCall.stamp)
    BY <1>2 DEF CopyTexture, LeaseInv, CallLease
  <2>2. picture' = [picture EXCEPT ![t] = frameCall.stamp]
    BY <2>1 DEF CopyFrame
  <2>3. frameCall'.texture = {t} /\ frameCall'.stamp = frameCall.stamp
    BY <1>2, <2>1 DEF CopyTexture, Goto
  <2>4. picture'[t] = frameCall.stamp /\ \A u \in Textures \ {t} : picture'[u] = picture[u]
    BY <2>2 DEF PoolShape
  <2>5. \A i \in DOMAIN queue : queue[i].texture \subseteq Textures \ {t}
    BY <2>1 DEF LeaseInv, Taken, PoolShape
  <2>6. frame.texture \subseteq Textures \ {t}
    BY <2>1 DEF LeaseInv, Taken, PoolShape
  <2> QED  BY <1>1, <2>3, <2>4, <2>5, <2>6 DEF PictureInv
<1>3. CASE ~CopyTexture
  <2>1. UNCHANGED picture
    BY <1>3 DEF FrameThread, Callbacks, FrameArrives, SeesRunning, TakeFrame, NoMoreFrames,
       FrameIsUnusable, AcquireTexture, Reuse, Reserve, TextureIsCreated, CreateTexture, CreateFails,
       CallbackFails, Return, LeaveFrame, ItemCloses, ClosedSeesRunning, ReportClosed, LeaveClosed, poolVars
  <2>2. frameCall'.pc = "copied" => UNCHANGED frameCall
    <3>1. CASE \/ FrameArrives \/ SeesRunning \/ TakeFrame \/ NoMoreFrames \/ FrameIsUnusable
               \/ LeaveFrame \/ CallbackFails
      BY <3>1 DEF FrameArrives, SeesRunning, TakeFrame, NoMoreFrames, FrameIsUnusable, CallbackFails,
         LeaveFrame, Goto, LookAgain, NoCall
    <3>2. CASE AcquireTexture \/ TextureIsCreated
      BY <3>2 DEF AcquireTexture, TextureIsCreated, Goto, LookAgain, NoCall
    <3>3. CASE ItemCloses \/ ClosedSeesRunning \/ ReportClosed \/ LeaveClosed
      BY <3>3 DEF ItemCloses, ClosedSeesRunning, ReportClosed, LeaveClosed
    <3> QED  BY <1>3, <3>1, <3>2, <3>3 DEF FrameThread, Callbacks
  <2> QED  BY <1>1, <2>1, <2>2 DEF PictureInv
<1> QED  BY <1>2, <1>3

(* The thread writes to no texture of the pool.                            *)
LEMMA PicturesOfThread ==
  ASSUME ShapeInv, PictureInv, EncodeThread \/ Transform
  PROVE  PictureInv'
<1>1. UNCHANGED frameCall
  BY DEF EncodeThread, Transform, captureVars, callVars
<1>2. CASE PopFrame
  <2>1. UNCHANGED picture /\ frame' = queue[1] /\ queue # <<>>
    BY <1>2 DEF PopFrame, poolVars, ShapeInv, ThreadShape
  <2>2. \A i \in DOMAIN queue' : i + 1 \in DOMAIN queue /\ queue'[i] = queue[i + 1]
    BY <1>2 DEF PopFrame, ShapeInv, ThreadShape
  <2>3. 1 \in DOMAIN queue
    BY <2>1 DEF ShapeInv, ThreadShape
  <2> QED  BY <1>1, <2>1, <2>2, <2>3 DEF PictureInv
<1>3. CASE ~PopFrame
  <2>1. UNCHANGED <<queue, picture>>
    <3>1. ASSUME NEW kind, DrainEnds(kind) PROVE UNCHANGED <<queue, picture>>
      BY <3>1 DEF DrainEnds, Fail, Return, queueVars, poolVars
    <3>2. CASE DrainNext
      BY <3>1, <3>2 DEF DrainNext, FetchPacket, DrainTimesOut, DrainFails, DrainCompletes,
         AppendDrainedPackets, queueVars, poolVars
    <3>3. CASE Encode \/ InitializeCom \/ ThreadEnds \/ SubmitFrame
      BY <3>3 DEF Encode, InitializeCom, ThreadEnds, SubmitFrame, Fail, queueVars, poolVars
    <3>4. CASE FrameRefused \/ SubmitFails \/ LostAfterSubmit
      BY <3>4 DEF FrameRefused, SubmitFails, LostAfterSubmit, Fail, Return
    <3> QED  BY <1>3, <3>2, <3>3, <3>4 DEF EncodeThread, Transform, ThreadNext
  <2>2. step' = "frame" => UNCHANGED <<frame, step>>
    <3>1. ASSUME NEW kind, DrainEnds(kind) PROVE step' = "frame" => UNCHANGED <<frame, step>>
      BY <3>1 DEF DrainEnds, Fail, threadVars
    <3>2. CASE DrainNext
      BY <3>1, <3>2 DEF DrainNext, FetchPacket, DrainTimesOut, DrainFails, DrainCompletes,
         AppendDrainedPackets, threadVars
    <3>3. CASE Encode \/ InitializeCom \/ ThreadEnds \/ SubmitFrame
      BY <3>3 DEF Encode, InitializeCom, ThreadEnds, SubmitFrame, Fail, threadVars
    <3>4. CASE FrameRefused \/ SubmitFails \/ LostAfterSubmit
      BY <3>4 DEF FrameRefused, SubmitFails, LostAfterSubmit, Fail
    <3> QED  BY <1>3, <3>2, <3>3, <3>4 DEF EncodeThread, Transform, ThreadNext
  <2> QED  BY <1>1, <2>1, <2>2 DEF PictureInv
<1> QED  BY <1>2, <1>3

(* A frame is delivered with its picture.                                  *)
LEMMA PicturesOfDeliver ==
  ASSUME ShapeInv, PictureInv, Deliver
  PROVE  PictureInv'
<1> USE DEF Deliver, ShapeInv, CallShape
<1>1. UNCHANGED <<frame, step>> /\ frameCall'.pc # "copied"
  BY DEF threadVars, LookAgain, NoCall
<1>2. CASE ~accepting
  BY <1>1, <1>2 DEF Return, PictureInv
<1>3. CASE accepting
  <2> DEFINE new == [stamp |-> frameCall.stamp, texture |-> frameCall.texture]
  <2>1. Push(new) /\ \A t \in new.texture : picture[t] = new.stamp
    BY <1>3 DEF PictureInv
  <2> HIDE DEF new
  <2>2. \A i \in DOMAIN queue' : queue'[i] = new \/ (i \in DOMAIN queue /\ queue'[i] = queue[i])
    BY <2>1 DEF Push, ThreadShape
  <2>3. UNCHANGED picture
    BY <2>1 DEF Push, Return
  <2> QED  BY <1>1, <2>1, <2>2, <2>3 DEF PictureInv
<1> QED  BY <1>2, <1>3

(* Textures in use show the frames they are used for.                      *)
LEMMA Pictures == Spec => []PictureInv
<1>1. Init => PictureInv
  BY DEF Init, CaptureInit, EncodeInit, NoCall, PictureInv
<1>2. ShapeInv /\ LeaseInv /\ PictureInv /\ [Next]_vars => PictureInv'
  <2> SUFFICES ASSUME ShapeInv, LeaseInv, PictureInv, [Next]_vars PROVE PictureInv'
    OBVIOUS
  <2>1. CASE DrainQueuedFrames \/ Reset
    BY <2>1 DEF DrainQueuedFrames, Reset, ClearQueuedFrames, Return, PictureInv,
       captureVars, callVars, threadVars, poolVars
  <2>2. CASE Count \/ Notify
    BY <2>2 DEF Count, Notify, LookAgain, NoCall, PictureInv, encodeVars, queueVars, threadVars, poolVars
  <2>3. CASE Windows \/ WakeUpUnasked \/ UNCHANGED vars
    BY <2>3, PicturesStay DEF Windows, Compose, WakeUpUnasked, vars, captureVars, callVars, encodeVars,
       queueVars, threadVars, poolVars, pictureVars
  <2>4. CASE CaptureStarts \/ CaptureCannotStart \/ Poll \/ LeaveLoop
    BY <2>4, PicturesStay DEF CaptureStarts, StartCapture, CaptureCannotStart,
       AskToStop, Poll, PollFinds, LeaveLoop, captureVars, callVars, encodeVars, queueVars, threadVars,
       poolVars, pictureVars
  <2>5. CASE RemoveHandlers \/ LookForCallbacks \/ Block \/ WakeUp \/ ClearCapture
    BY <2>5, PicturesStay DEF RemoveHandlers, LookForCallbacks, Block, WakeUp, ClearCapture, AskToStop,
       captureVars, callVars, encodeVars, queueVars, threadVars, poolVars, pictureVars
  <2>6. CASE DrainEncoder \/ NothingToDrain \/ EncoderDrained \/ NeverStarted
    BY <2>6, PicturesStay DEF DrainEncoder, FinalizeBegins, NothingToDrain, EncoderDrained, NeverStarted,
       captureVars, callVars, encodeVars, queueVars, threadVars, poolVars, pictureVars
  <2>7. CASE StartVideo
    BY <2>7 DEF StartVideo, StartThread, PictureInv, captureVars, callVars, poolVars
  <2> QED  BY <2>1, <2>2, <2>3, <2>4, <2>5, <2>6, <2>7, PicturesOfCallback, PicturesOfThread,
           PicturesOfDeliver DEF Next, Gone, Recorder
<1> QED  BY Shapes, Leasing, <1>1, <1>2, PTL DEF Spec

-----------------------------------------------------------------------------
(* Packets.                                                                *)

(* Steps elsewhere do not matter.                                          *)
LEMMA EncodeStays == EncodeInv /\ UNCHANGED encodeInvVars => EncodeInv'
BY DEF EncodeInv, StepInv, SampleInv, Honest, encodeInvVars

(* Packets that show their frames, with one more,                          *)
LEMMA HonestAppend ==
  ASSUME NEW packets \in Seq(Packets), NEW packet \in Packets, Honest(packets),
         packet.picture = packet.stamp
  PROVE  Honest(Append(packets, packet))
BY DEF Honest

(* without their first,                                                    *)
LEMMA HonestTail ==
  ASSUME NEW packets \in Seq(Packets), packets # <<>>, Honest(packets)
  PROVE  Honest(Tail(packets)) /\ Head(packets).picture = Head(packets).stamp
BY DEF Honest

(* or with the first of others, still do.                                  *)
LEMMA HonestPrefix ==
  ASSUME NEW a \in Seq(Packets), NEW b \in Seq(Packets), NEW n \in 0..Len(b), Honest(a), Honest(b)
  PROVE  Honest(a \o SubSeq(b, 1, n))
<1> DEFINE c == SubSeq(b, 1, n)
<1>1. c \in Seq(Packets) /\ Len(c) = n /\ \A i \in 1..n : c[i] = b[i]
  OBVIOUS
<1>2. DOMAIN b = 1..Len(b) /\ DOMAIN a = 1..Len(a) /\ Len(a) \in Nat /\ n \in Nat
  OBVIOUS
<1> HIDE DEF c
<1>3. DOMAIN (a \o c) = 1..(Len(a) + n)
  BY <1>1, <1>2
<1>4. ASSUME NEW i \in 1..(Len(a) + n) PROVE (a \o c)[i].picture = (a \o c)[i].stamp
  <2>1. CASE i <= Len(a)
    <3>1. (a \o c)[i] = a[i] /\ i \in DOMAIN a
      BY <1>1, <1>2, <1>4, <2>1
    <3> QED  BY <3>1 DEF Honest
  <2>2. CASE i > Len(a)
    <3>1. (a \o c)[i] = c[i - Len(a)] /\ i - Len(a) \in 1..n
      BY <1>1, <1>2, <1>4, <2>2
    <3>2. i - Len(a) \in DOMAIN b /\ (a \o c)[i] = b[i - Len(a)]
      BY <1>1, <1>2, <3>1
    <3> QED  BY <3>2 DEF Honest
  <2>3. i \in Int /\ Len(a) \in Int
    BY <1>2
  <2>4. i <= Len(a) \/ i > Len(a)
    BY <2>3
  <2> QED  BY <2>1, <2>2, <2>4
<1> QED  BY <1>3, <1>4 DEF Honest, c

(* A drain that ends honestly leaves an empty transform to a thread that   *)
(* goes on, and no drain of the thread.                                    *)
LEMMA DrainEndsEncode ==
  ASSUME ShapeInv, EncodeInv, drain.by # "none", UNCHANGED <<worker, nv12>>,
         NEW kind \in {"none", "runtime", "other"}, DrainEnds(kind),
         Honest(output'), Honest(stored'), \A i \in DOMAIN input' : input'[i] = nv12,
         drain.by = "thread" /\ kind = "none" =>
           input' = <<>> /\ output' = <<>> /\ submitted' = drained'
  PROVE  EncodeInv'
<1>1. drain'.by = "none" /\ drain'.got = <<>>
  BY DEF DrainEnds, NoDrain
<1>2. SampleInv'
  BY <1>1 DEF SampleInv, Honest
<1>3. CASE drain.by = "recorder"
  <2>1. step = "done"
    BY <1>3 DEF EncodeInv, StepInv, Before, ShapeInv, ThreadShape, Steps
  <2> QED  BY <1>1, <1>2, <1>3, <2>1 DEF EncodeInv, StepInv, Before, DrainEnds, threadVars
<1>4. CASE drain.by = "thread"
  <2>1. step = "drain" /\ worker \notin {"finalizing", "draining", "ended", "gone"}
    BY <1>4 DEF EncodeInv, StepInv
  <2>2. IF kind = "none" THEN step' = "wait" ELSE step' = "done"
    BY <1>4 DEF DrainEnds, Fail
  <2> QED  BY <1>1, <1>2, <1>4, <2>1, <2>2 DEF EncodeInv, StepInv, Before
<1> QED  BY <1>3, <1>4 DEF ShapeInv, EncoderShape, DrainShape

(* The same when the packets are stored.                                   *)
LEMMA AppendEncode ==
  ASSUME ShapeInv, EncodeInv, drain.by # "none", UNCHANGED <<worker, nv12, submitted>>,
         NEW got \in Seq(Packets), Honest(got), AppendDrainedPackets(got),
         Honest(output'), \A i \in DOMAIN input' : input'[i] = nv12,
         drain.by = "thread" => input' = <<>> /\ output' = <<>> /\ submitted' = drained'
  PROVE  EncodeInv'
<1>1. PICK n \in 0..Len(got) :
        stored' = stored \o SubSeq(got, 1, n) /\ (DrainEnds("none") \/ DrainEnds("other"))
  BY DEF AppendDrainedPackets
<1>2. Honest(stored')
  BY <1>1, HonestPrefix DEF EncodeInv, SampleInv, ShapeInv, EncoderShape
<1> QED  BY <1>1, <1>2, DrainEndsEncode

(* The thread and the transform keep packets and stamps together.          *)
LEMMA EncodeOfThread ==
  ASSUME ShapeInv, PictureInv, EncodeInv, EncodeThread \/ Transform
  PROVE  EncodeInv'
<1> USE DEF ShapeInv
<1>1. UNCHANGED worker /\ worker # "idle"
  <2>1. \/ step # "none" \/ input # <<>> \/ drain.by # "none"
    BY DEF EncodeThread, Transform, ThreadNext, DrainNext, Encode, InitializeCom, PopFrame, ThreadEnds,
       FrameRefused, SubmitFails, LostAfterSubmit, SubmitFrame, FetchPacket, DrainTimesOut, DrainFails,
       DrainCompletes
  <2>2. step # "none"
    BY <2>1 DEF EncodeInv, StepInv, Before
  <2> QED  BY <2>2 DEF EncodeInv, StepInv, EncodeThread, Transform, recorderVars
<1>2. CASE Encode
  <2>1. input # <<>> /\ step \notin Before /\ UNCHANGED <<step, nv12, submitted, drained, drain, stored>>
    BY <1>2 DEF Encode, EncodeInv, StepInv, threadVars
  <2>2. Head(input) = nv12 /\ Head(input) \in Nat
    BY <2>1 DEF EncodeInv, SampleInv, EncoderShape
  <2>3. [stamp |-> Head(input), picture |-> nv12] \in Packets
    BY <2>2 DEF EncoderShape, Packets
  <2>4. Honest(output')
    BY <1>2, <2>2, <2>3, HonestAppend DEF Encode, EncodeInv, SampleInv, EncoderShape
  <2>5. \A i \in DOMAIN input' : input'[i] = nv12
    BY <1>2, <2>1 DEF Encode, EncodeInv, SampleInv, EncoderShape
  <2>6. Len(input') + Len(output') = Len(input) + Len(output)
    BY <1>2, <2>1, <2>3 DEF Encode, EncoderShape
  <2> QED  BY <1>1, <2>1, <2>4, <2>5, <2>6 DEF EncodeInv, StepInv, SampleInv, Before, Honest
<1>3. CASE InitializeCom \/ PopFrame \/ ThreadEnds \/ FrameRefused
  <2>1. UNCHANGED <<input, output, submitted, drained, drain, nv12, stored>>
    BY <1>3 DEF InitializeCom, PopFrame, ThreadEnds, FrameRefused, encoderVars
  <2>2. step \in Before /\ step' \in {"wait", "frame", "done"} /\ step # "done"
    BY <1>3 DEF InitializeCom, PopFrame, ThreadEnds, FrameRefused, Fail, Before
  <2> QED  BY <1>1, <2>1, <2>2 DEF EncodeInv, StepInv, SampleInv, Before, Honest
<1>4. CASE SubmitFails \/ LostAfterSubmit \/ SubmitFrame
  <2>1. step = "frame" /\ Convert /\ frame \in Frames
    BY <1>4 DEF SubmitFails, LostAfterSubmit, SubmitFrame, ThreadShape
  <2>2. nv12' = frame.stamp
    <3>1. frame.texture # {}
      BY <2>1 DEF Frames
    <3> QED  BY <2>1, <3>1 DEF Convert, PictureInv
  <2>3. /\ input = <<>> /\ output = <<>> /\ submitted = drained /\ drain.by = "none"
        /\ worker \notin {"finalizing", "draining", "ended", "gone"}
    BY <2>1 DEF EncodeInv, StepInv, Before
  <2>4. CASE SubmitFails
    <3>1. step' = "done" /\ UNCHANGED <<input, output, submitted, drained, drain, stored>>
      BY <2>4 DEF SubmitFails, Fail
    <3> QED  BY <1>1, <2>3, <3>1 DEF EncodeInv, StepInv, SampleInv, Before, Honest
  <2>5. CASE LostAfterSubmit \/ SubmitFrame
    <3>1. input' = <<frame.stamp>> /\ submitted' = submitted + 1 /\ UNCHANGED <<output, drained, stored>>
      BY <2>3, <2>5 DEF LostAfterSubmit, SubmitFrame, ProcessInput
    <3>2. \A i \in DOMAIN input' : input'[i] = nv12'
      BY <2>2, <3>1
    <3>3. CASE LostAfterSubmit
      <4>1. step' = "done" /\ UNCHANGED drain
        BY <3>3 DEF LostAfterSubmit, Fail
      <4> QED  BY <1>1, <2>3, <3>1, <3>2, <4>1 DEF EncodeInv, StepInv, SampleInv, Before, Honest
    <3>4. CASE SubmitFrame
      <4>1. drain' = [by |-> "thread", got |-> <<>>, target |-> Target + 1, result |-> "none"]
        BY <3>4 DEF SubmitFrame, NoDrain
      <4>2. Target = 0
        BY <2>3 DEF Target, EncoderShape
      <4>3. Len(input') + Len(output') = 1 /\ step' = "drain"
        BY <2>3, <3>1, <3>4 DEF SubmitFrame
      <4> QED  BY <1>1, <2>3, <3>1, <3>2, <4>1, <4>2, <4>3 DEF EncodeInv, StepInv, SampleInv, Before, Honest
    <3> QED  BY <2>5, <3>3, <3>4
  <2> QED  BY <1>4, <2>4, <2>5
<1>5. CASE DrainNext
  <2>1. drain.by # "none" /\ UNCHANGED <<nv12, submitted, input>>
    BY <1>5 DEF DrainNext, FetchPacket, DrainTimesOut, DrainFails, DrainCompletes
  <2>2. drain.got \in Seq(Packets) /\ Honest(drain.got) /\ \A i \in DOMAIN input' : input'[i] = nv12
    BY <2>1 DEF EncodeInv, SampleInv, EncoderShape, DrainShape
  <2>3. CASE FetchPacket
    <3> DEFINE got == Append(drain.got, Head(output))
    <3>1. output # <<>> /\ output' = Tail(output) /\ drained' = drained + 1
      BY <2>3 DEF FetchPacket
    <3>2. Honest(output') /\ got \in Seq(Packets) /\ Honest(got)
      <4>1. Head(output) \in Packets
        BY <3>1 DEF EncoderShape
      <4>2. Honest(Tail(output)) /\ Head(output).picture = Head(output).stamp
        BY <3>1, HonestTail DEF EncodeInv, SampleInv, EncoderShape
      <4> QED  BY <2>2, <3>1, <4>1, <4>2, HonestAppend
    <3>3. drain.by = "thread" =>
            Enough(got) /\ input' = <<>> /\ output' = <<>> /\ submitted' = drained'
      <4> SUFFICES ASSUME drain.by = "thread"
                   PROVE  Enough(got) /\ input' = <<>> /\ output' = <<>> /\ submitted' = drained'
        OBVIOUS
      <4>1. drain.got = <<>> /\ drain.target = 1 /\ submitted = drained + 1 /\ Len(input) + Len(output) = 1
        BY DEF EncodeInv, StepInv
      <4>2. Len(output) >= 1 /\ Len(input) \in Nat /\ Len(output) \in Nat
        BY <3>1 DEF EncoderShape
      <4>3. Len(output) = 1 /\ Len(input) = 0
        <5>1. Len(input) + Len(output) = 1
          BY <4>1
        <5>2. \A m, n \in Nat : m + n = 1 /\ n >= 1 => n = 1 /\ m = 0
          OBVIOUS
        <5> QED  BY <4>2, <5>1, <5>2
      <4>4. Len(got) = 1
        BY <4>1
      <4>5. input = <<>> /\ Tail(output) = <<>>
        BY <3>1, <4>3 DEF EncoderShape
      <4> QED  BY <2>1, <3>1, <4>1, <4>4, <4>5 DEF Enough
    <3>4. CASE Enough(got)
      <4>1. AppendDrainedPackets(got)
        BY <2>3, <3>4 DEF FetchPacket
      <4> HIDE DEF got
      <4> QED  BY <1>1, <2>1, <2>2, <3>2, <3>3, <4>1, AppendEncode
    <3>5. CASE ~Enough(got)
      <4>1. drain' = [drain EXCEPT !.got = got] /\ UNCHANGED <<threadVars, stored>>
        BY <2>3, <3>5 DEF FetchPacket
      <4>2. drain.by = "recorder" /\ step = "done"
        BY <2>1, <3>3, <3>5 DEF EncodeInv, StepInv, EncoderShape, DrainShape, Before, ThreadShape, Steps
      <4> HIDE DEF got
      <4>3. drain'.by = "recorder" /\ drain'.got = got
        BY <4>1, <4>2 DEF EncoderShape, DrainShape
      <4> QED  BY <1>1, <2>1, <2>2, <3>2, <4>1, <4>2, <4>3 DEF EncodeInv, StepInv, SampleInv, Before, Honest,
               threadVars
    <3> QED  BY <3>4, <3>5
  <2>4. CASE DrainTimesOut \/ DrainFails \/ DrainCompletes
    <3>1. UNCHANGED <<output, drained>>
      BY <2>4 DEF DrainTimesOut, DrainFails, DrainCompletes
    <3>2. drain.by = "thread" => drain.got = <<>>
      BY DEF EncodeInv, StepInv
    <3>3. \/ AppendDrainedPackets(drain.got) /\ drain.by # "thread"
          \/ DrainEnds("runtime") /\ UNCHANGED stored
      BY <2>4, <3>2 DEF DrainTimesOut, DrainFails, DrainCompletes
    <3>4. Honest(output') /\ (UNCHANGED stored => Honest(stored'))
      BY <3>1 DEF EncodeInv, SampleInv, Honest
    <3>5. CASE AppendDrainedPackets(drain.got) /\ drain.by # "thread"
      BY <1>1, <2>1, <2>2, <3>4, <3>5, AppendEncode
    <3>6. CASE DrainEnds("runtime") /\ UNCHANGED stored
      BY <1>1, <2>1, <2>2, <3>4, <3>6, DrainEndsEncode
    <3> QED  BY <3>3, <3>5, <3>6
  <2> QED  BY <1>5, <2>3, <2>4 DEF DrainNext
<1> QED  BY <1>2, <1>3, <1>4, <1>5 DEF EncodeThread, Transform, ThreadNext

(* So this always holds.                                                   *)
LEMMA Encodings == Spec => []EncodeInv
<1>1. Init => EncodeInv
  BY DEF Init, EncodeInit, NoDrain, EncodeInv, StepInv, SampleInv, Before, Honest
<1>2. ShapeInv /\ PictureInv /\ EncodeInv /\ [Next]_vars => EncodeInv'
  <2> SUFFICES ASSUME ShapeInv, PictureInv, EncodeInv, [Next]_vars PROVE EncodeInv'
    OBVIOUS
  <2>1. CASE FrameThread \/ Windows \/ Deliver \/ Count \/ Notify \/ UNCHANGED vars
    BY <2>1, EncodeStays DEF FrameThread, Windows, Deliver, Count, Notify, vars, encodeVars, threadVars,
       encoderVars, recorderVars, encodeInvVars
  <2>2. CASE StartVideo
    BY <2>2 DEF StartVideo, StartThread, To, encoderVars, EncodeInv, StepInv, SampleInv, Before, Honest,
       ShapeInv, EncoderShape, DrainShape
  <2>3. ASSUME UNCHANGED <<step, encoderVars, stored>>, worker' # "idle",
               worker' \in {"finalizing", "draining", "ended", "gone"} => step = "done"
        PROVE  EncodeInv'
    BY <2>3 DEF encoderVars, EncodeInv, StepInv, SampleInv, Honest
  <2>4. CASE CaptureStarts \/ CaptureCannotStart \/ Poll \/ LeaveLoop
    BY <2>3, <2>4 DEF CaptureStarts, CaptureCannotStart, AskToStop, Poll, LeaveLoop, To, encodeVars,
       threadVars, recorderVars, EncodeInv, StepInv
  <2>5. CASE RemoveHandlers \/ LookForCallbacks \/ Block \/ WakeUp \/ WakeUpUnasked \/ ClearCapture
    BY <2>3, <2>5 DEF RemoveHandlers, LookForCallbacks, Block, WakeUp, WakeUpUnasked, ClearCapture,
       AskToStop, To, encodeVars, threadVars
  <2>6. CASE DrainQueuedFrames \/ NothingToDrain \/ EncoderDrained \/ NeverStarted \/ Reset
    BY <2>3, <2>6 DEF DrainQueuedFrames, NothingToDrain, EncoderDrained, NeverStarted, Reset, Joined, To,
       encodeVars, threadVars, EncodeInv, StepInv
  <2>7. CASE DrainEncoder
    <3>1. drain' = [by |-> "recorder", got |-> <<>>, target |-> Target, result |-> "none"]
      BY <2>7 DEF DrainEncoder, FinalizeBegins, NoDrain
    <3>2. /\ step = "done" /\ worker' = "draining"
          /\ UNCHANGED <<step, input, output, submitted, drained, nv12, stored>>
      BY <2>7 DEF DrainEncoder, To, FinalizeBegins, EncodeInv, StepInv, threadVars
    <3> QED  BY <3>1, <3>2 DEF EncodeInv, StepInv, SampleInv, Before, Honest
  <2> QED  BY <2>1, <2>2, <2>4, <2>5, <2>6, <2>7, EncodeOfThread DEF Next, Gone, Recorder
<1> QED  BY Shapes, Pictures, <1>1, <1>2, PTL DEF Spec

\* A packet shows the picture of its stamp, for any pool, queue and number
\* of frames: no texture is written again while a frame in it is needed, and
\* the one NV12 texture not before its packet is out
\* (BgraTexturePool.cpp:18, VideoRecordingSession.cpp:297).
THEOREM PacketsAreTrue == Spec => []PacketsShowTheirFrames
<1>1. EncodeInv => PacketsShowTheirFrames
  BY DEF EncodeInv, SampleInv, Honest, PacketsShowTheirFrames
<1> QED  BY Encodings, <1>1, PTL

-----------------------------------------------------------------------------
(* Where the thread is, and what it leaves behind when it was stopped.     *)

ThreadInv ==
  /\ accepting <=> thread = "running"
  /\ thread \in {"idle", "running", "stopping", "stopped", "failed"}
  /\ thread = "idle" <=> step = "none"
  /\ thread \in {"stopped", "failed"} <=> step = "done"
  /\ thread = "stopped" =>
       queue = <<>> /\ input = <<>> /\ output = <<>> /\ drain.got = <<>>
  /\ drain.by = "none" => drain.got = <<>>
  /\ worker = "idle" => thread = "idle"
  /\ worker \in {"finalizing", "draining", "ended"} /\ thread = "failed" => failed
  /\ worker = "abandoning" => failed

threadInvVars == <<accepting, thread, step, queue, input, output, drain, worker, failed>>

(* Steps elsewhere do not matter.                                          *)
LEMMA ThreadInvStays == ThreadInv /\ UNCHANGED threadInvVars => ThreadInv'
BY DEF ThreadInv, threadInvVars

(* Neither does the end of a drain lose anything of a thread that stopped, *)
(* nor can such a thread's encoder be drained of anything.                 *)
LEMMA ThreadOfDrain ==
  ASSUME ShapeInv, EncodeInv, ThreadInv, DrainNext, UNCHANGED recorderVars
  PROVE  ThreadInv'
<1> USE DEF ShapeInv, ThreadShape
<1>1. UNCHANGED <<worker, failed, queue, input>>
  <2>1. ASSUME NEW kind, DrainEnds(kind) PROVE UNCHANGED queue
    BY <2>1 DEF DrainEnds, Fail, queueVars
  <2> QED  BY <2>1 DEF DrainNext, FetchPacket, DrainTimesOut, DrainFails, DrainCompletes,
           AppendDrainedPackets, recorderVars, queueVars
<1>2. drain.by # "none" /\ (output' = output \/ output # <<>>)
  BY DEF DrainNext, FetchPacket, DrainTimesOut, DrainFails, DrainCompletes
<1>5. drain'.by = "none" => drain'.got = <<>>
  <2>1. ASSUME NEW kind, DrainEnds(kind) PROVE drain'.got = <<>>
    BY <2>1 DEF DrainEnds, NoDrain
  <2>2. (\E kind : DrainEnds(kind)) \/ (\E got : drain' = [drain EXCEPT !.got = got])
    BY DEF DrainNext, FetchPacket, DrainTimesOut, DrainFails, DrainCompletes, AppendDrainedPackets
  <2> QED  BY <1>2, <2>1, <2>2 DEF EncoderShape, DrainShape
<1>3. CASE drain.by = "recorder"
  <2>1. step = "done"
    BY <1>3 DEF EncodeInv, StepInv, Before, Steps
  <2>2. UNCHANGED <<accepting, thread, step>>
    BY <1>3 DEF DrainNext, FetchPacket, DrainTimesOut, DrainFails, DrainCompletes, AppendDrainedPackets,
       DrainEnds, queueVars, threadVars
  <2>3. thread = "stopped" => output' = <<>> /\ drain'.got = <<>>
    <3> SUFFICES ASSUME thread = "stopped" PROVE output' = <<>> /\ drain'.got = <<>>
      OBVIOUS
    <3>1. output = <<>> /\ drain.got = <<>> /\ output' = <<>>
      BY <1>2 DEF ThreadInv
    <3>2. \E kind \in {"none", "runtime", "other"} : DrainEnds(kind)
      BY <3>1 DEF DrainNext, FetchPacket, DrainTimesOut, DrainFails, DrainCompletes, AppendDrainedPackets
    <3> QED  BY <3>1, <3>2 DEF DrainEnds, NoDrain
  <2> QED  BY <1>1, <1>5, <2>1, <2>2, <2>3 DEF ThreadInv
<1>4. CASE drain.by # "recorder"
  <2>1. step = "drain" /\ thread \in {"running", "stopping"}
    BY <1>2, <1>4 DEF EncodeInv, StepInv, Before, EncoderShape, DrainShape, ThreadInv
  <2>2. worker \notin {"idle", "finalizing", "draining", "ended"}
    BY <2>1 DEF EncodeInv, StepInv
  <2>3. ASSUME NEW kind, DrainEnds(kind) PROVE ThreadInv'
    <3>1. CASE kind = "none"
      BY <1>1, <1>4, <1>5, <2>1, <2>2, <2>3, <3>1 DEF DrainEnds, ThreadInv, queueVars
    <3>2. CASE kind # "none"
      BY <1>1, <1>4, <1>5, <2>1, <2>2, <2>3, <3>2 DEF DrainEnds, Fail, ThreadInv
    <3> QED  BY <3>1, <3>2
  <2>4. CASE UNCHANGED <<queueVars, threadVars>>
    BY <1>1, <1>5, <2>1, <2>4 DEF ThreadInv, queueVars, threadVars
  <2>5. UNCHANGED <<queueVars, threadVars>> \/ \E kind : DrainEnds(kind)
    BY DEF DrainNext, FetchPacket, DrainTimesOut, DrainFails, DrainCompletes, AppendDrainedPackets
  <2> QED  BY <2>3, <2>4, <2>5
<1> QED  BY <1>3, <1>4

(* The thread's own steps,                                                 *)
LEMMA ThreadOfThread ==
  ASSUME ShapeInv, EncodeInv, ThreadInv, EncodeThread \/ Transform
  PROVE  ThreadInv'
<1>1. UNCHANGED recorderVars
  BY DEF EncodeThread, Transform
<1>2. CASE Encode
  BY <1>1, <1>2 DEF Encode, ThreadInv, queueVars, threadVars, recorderVars
<1>3. CASE ThreadNext
  <2>1. step \in {"starting", "wait", "frame"} /\ thread \in {"running", "stopping"}
    BY <1>3 DEF ThreadNext, InitializeCom, PopFrame, ThreadEnds, FrameRefused, SubmitFails,
       LostAfterSubmit, SubmitFrame, ThreadInv
  <2>2. worker \notin {"idle", "finalizing", "draining", "ended"}
    BY <2>1 DEF EncodeInv, StepInv
  <2>3. CASE ThreadEnds
    BY <1>1, <2>1, <2>2, <2>3 DEF ThreadEnds, ThreadInv, EncodeInv, StepInv, SampleInv, Before, encoderVars,
       queueVars, recorderVars
  <2>4. CASE InitializeCom \/ PopFrame
    BY <1>1, <2>1, <2>2, <2>4 DEF InitializeCom, Fail, PopFrame, ThreadInv, queueVars, encoderVars,
       recorderVars
  <2>6. CASE SubmitFrame
    BY <1>1, <2>1, <2>2, <2>6 DEF SubmitFrame, NoDrain, ThreadInv, queueVars, recorderVars
  <2>5. CASE FrameRefused \/ SubmitFails \/ LostAfterSubmit
    BY <1>1, <2>1, <2>2, <2>5 DEF FrameRefused, SubmitFails, LostAfterSubmit, Fail, ThreadInv,
       encoderVars, recorderVars
  <2> QED  BY <1>3, <2>3, <2>4, <2>5, <2>6 DEF ThreadNext
<1> QED  BY <1>1, <1>2, <1>3, ThreadOfDrain DEF EncodeThread, Transform

(* and the recorder's.                                                     *)
LEMMA ThreadOfRecorder ==
  ASSUME ShapeInv, EncodeInv, ThreadInv, Recorder \/ WakeUpUnasked
  PROVE  ThreadInv'
<1> USE DEF To
<1>1. CASE StartVideo
  BY <1>1 DEF StartVideo, StartThread, ThreadInv, encoderVars
<1>2. CASE CaptureStarts \/ Poll \/ LeaveLoop \/ RemoveHandlers \/ LookForCallbacks
  BY <1>2 DEF CaptureStarts, Poll, LeaveLoop, RemoveHandlers, LookForCallbacks, ThreadInv, encodeVars,
     queueVars, threadVars, encoderVars, recorderVars
<1>3. CASE Block \/ WakeUp \/ WakeUpUnasked \/ NothingToDrain \/ NeverStarted
  BY <1>3 DEF Block, WakeUp, WakeUpUnasked, NothingToDrain, NeverStarted, ThreadInv, encodeVars,
     queueVars, threadVars, encoderVars
<1>4. CASE CaptureCannotStart \/ ClearCapture
  BY <1>4 DEF CaptureCannotStart, ClearCapture, AskToStop, ThreadInv, encoderVars
<1>5. CASE EncoderDrained
  BY <1>5 DEF EncoderDrained, ThreadInv, encodeVars, queueVars, threadVars, encoderVars
<1>6. CASE DrainEncoder
  BY <1>6 DEF DrainEncoder, FinalizeBegins, NoDrain, ThreadInv, queueVars, threadVars
<1>7. CASE DrainQueuedFrames
  <2>1. UNCHANGED <<accepting, thread, step, input, output, drain>>
    BY <1>7 DEF DrainQueuedFrames, threadVars, encoderVars
  <2>2. failed' = (failed \/ thread = "failed")
    BY <1>7 DEF DrainQueuedFrames
  <2>3. worker' \in {"ended", "finalizing"} /\ (queue' = queue \/ queue' = <<>>)
    BY <1>7 DEF DrainQueuedFrames, ClearQueuedFrames
  <2>4. thread = "failed" => failed'
    BY <2>2
  <2> QED  BY <2>1, <2>3, <2>4 DEF ThreadInv
<1>8. CASE Reset
  BY <1>8 DEF Reset, ClearQueuedFrames, ThreadInv, threadVars, encoderVars
<1> QED  BY <1>1, <1>2, <1>3, <1>4, <1>5, <1>6, <1>7, <1>8 DEF Recorder

(* So it always holds.                                                     *)
LEMMA Threads == Spec => []ThreadInv
<1>1. Init => ThreadInv
  BY DEF Init, EncodeInit, NoDrain, ThreadInv
<1>2. ShapeInv /\ EncodeInv /\ ThreadInv /\ [Next]_vars => ThreadInv'
  <2> SUFFICES ASSUME ShapeInv, EncodeInv, ThreadInv, [Next]_vars PROVE ThreadInv'
    OBVIOUS
  <2>1. CASE FrameThread \/ Windows \/ Count \/ Notify \/ UNCHANGED vars
    BY <2>1, ThreadInvStays DEF FrameThread, Windows, Count, Notify, vars, encodeVars, queueVars,
       threadVars, encoderVars, recorderVars, threadInvVars
  <2>2. CASE Deliver
    BY <2>2 DEF Deliver, ThreadInv, threadVars, encoderVars, recorderVars
  <2> QED  BY <2>1, <2>2, ThreadOfThread, ThreadOfRecorder DEF Next, Gone
<1> QED  BY Shapes, Encodings, <1>1, <1>2, PTL DEF Spec

-----------------------------------------------------------------------------
(* The pool never runs out.  Every texture that exists is with someone,    *)
(* and who has textures has one for each frame.                            *)

One(set) == \E t \in Textures : set = {t}
Busy == step \in {"frame", "drain"}

PoolInv ==
  /\ slots = Cardinality(created) + (IF frameCall.pc = "creating" THEN 1 ELSE 0)
  /\ created \subseteq Taken \cup Leases(queue)
  /\ Len(queue) <= QueueCapacity
  /\ \A i \in DOMAIN queue : One(queue[i].texture)
  /\ IF Busy THEN One(frame.texture) ELSE frame = NoFrame

poolInvVars == <<slots, created, available, frameCall, queue, frame, step>>

(* Steps elsewhere do not matter.                                          *)
LEMMA PoolInvStays == PoolInv /\ UNCHANGED poolInvVars => PoolInv'
BY DEF PoolInv, Taken, Leases, Busy, poolInvVars

(* Appending.                                                              *)
LEMMA AppendIs ==
  \A q \in Seq(Frames), f \in Frames :
    /\ DOMAIN Append(q, f) = 1..(Len(q) + 1) /\ Len(Append(q, f)) = Len(q) + 1
    /\ Append(q, f)[Len(q) + 1] = f /\ \A i \in 1..Len(q) : Append(q, f)[i] = q[i]
OBVIOUS

(* What a queue leases: nothing when empty,                                *)
LEMMA LeasesOfNone == Leases(<<>>) = {}
<1>1. \A i \in DOMAIN <<>> : FALSE
  OBVIOUS
<1> QED  BY <1>1 DEF Leases

(* one frame's texture when the frame is alone,                            *)
LEMMA LeasesOfOne ==
  ASSUME NEW f \in Frames
  PROVE  Leases(<<f>>) = f.texture
<1>1. DOMAIN <<f>> = {1} /\ <<f>>[1] = f
  OBVIOUS
<1> QED  BY <1>1 DEF Leases

(* that of the new frame too when one is appended,                         *)
LEMMA LeasesAppend ==
  ASSUME NEW q \in Seq(Frames), NEW f \in Frames
  PROVE  Leases(Append(q, f)) = Leases(q) \cup f.texture
<1> DEFINE r == Append(q, f)
<1>1. /\ DOMAIN q = 1..Len(q) /\ Len(q) \in Nat /\ DOMAIN r = 1..(Len(q) + 1)
      /\ r[Len(q) + 1] = f /\ \A i \in 1..Len(q) : r[i] = q[i]
  OBVIOUS
<1> HIDE DEF r
<1>2. \A t : (\E i \in DOMAIN r : t \in r[i].texture) <=>
             (\E i \in DOMAIN q : t \in q[i].texture) \/ t \in f.texture
  BY <1>1
<1>3. \A t : t \in Leases(r) <=> t \in Leases(q) \cup f.texture
  BY <1>2 DEF Leases
<1> QED  BY <1>3 DEF r

(* and, when the first leaves, all but its.                                *)
LEMMA LeasesTail ==
  ASSUME NEW q \in Seq(Frames), q # <<>>
  PROVE  Leases(q) = q[1].texture \cup Leases(Tail(q))
<1> DEFINE r == Tail(q)
<1>1. /\ DOMAIN q = 1..Len(q) /\ Len(q) \in Nat \ {0} /\ DOMAIN r = 1..(Len(q) - 1)
      /\ \A i \in 1..(Len(q) - 1) : r[i] = q[i + 1]
  OBVIOUS
<1> HIDE DEF r
<1>2. ASSUME NEW t, NEW i \in DOMAIN q, t \in q[i].texture
      PROVE  t \in q[1].texture \/ \E j \in DOMAIN r : t \in r[j].texture
  <2>1. i = 1 \/ (i - 1 \in DOMAIN r /\ r[i - 1] = q[i])
    BY <1>1
  <2> QED  BY <1>2, <2>1
<1>3. ASSUME NEW t, t \in q[1].texture \/ \E j \in DOMAIN r : t \in r[j].texture
      PROVE  \E i \in DOMAIN q : t \in q[i].texture
  BY <1>1, <1>3
<1>4. \A t : t \in Leases(q) <=> t \in q[1].texture \cup Leases(r)
  BY <1>2, <1>3 DEF Leases
<1> QED  BY <1>4 DEF r

(* A queue leases no more textures than it holds frames.                   *)
LEMMA LeasesAreFew ==
  ASSUME NEW q \in Seq(Frames), \A i \in DOMAIN q : One(q[i].texture)
  PROVE  IsFiniteSet(Leases(q)) /\ Cardinality(Leases(q)) <= Len(q)
<1> DEFINE f == [i \in 1..Len(q) |-> CHOOSE t \in Textures : q[i].texture = {t}]
<1>1. DOMAIN q = 1..Len(q) /\ Len(q) \in Nat
  OBVIOUS
<1>2. \A i \in 1..Len(q) : q[i].texture = {f[i]}
  BY <1>1 DEF One
<1>3. f = [i \in 1..Len(q) |-> f[i]]
  OBVIOUS
<1> HIDE DEF f
<1>4. f \in Surjection(1..Len(q), Leases(q))
  <2>1. \A i \in 1..Len(q) : f[i] \in Leases(q)
    BY <1>1, <1>2 DEF Leases
  <2>2. \A t \in Leases(q) : \E i \in 1..Len(q) : f[i] = t
    BY <1>1, <1>2 DEF Leases
  <2>3. f \in [1..Len(q) -> Leases(q)]
    BY <1>3, <2>1
  <2> QED  BY <2>2, <2>3 DEF Surjection
<1>5. IsFiniteSet(1..Len(q)) /\ Cardinality(1..Len(q)) = Len(q)
  <2>1. IsFiniteSet(1..Len(q)) /\ Cardinality(1..Len(q)) = IF 1 > Len(q) THEN 0 ELSE Len(q) - 1 + 1
    <3>1. 1 \in Int /\ Len(q) \in Int
      BY <1>1
    <3> QED  BY <3>1, FS_Interval, Zenon
  <2> QED  BY <1>1, <2>1
<1> QED  BY <1>4, <1>5, FS_Surjection

(* So a callback that needs a texture finds one, or room to create one.    *)
LEMMA NeverExhausted ==
  ASSUME ShapeInv, LeaseInv, PoolInv, frameCall.pc = "taken"
  PROVE  ~Exhausted
<1> SUFFICES ASSUME available = {}, slots >= PoolCapacity PROVE FALSE
  BY DEF Exhausted
<1>1. queue \in Seq(Frames) /\ Len(queue) \in Nat /\ Len(queue) <= QueueCapacity
  BY DEF ShapeInv, ThreadShape, PoolInv
<1>2. IsFiniteSet(Leases(queue)) /\ Cardinality(Leases(queue)) <= Len(queue)
  BY <1>1, LeasesAreFew DEF PoolInv
<1>3. IsFiniteSet(frame.texture) /\ Cardinality(frame.texture) <= 1
  <2>1. frame.texture = {} \/ \E t : frame.texture = {t}
    BY DEF PoolInv, One, NoFrame
  <2>2. CASE frame.texture = {}
    BY <2>2, FS_EmptySet
  <2>3. ASSUME NEW t, frame.texture = {t} PROVE IsFiniteSet(frame.texture) /\ Cardinality(frame.texture) <= 1
    <3>1. IsFiniteSet({t}) /\ Cardinality({t}) = 1
      BY FS_Singleton
    <3> QED  BY <2>3, <3>1
  <2> QED  BY <2>1, <2>2, <2>3
<1>4. created \subseteq frame.texture \cup Leases(queue)
  BY DEF PoolInv, Taken, LeaseInv, CallLease
<1>5. /\ IsFiniteSet(frame.texture \cup Leases(queue))
      /\ Cardinality(frame.texture \cup Leases(queue)) <= Len(queue) + 1
  <2>1. Cardinality(frame.texture \cap Leases(queue)) \in Nat
    <3>1. IsFiniteSet(frame.texture \cap Leases(queue))
      BY <1>3, FS_Intersection
    <3> QED  BY <3>1, FS_CardinalityType
  <2>2. Cardinality(frame.texture) \in Nat /\ Cardinality(Leases(queue)) \in Nat
    BY <1>2, <1>3, FS_CardinalityType
  <2>3. /\ IsFiniteSet(frame.texture \cup Leases(queue))
        /\ Cardinality(frame.texture \cup Leases(queue)) =
             Cardinality(frame.texture) + Cardinality(Leases(queue))
               - Cardinality(frame.texture \cap Leases(queue))
    BY <1>2, <1>3, FS_Union
  <2> QED  BY <1>1, <1>2, <1>3, <2>1, <2>2, <2>3
<1>6. Cardinality(created) <= Len(queue) + 1 /\ Cardinality(created) \in Nat
  <2>1. IsFiniteSet(created) /\ Cardinality(created) <= Cardinality(frame.texture \cup Leases(queue))
    BY <1>4, <1>5, FS_Subset
  <2>2. Cardinality(created) \in Nat /\ Cardinality(frame.texture \cup Leases(queue)) \in Nat
    BY <1>5, <2>1, FS_CardinalityType
  <2> QED  BY <1>1, <1>5, <2>1, <2>2
<1>7. slots = Cardinality(created)
  BY <1>6 DEF PoolInv
<1>8. PoolCapacity >= QueueCapacity + 2 /\ PoolCapacity \in Nat /\ QueueCapacity \in Nat
  BY PoolAssumption, EncodeAssumption, FS_CardinalityType DEF PoolCapacity
<1> QED  BY <1>1, <1>6, <1>7, <1>8

(* A callback's lease is a new owner for a texture of the pool, or a new   *)
(* texture in the slot that was reserved for it.                           *)
LEMMA PoolOfCallback ==
  ASSUME ShapeInv, LeaseInv, PoolInv, FrameThread
  PROVE  PoolInv'
<1> USE DEF Taken, Busy
<1>0. frameCall \in [pc : FramePlaces, stamp : Nat, texture : SUBSET Textures]
  BY DEF ShapeInv, CallShape
<1>1. UNCHANGED <<queue, frame, step>> /\ Leases(queue)' = Leases(queue)
  BY DEF FrameThread, encodeVars, queueVars, threadVars, Leases
<1>2. frameCall.pc \notin {"leased", "copied"} => frameCall.texture = {}
  BY DEF LeaseInv, CallLease
<1>3. IsFiniteSet(created) /\ Cardinality(created) \in Nat
  BY PoolAssumption, FS_Subset, FS_CardinalityType DEF ShapeInv, PoolShape
<1> HIDE DEF Taken
<1> USE <1>0
<1>c. slots = Cardinality(created) + (IF frameCall.pc = "creating" THEN 1 ELSE 0)
  BY DEF PoolInv
<1>d. /\ frameCall.pc # "creating" => slots = Cardinality(created)
      /\ frameCall.pc = "creating" => slots = Cardinality(created) + 1
  BY <1>3, <1>c
<1>a. ASSUME UNCHANGED <<slots, created>>, Taken \subseteq Taken',
             frameCall.pc # "creating", frameCall'.pc # "creating"
      PROVE  PoolInv'
  BY <1>1, <1>a DEF PoolInv
<1>b. ASSUME slots' = Cardinality(created') + (IF frameCall'.pc = "creating" THEN 1 ELSE 0),
             created' \subseteq Taken' \cup Leases(queue)
      PROVE  PoolInv'
  BY <1>1, <1>b DEF PoolInv
<1>4. CASE \/ FrameArrives \/ SeesRunning \/ TakeFrame \/ NoMoreFrames \/ FrameIsUnusable \/ LeaveFrame
           \/ ItemCloses \/ ClosedSeesRunning \/ ReportClosed \/ LeaveClosed
  <2>1. UNCHANGED <<available, created, slots>>
    BY <1>4 DEF FrameArrives, SeesRunning, TakeFrame, NoMoreFrames, FrameIsUnusable, LeaveFrame,
       ItemCloses, ClosedSeesRunning, ReportClosed, LeaveClosed, poolVars
  <2>2. \/ frameCall.texture = {} /\ frameCall.pc # "creating" /\ frameCall'.pc # "creating"
        \/ UNCHANGED frameCall
    BY <1>2, <1>4 DEF FrameArrives, SeesRunning, TakeFrame, NoMoreFrames, FrameIsUnusable, LeaveFrame,
       ItemCloses, ClosedSeesRunning, ReportClosed, LeaveClosed, Goto, LookAgain, NoCall
  <2>3. Taken \subseteq Taken'
    BY <1>1, <2>1, <2>2 DEF Taken
  <2> QED  BY <1>1, <2>1, <2>2, <2>3 DEF PoolInv
<1>5. CASE AcquireTexture
  <2> USE <1>5 DEF AcquireTexture
  <2>1. CASE Exhausted
    <3>1. frameCall'.pc = "looking" /\ UNCHANGED poolVars
      BY <2>1 DEF LookAgain, NoCall
    <3> QED  BY <1>1, <1>2, <1>a, <3>1 DEF Taken, poolVars
  <2>2. CASE Reserve /\ Goto("creating")
    <3>1. /\ slots' = slots + 1 /\ UNCHANGED <<available, created>>
          /\ frameCall'.pc = "creating" /\ frameCall.pc # "creating" /\ frameCall'.texture = frameCall.texture
      BY <2>2 DEF Reserve, Goto
    <3>2. created' \subseteq Taken' \cup Leases(queue)
      BY <1>1, <3>1 DEF Taken, PoolInv
    <3>3. slots' = Cardinality(created') + (IF frameCall'.pc = "creating" THEN 1 ELSE 0)
      BY <1>3, <1>d, <3>1
    <3> QED  BY <1>b, <3>2, <3>3
  <2>3. ASSUME NEW t \in Textures, Reuse(t),
               frameCall' = [frameCall EXCEPT !.pc = "leased", !.texture = {t}]
        PROVE  PoolInv'
    <3>1. /\ available' = available \ {t} /\ UNCHANGED <<created, slots>>
          /\ frameCall'.pc = "leased" /\ frameCall'.texture = {t} /\ frameCall.pc = "taken"
      BY <2>3 DEF Reuse
    <3> QED  BY <1>1, <1>2, <1>a, <3>1 DEF Taken
  <2> QED  BY <2>1, <2>2, <2>3
<1>6. CASE TextureIsCreated
  <2> USE <1>6 DEF TextureIsCreated
  <2>1. CASE CreateFails /\ LookAgain
    <3>1. /\ slots' = slots - 1 /\ UNCHANGED <<created, available>>
          /\ frameCall.pc = "creating" /\ frameCall'.pc = "looking" /\ frameCall'.texture = {}
      BY <2>1 DEF CreateFails, LookAgain, NoCall
    <3>2. created' \subseteq Taken' \cup Leases(queue)
      BY <1>1, <1>2, <3>1 DEF Taken, PoolInv
    <3>3. slots' = Cardinality(created') + (IF frameCall'.pc = "creating" THEN 1 ELSE 0)
      <4>1. slots = Cardinality(created) + 1
        BY <1>d, <3>1
      <4>2. Cardinality(created') = Cardinality(created)
        BY <3>1
      <4>3. slots' = Cardinality(created)
        <5>1. slots' = slots - 1
          BY <3>1
        <5> QED  BY ONLY <1>3, <4>1, <5>1
      <4>4. frameCall'.pc # "creating"
        BY <3>1
      <4> QED  BY ONLY <1>3, <4>2, <4>3, <4>4
    <3> QED  BY <1>b, <3>2, <3>3
  <2>2. ASSUME NEW t \in Textures, CreateTexture(t),
               frameCall' = [frameCall EXCEPT !.pc = "leased", !.texture = {t}]
        PROVE  PoolInv'
    <3>1. /\ created' = created \cup {t} /\ t \notin created /\ UNCHANGED <<available, slots>>
          /\ frameCall'.pc = "leased" /\ frameCall'.texture = {t} /\ frameCall.pc = "creating"
      BY <2>2 DEF CreateTexture
    <3>2. Cardinality(created') = Cardinality(created) + 1
      BY <1>3, <3>1, FS_AddElement
    <3>3. created' \subseteq Taken' \cup Leases(queue)
      BY <1>1, <1>2, <3>1 DEF Taken, PoolInv
    <3>4. slots' = Cardinality(created') + (IF frameCall'.pc = "creating" THEN 1 ELSE 0)
      <4>1. slots = Cardinality(created) + 1
        BY <1>d, <3>1
      <4>3. slots' = Cardinality(created') /\ frameCall'.pc # "creating"
        BY <3>1, <3>2, <4>1
      <4> QED  BY ONLY <1>3, <3>2, <4>3
    <3> QED  BY <1>b, <3>3, <3>4
  <2> QED  BY <2>1, <2>2
<1>7. CASE CopyTexture
  BY <1>1, <1>7, <1>a DEF CopyTexture, CopyFrame, Goto, Taken
<1>8. CASE CallbackFails
  <2>1. available' = available \cup frameCall.texture /\ UNCHANGED <<created, slots>>
    BY <1>8 DEF CallbackFails, Return
  <2>2. frameCall.pc # "creating" /\ frameCall'.pc = "looking"
    BY <1>8 DEF CallbackFails, LookAgain, NoCall
  <2> QED  BY <1>1, <1>a, <2>1, <2>2 DEF Taken
<1> QED  BY <1>4, <1>5, <1>6, <1>7, <1>8 DEF FrameThread, Callbacks

(* The frame that is encoded gives its texture back when it is done,       *)
LEMMA PoolFrameReturned ==
  ASSUME PoolInv, Return(frame.texture), frame' = NoFrame, UNCHANGED <<frameCall, queue>>,
         step' \notin {"frame", "drain"}
  PROVE  PoolInv'
<1>1. Leases(queue)' = Leases(queue) /\ Taken \subseteq Taken' /\ UNCHANGED <<created, slots>>
  BY DEF Leases, Taken, Return
<1> QED  BY <1>1 DEF PoolInv, Busy

(* and takes it from the queue.                                            *)
LEMMA PoolOfThread ==
  ASSUME ShapeInv, EncodeInv, PoolInv, EncodeThread \/ Transform
  PROVE  PoolInv'
<1>1. UNCHANGED frameCall
  BY DEF EncodeThread, Transform, captureVars, callVars
<1>2. CASE Encode
  BY <1>1, <1>2, PoolInvStays DEF Encode, queueVars, threadVars, poolVars, poolInvVars
<1>3. CASE ThreadEnds \/ InitializeCom
  <2>1. ~Busy /\ ~Busy' /\ frame' = NoFrame /\ UNCHANGED <<queue, slots, created, available>>
    BY <1>3 DEF ThreadEnds, InitializeCom, Fail, PoolInv, Busy, queueVars, threadVars, poolVars
  <2>2. Leases(queue)' = Leases(queue) /\ Taken' = Taken
    BY <1>1, <2>1 DEF Leases, Taken, PoolInv
  <2> QED  BY <1>1, <2>1, <2>2 DEF PoolInv
<1>4. CASE SubmitFrame
  <2>1. Busy /\ Busy' /\ UNCHANGED <<queue, slots, created, available, frame>>
    BY <1>4 DEF SubmitFrame, Busy, queueVars, poolVars
  <2>2. Leases(queue)' = Leases(queue) /\ Taken' = Taken
    BY <1>1, <2>1 DEF Leases, Taken
  <2> QED  BY <1>1, <2>1, <2>2 DEF PoolInv
<1>5. CASE FrameRefused \/ SubmitFails \/ LostAfterSubmit
  BY <1>1, <1>5, PoolFrameReturned DEF FrameRefused, SubmitFails, LostAfterSubmit, Fail
<1>6. CASE DrainNext
  <2>1. ASSUME NEW kind, DrainEnds(kind) PROVE PoolInv'
    <3>1. CASE drain.by = "recorder"
      BY <1>1, <2>1, <3>1, PoolInvStays DEF DrainEnds, queueVars, threadVars, poolVars, poolInvVars
    <3>2. CASE drain.by # "recorder"
      BY <1>1, <2>1, <3>2, PoolFrameReturned DEF DrainEnds, Fail, queueVars
    <3> QED  BY <3>1, <3>2
  <2>2. (\E kind : DrainEnds(kind)) \/ UNCHANGED <<queueVars, threadVars, poolVars>>
    BY <1>6 DEF DrainNext, FetchPacket, DrainTimesOut, DrainFails, DrainCompletes, AppendDrainedPackets
  <2> QED  BY <1>1, <2>1, <2>2, PoolInvStays DEF queueVars, threadVars, poolVars, poolInvVars
<1>7. CASE PopFrame
  <2>1. /\ queue \in Seq(Frames) /\ queue # <<>> /\ frame' = queue[1] /\ queue' = Tail(queue)
        /\ UNCHANGED <<slots, created, available>> /\ step = "wait" /\ step' = "frame"
    BY <1>7 DEF PopFrame, ShapeInv, ThreadShape, poolVars
  <2>2. /\ DOMAIN queue = 1..Len(queue) /\ Len(queue) \in Nat \ {0}
        /\ DOMAIN queue' = 1..(Len(queue) - 1) /\ \A i \in DOMAIN queue' : queue'[i] = queue[i + 1]
        /\ Len(queue') = Len(queue) - 1
    BY <2>1
  <2>3. Leases(queue) = queue[1].texture \cup Leases(queue')
    BY <2>1, LeasesTail
  <2>4. frame.texture = {}
    BY <2>1 DEF PoolInv, Busy, NoFrame
  <2>5. Taken' = Taken \cup queue[1].texture
    BY <1>1, <2>1, <2>4 DEF Taken
  <2>6. Leases(queue)' = Leases(queue')
    BY DEF Leases
  <2>7. created' \subseteq Taken' \cup Leases(queue)'
    BY <2>1, <2>3, <2>5, <2>6 DEF PoolInv
  <2>8. Busy' /\ One(frame.texture)'
    BY <2>1, <2>2 DEF PoolInv, One, Busy
  <2>9. Len(queue') <= QueueCapacity /\ \A i \in DOMAIN queue' : One(queue'[i].texture)
    BY <2>2, EncodeAssumption DEF PoolInv
  <2> QED  BY <1>1, <2>1, <2>7, <2>8, <2>9 DEF PoolInv, One
<1> QED  BY <1>2, <1>3, <1>4, <1>5, <1>6, <1>7 DEF EncodeThread, Transform, ThreadNext

(* A queue that is cleared, in whole, gives its textures back,             *)
LEMMA PoolQueueReturned ==
  ASSUME PoolInv, Return(Leases(queue)), queue' = <<>>, UNCHANGED <<frameCall, frame, step>>
  PROVE  PoolInv'
<1>1. Taken' = Taken \cup Leases(queue) /\ UNCHANGED <<created, slots>>
  BY DEF Taken, Return
<1>2. DOMAIN queue' = {} /\ Len(queue') = 0
  BY DEF Return
<1> QED  BY <1>1, <1>2, EncodeAssumption DEF PoolInv, Busy, One

(* and one that is full does so before it takes the new frame.             *)
LEMMA PoolOfDeliver ==
  ASSUME ShapeInv, LeaseInv, PoolInv, Deliver
  PROVE  PoolInv'
<1> USE DEF Deliver, ShapeInv, CallShape
<1>1. /\ UNCHANGED <<frame, step>> /\ frameCall.pc = "copied"
      /\ frameCall'.texture = {} /\ frameCall'.pc # "creating"
  BY DEF threadVars, LookAgain, NoCall
<1>4. ASSUME UNCHANGED <<created, slots>>, created' \subseteq Taken' \cup Leases(queue)',
             Len(queue') <= QueueCapacity, \A i \in DOMAIN queue' : One(queue'[i].texture)
      PROVE  PoolInv'
  BY <1>1, <1>4 DEF PoolInv, Busy, One
<1>2. CASE ~accepting
  <2>1. Taken' = Taken /\ UNCHANGED <<queue, created, slots>>
    BY <1>1, <1>2 DEF Return, Taken
  <2>2. Leases(queue)' = Leases(queue)
    BY <2>1 DEF Leases
  <2> QED  BY <1>1, <2>1, <2>2 DEF PoolInv, Busy, One
<1>3. CASE accepting
  <2> DEFINE new == [stamp |-> frameCall.stamp, texture |-> frameCall.texture]
  <2>1. Push(new) /\ new.texture = frameCall.texture /\ new \in Frames /\ One(new.texture)
    BY <1>1, <1>3 DEF LeaseInv, CallLease, One, Frames
  <2> HIDE DEF new
  <2>2. queue \in Seq(Frames) /\ DOMAIN queue = 1..Len(queue) /\ Len(queue) \in Nat
    BY DEF ThreadShape
  <2>3. Leases(queue)' = Leases(queue')
    BY DEF Leases
  <2>4. CASE Overflows
    <3>1. queue' = <<new>> /\ available' = available \cup Leases(queue) /\ UNCHANGED <<created, slots>>
      BY <2>1, <2>4 DEF Push, Return
    <3>2. Leases(queue') = new.texture
      BY <2>1, <3>1, LeasesOfOne
    <3>3. created' \subseteq Taken' \cup Leases(queue)'
      BY <1>1, <2>1, <2>3, <3>1, <3>2 DEF PoolInv, Taken
    <3>4. DOMAIN queue' = {1} /\ queue'[1] = new /\ Len(queue') = 1
      BY <3>1
    <3>5. \A i \in DOMAIN queue' : One(queue'[i].texture)
      BY <2>1, <3>4
    <3>6. Len(queue') <= QueueCapacity
      BY <3>4, EncodeAssumption
    <3> QED  BY <1>4, <3>1, <3>3, <3>5, <3>6
  <2>5. CASE ~Overflows
    <3>1. queue' = Append(queue, new) /\ UNCHANGED <<available, created, slots>>
      BY <2>1, <2>5 DEF Push, Return
    <3>2. Leases(queue') = Leases(queue) \cup new.texture
      BY <2>1, <2>2, <3>1, LeasesAppend
    <3>3. created' \subseteq Taken' \cup Leases(queue)'
      BY <1>1, <2>1, <2>3, <3>1, <3>2 DEF PoolInv, Taken
    <3>4. /\ DOMAIN queue' = 1..(Len(queue) + 1) /\ Len(queue') = Len(queue) + 1
          /\ queue'[Len(queue) + 1] = new /\ \A i \in 1..Len(queue) : queue'[i] = queue[i]
      <4>1. queue \in Seq(Frames) /\ new \in Frames /\ queue' = Append(queue, new)
        BY <2>1, <2>2, <3>1
      <4> QED  BY <4>1, AppendIs
    <3>5. \A i \in DOMAIN queue' : One(queue'[i].texture)
      <4> SUFFICES ASSUME NEW i \in 1..(Len(queue) + 1) PROVE One(queue'[i].texture)
        BY <3>4
      <4>1. CASE i \in 1..Len(queue)
        BY <2>2, <3>4, <4>1 DEF PoolInv
      <4>2. CASE i = Len(queue) + 1
        BY <2>1, <3>4, <4>2
      <4> QED  BY <2>2, <4>1, <4>2
    <3>6. Len(queue') <= QueueCapacity
      BY <2>2, <2>5, <3>4, EncodeAssumption DEF Overflows
    <3> QED  BY <1>4, <3>1, <3>3, <3>5, <3>6
  <2> QED  BY <2>4, <2>5
<1> QED  BY <1>2, <1>3

(* So every texture is always accounted for.                               *)
LEMMA Pools == Spec => []PoolInv
<1>1. Init => PoolInv
  <2>1. Cardinality({}) = 0
    BY FS_EmptySet
  <2> QED  BY <2>1, EncodeAssumption DEF Init, PoolInit, CaptureInit, EncodeInit, NoCall, PoolInv, Busy
<1>2. ShapeInv /\ EncodeInv /\ LeaseInv /\ PoolInv /\ [Next]_vars => PoolInv'
  <2> SUFFICES ASSUME ShapeInv, EncodeInv, LeaseInv, PoolInv, [Next]_vars PROVE PoolInv'
    OBVIOUS
  <2>1. CASE DrainQueuedFrames \/ Reset
    <3>1. UNCHANGED <<frameCall, frame, step>>
      BY <2>1 DEF DrainQueuedFrames, Reset, captureVars, callVars, threadVars
    <3>2. ClearQueuedFrames \/ UNCHANGED <<queue, poolVars>>
      BY <2>1 DEF DrainQueuedFrames, Reset
    <3> QED  BY <3>1, <3>2, PoolQueueReturned, PoolInvStays DEF ClearQueuedFrames, poolVars, poolInvVars
  <2>2. CASE Count \/ Notify
    <3>1. UNCHANGED <<queue, frame, step, poolVars>>
      BY <2>2 DEF Count, Notify, encodeVars, queueVars, threadVars
    <3>2. \/ UNCHANGED frameCall
          \/ /\ frameCall.texture = {} /\ frameCall'.texture = {}
             /\ frameCall.pc # "creating" /\ frameCall'.pc # "creating"
      BY <2>2 DEF Count, Notify, LookAgain, NoCall, LeaseInv, CallLease
    <3> QED  BY <3>1, <3>2 DEF PoolInv, Taken, Leases, Busy, One, poolVars
  <2>3. CASE Windows \/ WakeUpUnasked \/ UNCHANGED vars
    BY <2>3, PoolInvStays DEF Windows, Compose, WakeUpUnasked, vars, captureVars, callVars, encodeVars,
       queueVars, threadVars, poolVars, poolInvVars
  <2>4. CASE CaptureStarts \/ CaptureCannotStart \/ Poll \/ LeaveLoop
    BY <2>4, PoolInvStays DEF CaptureStarts, StartCapture, CaptureCannotStart, AskToStop, Poll, PollFinds,
       LeaveLoop, captureVars, callVars, encodeVars, queueVars, threadVars, poolVars, poolInvVars
  <2>5. CASE RemoveHandlers \/ LookForCallbacks \/ Block \/ WakeUp \/ ClearCapture
    BY <2>5, PoolInvStays DEF RemoveHandlers, LookForCallbacks, Block, WakeUp, ClearCapture, AskToStop,
       captureVars, callVars, encodeVars, queueVars, threadVars, poolVars, poolInvVars
  <2>6. CASE DrainEncoder \/ NothingToDrain \/ EncoderDrained \/ NeverStarted
    BY <2>6, PoolInvStays DEF DrainEncoder, FinalizeBegins, NothingToDrain, EncoderDrained, NeverStarted,
       captureVars, callVars, encodeVars, queueVars, threadVars, poolVars, poolInvVars
  <2>7. CASE StartVideo
    <3>1. step = "none" /\ step' = "starting" /\ UNCHANGED <<queue, frame, frameCall, poolVars>>
      BY <2>7 DEF StartVideo, StartThread, EncodeInv, StepInv, captureVars, callVars
    <3> QED  BY <3>1 DEF PoolInv, Taken, Leases, Busy, One, poolVars
  <2> QED  BY <2>1, <2>2, <2>3, <2>4, <2>5, <2>6, <2>7, PoolOfCallback, PoolOfThread, PoolOfDeliver
           DEF Next, Gone, Recorder
<1> QED  BY Shapes, Encodings, Leasing, <1>1, <1>2, PTL DEF Spec

-----------------------------------------------------------------------------
(* Stamps grow along the way of a frame: what Windows has, what the        *)
(* callback holds, the queue, the frame in hand, the store.  The thread    *)
(* has one frame at a time in the encoder, whose output is stored as the   *)
(* next, unless the thread fails.                                          *)

Holding == frameCall.pc \in {"taken", "creating", "leased", "copied"}

Older(x) ==
  /\ x <= composed
  /\ \A i \in DOMAIN surfaces : x < surfaces[i]
  /\ Holding => x < frameCall.stamp

ArrivalOrder ==
  /\ \A i \in DOMAIN surfaces : surfaces[i] <= composed
  /\ Holding => /\ frameCall.stamp <= composed
                /\ \A i \in DOMAIN surfaces : frameCall.stamp < surfaces[i]

QueueOrder ==
  /\ \A i \in DOMAIN queue : Older(queue[i].stamp)
  /\ \A i, j \in DOMAIN queue : i < j => queue[i].stamp < queue[j].stamp

FrameOrder ==
  Busy => Older(frame.stamp) /\ \A i \in DOMAIN queue : frame.stamp < queue[i].stamp

StoredOrder ==
  thread # "failed" =>
    /\ \A i, j \in DOMAIN stored : i < j => stored[i].stamp < stored[j].stamp
    /\ \A i \in DOMAIN stored :
         /\ Older(stored[i].stamp)
         /\ Busy => stored[i].stamp < frame.stamp
         /\ \A j \in DOMAIN queue : stored[i].stamp < queue[j].stamp

CodingOrder ==
  step = "drain" => /\ \A i \in DOMAIN input : input[i] = frame.stamp
                    /\ \A i \in DOMAIN output : output[i].stamp = frame.stamp

OrderInv == ArrivalOrder /\ QueueOrder /\ FrameOrder /\ StoredOrder /\ CodingOrder

wayVars == <<queue, thread, step, frame, input, output, stored>>

(* The stamps are numbers.                                                 *)
LEMMA StampsAreNumbers ==
  ASSUME ShapeInv
  PROVE  /\ \A i \in DOMAIN queue : queue[i].stamp \in Nat
         /\ \A i \in DOMAIN stored : stored[i].stamp \in Nat
         /\ \A i \in DOMAIN surfaces : surfaces[i] \in Nat
         /\ frame.stamp \in Nat /\ frameCall.stamp \in Nat /\ composed \in Nat
<1>1. \A i \in DOMAIN queue : queue[i].stamp \in Nat
  <2>1. \A f \in Frames : f.stamp \in Nat
    BY DEF Frames
  <2>2. queue \in Seq(Frames)
    BY DEF ShapeInv, ThreadShape
  <2> QED  BY <2>1, <2>2
<1>2. \A i \in DOMAIN stored : stored[i].stamp \in Nat
  <2>1. \A p \in Packets : p.stamp \in Nat
    BY DEF Packets
  <2>2. stored \in Seq(Packets)
    BY DEF ShapeInv, EncoderShape
  <2> QED  BY <2>1, <2>2
<1>3. frame.stamp \in Nat
  <2>1. \A f \in Frames : f.stamp \in Nat
    BY DEF Frames
  <2>2. frame \in Frames \cup {NoFrame} /\ NoFrame.stamp \in Nat
    BY DEF ShapeInv, ThreadShape, NoFrame
  <2> QED  BY <2>1, <2>2
<1>4. (\A i \in DOMAIN surfaces : surfaces[i] \in Nat) /\ frameCall.stamp \in Nat /\ composed \in Nat
  BY DEF ShapeInv, CallShape
<1> QED  BY <1>1, <1>2, <1>3, <1>4

(* What is older than all that comes stays so, if what comes is newer.     *)
LEMMA OrderUpstream ==
  ASSUME ShapeInv, OrderInv, UNCHANGED wayVars, ArrivalOrder', \A x \in Nat : Older(x) => Older(x)'
  PROVE  OrderInv'
<1> USE StampsAreNumbers DEF wayVars
<1>1. QueueOrder'
  BY DEF OrderInv, QueueOrder
<1>2. FrameOrder'
  BY DEF OrderInv, FrameOrder, Busy
<1>3. StoredOrder'
  BY DEF OrderInv, StoredOrder, Busy
<1>4. CodingOrder'
  BY DEF OrderInv, CodingOrder
<1> QED  BY <1>1, <1>2, <1>3, <1>4 DEF OrderInv

(* Nor does order suffer when frames leave.                                *)
LEMMA OrderDownstream ==
  ASSUME OrderInv, UNCHANGED <<composed, surfaces, frameCall>>,
         queue' = queue \/ queue' = <<>>,
         Busy' => Busy /\ UNCHANGED frame,
         thread' # "failed" => thread # "failed" /\ UNCHANGED stored,
         CodingOrder'
  PROVE  OrderInv'
<1>1. \A x : Older(x) => Older(x)'
  BY DEF Older, Holding
<1>2. ArrivalOrder'
  BY DEF OrderInv, ArrivalOrder, Holding
<1>3. queue' = queue \/ DOMAIN queue' = {}
  OBVIOUS
<1>4. QueueOrder'
  BY <1>1, <1>3 DEF OrderInv, QueueOrder
<1>5. FrameOrder'
  BY <1>1, <1>3 DEF OrderInv, FrameOrder
<1>6. StoredOrder'
  BY <1>1, <1>3 DEF OrderInv, StoredOrder
<1> QED  BY <1>2, <1>4, <1>5, <1>6 DEF OrderInv

(* A callback that does not take a new frame keeps the one it holds, or    *)
(* lets it go; so do the others.                                           *)
LEMMA CallKeepsStamp ==
  ASSUME ShapeInv,
         (FrameThread /\ ~(TakeFrame /\ frameCall' # frameCall)) \/ Count \/ Notify \/ RemoveHandlers
  PROVE  /\ UNCHANGED composed /\ (surfaces' = surfaces \/ surfaces' = <<>>)
         /\ Holding' => Holding /\ frameCall'.stamp = frameCall.stamp
<1>1. UNCHANGED composed /\ (surfaces' = surfaces \/ surfaces' = <<>>)
  BY DEF FrameThread, Callbacks, FrameArrives, SeesRunning, TakeFrame, NoMoreFrames, FrameIsUnusable,
     AcquireTexture, TextureIsCreated, CopyTexture, CallbackFails, LeaveFrame, ItemCloses,
     ClosedSeesRunning, ReportClosed, LeaveClosed, Count, Notify, RemoveHandlers, RemoveCallbacks, wgcVars
<1> USE DEF ShapeInv, CallShape, Holding
<1>2. CASE Count \/ Notify \/ RemoveHandlers
  BY <1>1, <1>2 DEF Count, Notify, RemoveHandlers, LookAgain, NoCall, callVars
<1>3. CASE TakeFrame /\ frameCall' = frameCall
  BY <1>1, <1>3
<1>4. CASE FrameArrives \/ SeesRunning \/ NoMoreFrames \/ FrameIsUnusable \/ CopyTexture
  BY <1>1, <1>4 DEF FrameArrives, SeesRunning, NoMoreFrames, FrameIsUnusable, CopyTexture, Goto, LookAgain, NoCall
<1>5. CASE AcquireTexture \/ TextureIsCreated \/ CallbackFails \/ LeaveFrame
  BY <1>1, <1>5 DEF AcquireTexture, TextureIsCreated, CallbackFails, LeaveFrame, Goto, LookAgain, NoCall
<1>6. CASE ItemCloses \/ ClosedSeesRunning \/ ReportClosed \/ LeaveClosed
  BY <1>1, <1>6 DEF ItemCloses, ClosedSeesRunning, ReportClosed, LeaveClosed
<1> QED  BY <1>2, <1>3, <1>4, <1>5, <1>6 DEF FrameThread, Callbacks

(* Windows's frames are newer than all it had, and a callback takes the    *)
(* newest.                                                                 *)
LEMMA OrderOfCapture ==
  ASSUME ShapeInv, OrderInv, FrameThread \/ Windows \/ Count \/ Notify \/ RemoveHandlers
  PROVE  OrderInv'
<1> USE StampsAreNumbers
<1>1. UNCHANGED wayVars
  BY DEF FrameThread, Windows, Count, Notify, RemoveHandlers, encodeVars, queueVars, threadVars,
     encoderVars, wayVars
<1>2. CASE Windows
  <2>1. composed' = composed + 1 /\ UNCHANGED frameCall
    BY <1>2 DEF Windows, Compose, callVars
  <2>2. \A i \in DOMAIN surfaces' : \/ i \in DOMAIN surfaces /\ surfaces'[i] = surfaces[i]
                                    \/ surfaces'[i] = composed'
    <3>1. CASE surfaces' = Append(surfaces, composed')
      <4>1. surfaces \in Seq(Nat) /\ composed' \in Nat
        BY <2>1 DEF ShapeInv, CallShape
      <4> QED  BY <3>1, <4>1
    <3>2. CASE UNCHANGED surfaces
      BY <3>2
    <3> QED  BY <1>2, <3>1, <3>2 DEF Windows, Compose
  <2>3. ArrivalOrder'
    BY <2>1, <2>2 DEF OrderInv, ArrivalOrder, Holding
  <2>4. \A x \in Nat : Older(x) => Older(x)'
    BY <2>1, <2>2 DEF Older, Holding
  <2> QED  BY <1>1, <2>3, <2>4, OrderUpstream
<1>3. CASE TakeFrame /\ frameCall' # frameCall
  <2>1. /\ surfaces # <<>> /\ surfaces' = <<>> /\ UNCHANGED composed
        /\ frameCall'.stamp = surfaces[Len(surfaces)]
    BY <1>3 DEF TakeFrame
  <2>2. Len(surfaces) \in DOMAIN surfaces /\ DOMAIN surfaces' = {}
    BY <2>1 DEF ShapeInv, CallShape
  <2>3. ArrivalOrder'
    BY <2>1, <2>2 DEF OrderInv, ArrivalOrder
  <2>4. \A x \in Nat : Older(x) => Older(x)'
    BY <2>1, <2>2 DEF Older
  <2> QED  BY <1>1, <2>3, <2>4, OrderUpstream
<1>4. ASSUME UNCHANGED composed, surfaces' = surfaces \/ surfaces' = <<>>,
             Holding' => Holding /\ frameCall'.stamp = frameCall.stamp
      PROVE  OrderInv'
  <2>1. surfaces' = surfaces \/ DOMAIN surfaces' = {}
    BY <1>4
  <2>2. ArrivalOrder'
    BY <1>4, <2>1 DEF OrderInv, ArrivalOrder
  <2>3. \A x \in Nat : Older(x) => Older(x)'
    BY <1>4, <2>1 DEF Older
  <2> QED  BY <1>1, <2>2, <2>3, OrderUpstream
<1>5. CASE (FrameThread /\ ~(TakeFrame /\ frameCall' # frameCall)) \/ Count \/ Notify \/ RemoveHandlers
  BY <1>4, <1>5, CallKeepsStamp
<1> QED  BY <1>2, <1>3, <1>5

(* The queue after a delivery: the new frame is its last, what is before   *)
(* it was there, and all that was there unless the queue was full.         *)
LEMMA DeliveredIs ==
  ASSUME ShapeInv, Deliver, accepting
  PROVE  /\ \A i \in DOMAIN queue' : \/ queue'[i].stamp = frameCall.stamp
                                     \/ i \in DOMAIN queue /\ queue'[i] = queue[i]
         /\ \A i, j \in DOMAIN queue' : i < j => i \in DOMAIN queue /\ queue'[i] = queue[i]
         /\ \E i \in DOMAIN queue' : queue'[i].stamp = frameCall.stamp
         /\ ~Overflows => \A i \in DOMAIN queue : i \in DOMAIN queue' /\ queue'[i] = queue[i]
         /\ Overflows => \A i \in DOMAIN queue' : queue'[i].stamp = frameCall.stamp
<1> DEFINE new == [stamp |-> frameCall.stamp, texture |-> frameCall.texture]
<1>1. Push(new) /\ new.stamp = frameCall.stamp /\ new \in Frames
  BY DEF Deliver, Frames, ShapeInv, CallShape
<1> HIDE DEF new
<1>2. queue \in Seq(Frames) /\ DOMAIN queue = 1..Len(queue) /\ Len(queue) \in Nat
  BY DEF ShapeInv, ThreadShape
<1>3. CASE Overflows
  <2>1. queue' = <<new>>
    BY <1>1, <1>3 DEF Push
  <2>2. DOMAIN queue' = {1} /\ queue'[1] = new
    BY <2>1
  <2>3. \A i \in DOMAIN queue' : i = 1 /\ queue'[i].stamp = frameCall.stamp
    BY <1>1, <2>2
  <2>4. \A i, j \in DOMAIN queue' : ~(i < j)
    BY <2>3
  <2>5. 1 \in DOMAIN queue'
    BY <2>2
  <2> QED  BY ONLY <1>3, <2>3, <2>4, <2>5
<1>4. CASE ~Overflows
  <2>1. queue' = Append(queue, new)
    BY <1>1, <1>4 DEF Push
  <2>2. /\ DOMAIN queue' = 1..(Len(queue) + 1) /\ queue'[Len(queue) + 1] = new
        /\ \A i \in 1..Len(queue) : queue'[i] = queue[i]
    BY <1>1, <1>2, <2>1, AppendIs
  <2>3. \A i \in DOMAIN queue' : \/ i = Len(queue) + 1 /\ queue'[i].stamp = frameCall.stamp
                                 \/ i \in DOMAIN queue /\ queue'[i] = queue[i]
    BY <1>1, <1>2, <2>2
  <2>4. \A i, j \in DOMAIN queue' : i < j => i \in DOMAIN queue /\ queue'[i] = queue[i]
    BY <1>2, <2>2
  <2>5. Len(queue) + 1 \in DOMAIN queue' /\ queue'[Len(queue) + 1].stamp = frameCall.stamp
    BY <1>1, <1>2, <2>2
  <2>6. \A i \in DOMAIN queue : i \in DOMAIN queue' /\ queue'[i] = queue[i]
    BY <1>2, <2>2
  <2> QED  BY ONLY <1>4, <2>3, <2>4, <2>5, <2>6
<1> QED  BY <1>3, <1>4

(* A frame that is delivered is newer than all delivered before.           *)
LEMMA OrderOfDeliver ==
  ASSUME ShapeInv, OrderInv, Deliver
  PROVE  OrderInv'
<1> USE StampsAreNumbers
<1>1. /\ UNCHANGED <<composed, surfaces, frame, step, thread, stored, input, output>>
      /\ Holding /\ ~Holding'
  BY DEF Deliver, threadVars, encoderVars, wgcVars, LookAgain, NoCall, Holding, ShapeInv, CallShape
<1>2. ArrivalOrder'
  BY <1>1 DEF OrderInv, ArrivalOrder
<1>3. \A x : Older(x) => Older(x)' /\ x < frameCall.stamp
  BY <1>1 DEF Older
<1>4. CASE ~accepting
  BY <1>1, <1>2, <1>3, <1>4, OrderUpstream DEF Deliver, wayVars
<1>5. CASE accepting
  <2>1. Holding /\ frameCall.stamp \in Nat
    BY <1>1
  <2>3. /\ \A i \in DOMAIN queue' : \/ queue'[i].stamp = frameCall.stamp
                                    \/ i \in DOMAIN queue /\ queue'[i] = queue[i]
        /\ \A i, j \in DOMAIN queue' : i < j => i \in DOMAIN queue /\ queue'[i] = queue[i]
    BY <1>5, DeliveredIs
  <2>4. \A x : x = frameCall.stamp => Older(x)'
    BY <1>1 DEF OrderInv, ArrivalOrder, Older
  <2>5. QueueOrder'
    <3>1. (\A i \in DOMAIN queue : Older(queue[i].stamp))'
      <4>1. \A i \in DOMAIN queue' : \A x : x = queue'[i].stamp => Older(x)'
        BY <1>3, <2>1, <2>3, <2>4 DEF OrderInv, QueueOrder
      <4> QED  BY <4>1 DEF Older
    <3>2. \A i, j \in DOMAIN queue' : i < j => queue'[i].stamp < queue'[j].stamp
      BY <1>3, <2>1, <2>3 DEF OrderInv, QueueOrder
    <3> QED  BY <3>1, <3>2 DEF QueueOrder
  <2>6. FrameOrder'
    BY <1>1, <1>3, <2>1, <2>3 DEF OrderInv, FrameOrder, Busy
  <2>7. StoredOrder'
    BY <1>1, <1>3, <2>1, <2>3 DEF OrderInv, StoredOrder, Busy
  <2>8. CodingOrder'
    BY <1>1 DEF OrderInv, CodingOrder
  <2> QED  BY <1>2, <2>5, <2>6, <2>7, <2>8 DEF OrderInv
<1> QED  BY <1>4, <1>5

(* The thread takes the oldest frame of the queue into its hand.           *)
LEMMA OrderOfPop ==
  ASSUME ShapeInv, ThreadInv, OrderInv, PopFrame, UNCHANGED <<composed, surfaces, frameCall>>
  PROVE  OrderInv'
<1> USE StampsAreNumbers
<1>1. /\ queue \in Seq(Frames) /\ queue # <<>> /\ frame' = queue[1] /\ queue' = Tail(queue)
      /\ ~Busy /\ Busy' /\ step' = "frame" /\ UNCHANGED <<thread, stored>>
  BY DEF PopFrame, ShapeInv, ThreadShape, Busy
<1>2. /\ DOMAIN queue = 1..Len(queue) /\ Len(queue) \in Nat \ {0}
      /\ DOMAIN queue' = 1..(Len(queue) - 1) /\ \A i \in DOMAIN queue' : queue'[i] = queue[i + 1]
  BY <1>1
<1>3. \A i \in DOMAIN queue' : i + 1 \in DOMAIN queue /\ 1 < i + 1 /\ queue'[i] = queue[i + 1]
  BY <1>2
<1>4. \A x : Older(x) => Older(x)'
  BY DEF Older, Holding
<1>5. ArrivalOrder' /\ CodingOrder'
  BY <1>1 DEF OrderInv, ArrivalOrder, CodingOrder, Holding
<1>6. QueueOrder'
  <2>1. (\A i \in DOMAIN queue : Older(queue[i].stamp))'
    BY <1>3, <1>4 DEF OrderInv, QueueOrder
  <2>2. \A i, j \in DOMAIN queue' : i < j => queue'[i].stamp < queue'[j].stamp
    <3> SUFFICES ASSUME NEW i \in DOMAIN queue', NEW j \in DOMAIN queue', i < j
                 PROVE  queue[i + 1].stamp < queue[j + 1].stamp
      BY <1>3
    <3> QED  BY <1>2, <1>3 DEF OrderInv, QueueOrder
  <2> QED  BY <2>1, <2>2 DEF QueueOrder
<1>7. 1 \in DOMAIN queue
  BY <1>2
<1>8. FrameOrder'
  <2>1. Older(frame.stamp)'
    <3>1. \A x : x = frame'.stamp => Older(x)'
      BY <1>1, <1>4, <1>7 DEF OrderInv, QueueOrder
    <3> QED  BY <3>1 DEF Older
  <2>2. \A i \in DOMAIN queue' : frame'.stamp < queue'[i].stamp
    BY <1>1, <1>3, <1>7 DEF OrderInv, QueueOrder
  <2> QED  BY <2>1, <2>2 DEF FrameOrder
<1>9. StoredOrder'
  BY <1>1, <1>3, <1>4, <1>7 DEF OrderInv, StoredOrder
<1> QED  BY <1>5, <1>6, <1>8, <1>9 DEF OrderInv

(* The packet of the frame in hand is stored last.                         *)
LEMMA OrderOfStore ==
  ASSUME ShapeInv, OrderInv, Busy, ~Busy', NEW p \in Packets, p.stamp = frame.stamp,
         stored' = Append(stored, p), UNCHANGED <<composed, surfaces, frameCall, queue, thread>>
  PROVE  OrderInv'
<1> USE StampsAreNumbers
<1>1. stored \in Seq(Packets) /\ DOMAIN stored = 1..Len(stored) /\ Len(stored) \in Nat
  BY DEF ShapeInv, EncoderShape
<1>2. /\ DOMAIN stored' = 1..(Len(stored) + 1) /\ stored'[Len(stored) + 1] = p
      /\ \A i \in 1..Len(stored) : stored'[i] = stored[i]
  BY <1>1
<1>3. \A i, j \in DOMAIN stored' : i < j => i \in DOMAIN stored /\ stored'[i] = stored[i]
  BY <1>1, <1>2
<1>4. \A i \in DOMAIN stored' : stored'[i] = p \/ (i \in DOMAIN stored /\ stored'[i] = stored[i])
  BY <1>1, <1>2
<1>5. \A x : Older(x) => Older(x)'
  BY DEF Older, Holding
<1>6. ArrivalOrder' /\ QueueOrder'
  BY <1>5 DEF OrderInv, ArrivalOrder, QueueOrder, Holding
<1>7. FrameOrder' /\ CodingOrder'
  BY DEF FrameOrder, CodingOrder, Busy
<1>8. StoredOrder'
  <2> SUFFICES ASSUME thread # "failed" PROVE StoredOrder'
    BY DEF StoredOrder
  <2>1. \A i, j \in DOMAIN stored' : i < j => stored'[i].stamp < stored'[j].stamp
    <3> SUFFICES ASSUME NEW i \in DOMAIN stored', NEW j \in DOMAIN stored', i < j
                 PROVE  stored'[i].stamp < stored'[j].stamp
      OBVIOUS
    <3>1. i \in DOMAIN stored /\ stored'[i] = stored[i]
      BY <1>3
    <3>2. CASE stored'[j] = p
      BY <3>1, <3>2 DEF OrderInv, StoredOrder
    <3>3. CASE j \in DOMAIN stored /\ stored'[j] = stored[j]
      BY <3>1, <3>3 DEF OrderInv, StoredOrder
    <3> QED  BY <1>4, <3>2, <3>3
  <2>2. (\A i \in DOMAIN stored : Older(stored[i].stamp))'
    <3>1. \A i \in DOMAIN stored' : \A x : x = stored'[i].stamp => Older(x)'
      BY <1>4, <1>5 DEF OrderInv, StoredOrder, FrameOrder
    <3> QED  BY <3>1 DEF Older
  <2>3. \A i \in DOMAIN stored' : \A j \in DOMAIN queue' : stored'[i].stamp < queue'[j].stamp
    BY <1>4 DEF OrderInv, StoredOrder, FrameOrder
  <2> QED  BY <2>1, <2>2, <2>3 DEF StoredOrder
<1> QED  BY <1>6, <1>7, <1>8 DEF OrderInv

(* All of one packet is that packet.                                       *)
LEMMA AllOfOne ==
  ASSUME NEW p \in Packets
  PROVE  SubSeq(<<p>>, 1, 1) = <<p>>
<1> DEFINE s == SubSeq(<<p>>, 1, 1)
<1>1. <<p>> \in Seq(Packets) /\ Len(<<p>>) = 1 /\ <<p>>[1] = p
  OBVIOUS
<1>2. s \in Seq(Packets) /\ Len(s) = 1 /\ s[1] = p
  BY <1>1
<1> HIDE DEF s
<1>3. s = <<p>>
  BY <1>2
<1> QED  BY <1>3 DEF s

(* What becomes of a drain, the frame's or the last one.                   *)
StoresFrame == \E p \in Packets : p.stamp = frame.stamp /\ stored' = Append(stored, p)

FrameDrained ==
  /\ drain.by = "thread" /\ step = "drain" /\ drain'.by = "none" /\ drain'.got = <<>>
  /\ \/ step' = "wait" /\ UNCHANGED <<thread, encodeFault>> /\ StoresFrame
     \/ /\ step' = "done" /\ thread' = "failed" /\ encodeFault' = "runtime"
        /\ UNCHANGED stored
     \/ /\ step' = "done" /\ thread' = "failed" /\ encodeFault' = "other"
        /\ input' = <<>> /\ output' = <<>> /\ (UNCHANGED stored \/ StoresFrame)

LastDrained ==
  /\ drain.by = "recorder" /\ step = "done" /\ UNCHANGED threadVars
  /\ drain'.by \in {"recorder", "none"}
  /\ output = <<>> /\ drain.got = <<>> => UNCHANGED <<stored, output>> /\ drain'.got = <<>>

(* One of two sequences has one element between them.                      *)
LEMMA OneOfTwo ==
  ASSUME NEW A, NEW B, NEW a \in Seq(A), NEW b \in Seq(B), b # <<>>, Len(a) + Len(b) = 1
  PROVE  a = <<>> /\ Tail(b) = <<>>
<1>1. \A S : \A q \in Seq(S) : Len(q) \in Nat /\ (Len(q) = 0 <=> q = <<>>)
  OBVIOUS
<1> DEFINE m == Len(a)  n == Len(b)
<1>2. m \in Nat /\ n \in Nat /\ n # 0 /\ m + n = 1
  BY <1>1
<1> HIDE DEF m, n
<1>3. m = 0 /\ n = 1
  BY ONLY <1>2
<1>4. Len(a) = 0 /\ Len(b) = 1
  BY <1>3 DEF m, n
<1>5. Tail(b) \in Seq(B) /\ Len(Tail(b)) = 0
  BY <1>4
<1> QED  BY <1>1, <1>4, <1>5

(* Each of a drain's steps does one of these.                              *)
LEMMA DrainDetail ==
  ASSUME ShapeInv, EncodeInv, ThreadInv, OrderInv, DrainNext
  PROVE  UNCHANGED <<queue, input>> /\ (FrameDrained \/ LastDrained)
<1>1. drain.by # "none"
  BY DEF DrainNext, FetchPacket, DrainTimesOut, DrainFails, DrainCompletes
<1>2. UNCHANGED <<queue, input>>
  <2>1. ASSUME NEW kind, DrainEnds(kind) PROVE UNCHANGED queue
    BY <2>1 DEF DrainEnds, Fail, queueVars
  <2> QED  BY <2>1 DEF DrainNext, FetchPacket, DrainTimesOut, DrainFails, DrainCompletes,
           AppendDrainedPackets, queueVars
<1>3. CASE drain.by = "recorder"
  <2>1. step = "done"
    BY <1>3 DEF EncodeInv, StepInv, Before, ShapeInv, ThreadShape, Steps
  <2>2. UNCHANGED threadVars
    BY <1>3 DEF DrainNext, FetchPacket, DrainTimesOut, DrainFails, DrainCompletes, AppendDrainedPackets,
       DrainEnds, queueVars, threadVars
  <2>3. drain'.by \in {"recorder", "none"}
    BY <1>3 DEF DrainNext, FetchPacket, DrainTimesOut, DrainFails, DrainCompletes, AppendDrainedPackets,
       DrainEnds, NoDrain, ShapeInv, EncoderShape, DrainShape
  <2>4. ASSUME output = <<>>, drain.got = <<>>
        PROVE  UNCHANGED <<stored, output>> /\ drain'.got = <<>>
    <3>1. UNCHANGED output
      BY <2>4 DEF DrainNext, FetchPacket, DrainTimesOut, DrainFails, DrainCompletes
    <3>2. (UNCHANGED stored /\ drain'.got = <<>>) \/ AppendDrainedPackets(<<>>)
      BY <2>4 DEF DrainNext, FetchPacket, DrainTimesOut, DrainFails, DrainCompletes, DrainEnds, NoDrain
    <3>3. ASSUME NEW n \in 0..Len(<<>>), stored' = stored \o SubSeq(<<>>, 1, n) PROVE UNCHANGED stored
      <4>1. n = 0
        BY <3>3
      <4>2. stored \in Seq(Packets) /\ stored' = stored \o SubSeq(<<>>, 1, 0)
        BY <3>3, <4>1 DEF ShapeInv, EncoderShape
      <4>3. SubSeq(<<>>, 1, 0) = <<>>
        OBVIOUS
      <4> QED  BY <4>2, <4>3
    <3> QED  BY <3>1, <3>2, <3>3 DEF AppendDrainedPackets, DrainEnds, NoDrain
  <2> QED  BY <1>2, <1>3, <2>1, <2>2, <2>3, <2>4 DEF LastDrained
<1>4. CASE drain.by = "thread"
  <2>1. step = "drain" /\ drain.got = <<>>
    BY <1>4 DEF EncodeInv, StepInv
  <2>2. ASSUME NEW kind, DrainEnds(kind)
        PROVE  drain'.by = "none" /\ drain'.got = <<>>
    BY <1>4, <2>2 DEF DrainEnds, NoDrain
  <2>3. ASSUME NEW kind, kind # "none", DrainEnds(kind)
        PROVE  step' = "done" /\ thread' = "failed" /\ encodeFault' = kind
    BY <1>4, <2>3 DEF DrainEnds, Fail
  <2>4. CASE DrainTimesOut \/ DrainFails
    <3>1. DrainEnds("runtime") /\ UNCHANGED stored
      BY <2>1, <2>4 DEF DrainTimesOut, DrainFails
    <3> QED  BY <1>2, <1>4, <2>1, <2>2, <2>3, <3>1 DEF FrameDrained
  <2>5. CASE FetchPacket
    <3> DEFINE p == Head(output)
    <3>0. output \in Seq(Packets) /\ output # <<>>
      BY <2>5 DEF FetchPacket, ShapeInv, EncoderShape
    <3>1. p \in Packets /\ p.stamp = frame.stamp
      <4>1. p = output[1] /\ 1 \in DOMAIN output /\ p \in Packets
        BY <3>0
      <4> QED  BY <2>1, <4>1 DEF OrderInv, CodingOrder
    <3>2. Append(drain.got, p) = <<p>>
      BY <2>1
    <3>3. input' = <<>> /\ output' = <<>>
      <4>1. input \in Seq(Nat) /\ Len(input) + Len(output) = 1
        BY <2>1 DEF ShapeInv, EncoderShape, EncodeInv, StepInv
      <4>2. input = <<>> /\ Tail(output) = <<>>
        BY <3>0, <4>1, OneOfTwo
      <4> QED  BY <1>2, <2>5, <4>2 DEF FetchPacket
    <3> HIDE DEF p
    <3>4. AppendDrainedPackets(<<p>>)
      <4>1. Enough(<<p>>)
        BY <2>1 DEF Enough, EncodeInv, StepInv
      <4> QED  BY <2>5, <3>2, <4>1 DEF FetchPacket, p
    <3>5. PICK n \in 0..Len(<<p>>) :
            /\ stored' = stored \o SubSeq(<<p>>, 1, n)
            /\ (n = Len(<<p>>) /\ DrainEnds("none")) \/ DrainEnds("other")
      BY <3>4 DEF AppendDrainedPackets
    <3>6. stored \in Seq(Packets)
      BY DEF ShapeInv, EncoderShape
    <3>7. CASE n = 0
      <4>1. SubSeq(<<p>>, 1, 0) = <<>>
        OBVIOUS
      <4>2. UNCHANGED stored
        BY <3>5, <3>6, <3>7, <4>1
      <4>3. DrainEnds("other")
        BY <3>5, <3>7
      <4> QED  BY <1>2, <1>4, <2>1, <2>2, <2>3, <3>3, <4>2, <4>3 DEF FrameDrained
    <3>8. CASE n # 0
      <4>1. SubSeq(<<p>>, 1, 1) = <<p>> /\ n = 1
        BY <3>1, <3>5, <3>8, AllOfOne
      <4>2. StoresFrame
        <5>1. stored' = stored \o <<p>>
          BY <3>5, <4>1
        <5>2. stored \o <<p>> = Append(stored, p)
          BY <3>1, <3>6
        <5> QED  BY <3>1, <5>1, <5>2 DEF StoresFrame
      <4>3. CASE DrainEnds("other")
        BY <1>2, <1>4, <2>1, <2>2, <2>3, <3>3, <4>2, <4>3 DEF FrameDrained
      <4>4. CASE DrainEnds("none")
        <5>1. step' = "wait" /\ UNCHANGED <<thread, encodeFault>>
          BY <1>4, <4>4 DEF DrainEnds
        <5> QED  BY <1>2, <1>4, <2>1, <2>2, <4>2, <4>4, <5>1 DEF FrameDrained
      <4> QED  BY <3>5, <4>3, <4>4
    <3> QED  BY <3>7, <3>8
  <2> QED  BY <1>4, <2>4, <2>5 DEF DrainNext, DrainCompletes
<1> QED  BY <1>1, <1>3, <1>4 DEF ShapeInv, EncoderShape, DrainShape

(* So the frame's packet is stored, the thread fails, or there was nothing *)
(* to fetch from a thread that was stopped.                                *)
LEMMA DrainOutcome ==
  ASSUME ShapeInv, EncodeInv, ThreadInv, OrderInv, DrainNext
  PROVE  /\ UNCHANGED queue
         /\ \/ /\ step = "drain" /\ step' = "wait" /\ UNCHANGED thread
               /\ \E p \in Packets : p.stamp = frame.stamp /\ stored' = Append(stored, p)
            \/ step = "drain" /\ step' = "done" /\ thread' = "failed"
            \/ /\ step = "done" /\ UNCHANGED <<step, thread, frame>>
               /\ thread # "failed" => UNCHANGED stored
<1>1. CASE FrameDrained
  BY <1>1, DrainDetail DEF FrameDrained, StoresFrame
<1>2. CASE LastDrained
  BY <1>2, DrainDetail DEF LastDrained, ThreadInv, threadVars
<1> QED  BY <1>1, <1>2, DrainDetail

(* The thread keeps the order,                                             *)
LEMMA OrderOfThread ==
  ASSUME ShapeInv, EncodeInv, ThreadInv, OrderInv, EncodeThread \/ Transform
  PROVE  OrderInv'
<1>1. UNCHANGED <<composed, surfaces, frameCall>>
  BY DEF EncodeThread, Transform, captureVars, wgcVars, callVars
<1>2. CASE Encode
  <2>1. input \in Seq(Nat) /\ input # <<>> /\ output \in Seq(Packets) /\ nv12 \in Nat
    BY <1>2 DEF Encode, ShapeInv, EncoderShape
  <2> DEFINE p == [stamp |-> Head(input), picture |-> nv12]
  <2>2. p \in Packets /\ p.stamp = input[1] /\ 1 \in DOMAIN input
    BY <2>1 DEF Packets
  <2> HIDE DEF p
  <2>3. output' = Append(output, p) /\ input' = Tail(input) /\ UNCHANGED <<queue, thread, step, frame, stored>>
    BY <1>2 DEF Encode, p, queueVars, threadVars
  <2>4. \A i \in DOMAIN output' : output'[i] = p \/ (i \in DOMAIN output /\ output'[i] = output[i])
    BY <2>1, <2>2, <2>3
  <2>5. \A i \in DOMAIN input' : i + 1 \in DOMAIN input /\ input'[i] = input[i + 1]
    BY <2>1, <2>3
  <2>6. CodingOrder'
    BY <2>2, <2>3, <2>4, <2>5 DEF OrderInv, CodingOrder
  <2> QED  BY <1>1, <2>3, <2>6, OrderDownstream DEF Busy
<1>3. CASE PopFrame
  BY <1>1, <1>3, OrderOfPop
<1>4. CASE InitializeCom \/ ThreadEnds \/ FrameRefused \/ SubmitFails \/ LostAfterSubmit
  <2>1. UNCHANGED <<queue, stored>> /\ step' \in {"wait", "done"}
    BY <1>4 DEF InitializeCom, ThreadEnds, FrameRefused, SubmitFails, LostAfterSubmit, Fail, queueVars
  <2>2. thread # "failed"
    BY <1>4 DEF InitializeCom, ThreadEnds, FrameRefused, SubmitFails, LostAfterSubmit, ThreadInv
  <2>3. ~Busy' /\ CodingOrder'
    BY <2>1 DEF Busy, CodingOrder
  <2> QED  BY <1>1, <2>1, <2>2, <2>3, OrderDownstream
<1>5. CASE SubmitFrame
  <2>1. UNCHANGED <<queue, stored, thread, frame>> /\ step = "frame" /\ step' = "drain"
    BY <1>5 DEF SubmitFrame, queueVars
  <2>2. input = <<>> /\ output = <<>>
    BY <2>1 DEF EncodeInv, StepInv, Before
  <2>3. input' = <<frame.stamp>> /\ output' = <<>>
    BY <1>5, <2>2 DEF SubmitFrame, ProcessInput
  <2>4. DOMAIN input' = {1} /\ input'[1] = frame.stamp /\ DOMAIN output' = {}
    BY <2>3
  <2>5. CodingOrder'
    BY <2>1, <2>4 DEF CodingOrder
  <2> QED  BY <1>1, <2>1, <2>5, OrderDownstream DEF Busy
<1>6. CASE DrainNext
  <2>1. UNCHANGED queue
    BY <1>6, DrainOutcome
  <2>2. CASE /\ step = "drain" /\ step' = "wait" /\ UNCHANGED thread
             /\ \E p \in Packets : p.stamp = frame.stamp /\ stored' = Append(stored, p)
    BY <1>1, <2>1, <2>2, OrderOfStore DEF Busy
  <2>3. CASE step = "drain" /\ step' = "done" /\ thread' = "failed"
    <3>1. ~Busy' /\ CodingOrder'
      BY <2>3 DEF Busy, CodingOrder
    <3> QED  BY <1>1, <2>1, <2>3, <3>1, OrderDownstream
  <2>4. CASE /\ step = "done" /\ UNCHANGED <<step, thread, frame>>
             /\ thread # "failed" => UNCHANGED stored
    <3>1. ~Busy' /\ CodingOrder'
      BY <2>4 DEF Busy, CodingOrder
    <3> QED  BY <1>1, <2>1, <2>4, <3>1, OrderDownstream
  <2> QED  BY <1>6, <2>2, <2>3, <2>4, DrainOutcome
<1> QED  BY <1>2, <1>3, <1>4, <1>5, <1>6 DEF EncodeThread, Transform, ThreadNext

(* and so does the recorder.                                               *)
LEMMA OrderOfRecorder ==
  ASSUME ShapeInv, EncodeInv, ThreadInv, OrderInv, Recorder \/ WakeUpUnasked, ~RemoveHandlers
  PROVE  OrderInv'
<1>1. UNCHANGED <<composed, surfaces, frameCall, frame, input, output, stored>>
  BY DEF Recorder, StartVideo, StartThread, CaptureStarts, StartCapture, CaptureCannotStart, AskToStop, Poll,
     PollFinds, LeaveLoop, LookForCallbacks, Block, WakeUp, WakeUpUnasked, ClearCapture, DrainQueuedFrames,
     DrainEncoder, FinalizeBegins, NothingToDrain, EncoderDrained, NeverStarted, Reset, captureVars, wgcVars,
     callVars, encodeVars, threadVars, encoderVars
<1>2. queue' = queue \/ queue' = <<>>
  BY DEF Recorder, StartVideo, StartThread, CaptureStarts, StartCapture, CaptureCannotStart, AskToStop, Poll,
     PollFinds, LeaveLoop, LookForCallbacks, Block, WakeUp, WakeUpUnasked, ClearCapture, DrainQueuedFrames,
     ClearQueuedFrames, DrainEncoder, FinalizeBegins, NothingToDrain, EncoderDrained, NeverStarted, Reset,
     encodeVars, queueVars
<1>3. UNCHANGED step \/ step' = "starting"
  BY DEF Recorder, StartVideo, StartThread, CaptureStarts, StartCapture, CaptureCannotStart, AskToStop, Poll,
     PollFinds, LeaveLoop, LookForCallbacks, Block, WakeUp, WakeUpUnasked, ClearCapture, DrainQueuedFrames,
     DrainEncoder, FinalizeBegins, NothingToDrain, EncoderDrained, NeverStarted, Reset, encodeVars, threadVars
<1>4. thread = "failed" => thread' = "failed"
  BY DEF Recorder, StartVideo, StartThread, CaptureStarts, StartCapture, CaptureCannotStart, AskToStop, Poll,
     PollFinds, LeaveLoop, LookForCallbacks, Block, WakeUp, WakeUpUnasked, ClearCapture, DrainQueuedFrames,
     DrainEncoder, FinalizeBegins, NothingToDrain, EncoderDrained, NeverStarted, Reset, encodeVars, threadVars
<1>5. (Busy' => Busy) /\ CodingOrder'
  BY <1>1, <1>3 DEF Busy, OrderInv, CodingOrder
<1> QED  BY <1>1, <1>2, <1>4, <1>5, OrderDownstream

(* So it always holds.                                                     *)
LEMMA Orders == Spec => []OrderInv
<1>1. Init => OrderInv
  BY DEF Init, CaptureInit, EncodeInit, NoCall, OrderInv, ArrivalOrder, QueueOrder, FrameOrder, StoredOrder,
     CodingOrder, Holding, Busy
<1>2. ShapeInv /\ EncodeInv /\ ThreadInv /\ OrderInv /\ [Next]_vars => OrderInv'
  <2> SUFFICES ASSUME ShapeInv, EncodeInv, ThreadInv, OrderInv, [Next]_vars PROVE OrderInv'
    OBVIOUS
  <2>1. CASE UNCHANGED vars
    <3>1. UNCHANGED <<composed, surfaces, frameCall, queue, thread, step, frame, input, output, stored>>
      BY <2>1 DEF vars, captureVars, wgcVars, callVars, encodeVars, queueVars, threadVars, encoderVars
    <3>2. CodingOrder'
      BY <3>1 DEF OrderInv, CodingOrder
    <3> QED  BY <3>1, <3>2, OrderDownstream DEF Busy
  <2> QED  BY <2>1, OrderOfCapture, OrderOfDeliver, OrderOfThread, OrderOfRecorder DEF Next, Gone, Recorder
<1> QED  BY Shapes, Encodings, Threads, <1>1, <1>2, PTL DEF Spec

-----------------------------------------------------------------------------
(* No frame that was counted is lost while the thread works: it is queued, *)
(* in hand, or stored.  The count follows the delivery, with what had to   *)
(* leave the queue for it.                                                 *)

InHand == IF Busy THEN 1 ELSE 0
ToBeCounted == IF frameCall.pc = "counting" THEN 1 - frameCall.stamp ELSE 0

CountInv ==
  thread # "failed" =>
    Len(stored) + InHand + Len(queue) + dropped = accepted + ToBeCounted

CountShape ==
  accepted \in Nat /\ dropped \in Nat

countInvVars == <<thread, stored, step, queue, dropped, accepted, frameCall>>

(* Steps elsewhere do not matter.                                          *)
LEMMA CountStays == CountInv /\ UNCHANGED countInvVars => CountInv'
BY DEF CountInv, InHand, Busy, ToBeCounted, countInvVars

(* Lengths and counters are numbers.                                       *)
LEMMA LengthsAreNumbers ==
  ASSUME ShapeInv, CountShape
  PROVE  /\ Len(stored) \in Nat /\ Len(queue) \in Nat /\ accepted \in Nat /\ dropped \in Nat
         /\ frameCall.stamp \in Nat /\ InHand \in Nat /\ ToBeCounted \in Int
<1>1. Len(stored) \in Nat /\ Len(queue) \in Nat /\ frameCall.stamp \in Nat
  BY DEF ShapeInv, EncoderShape, ThreadShape, CallShape
<1> QED  BY <1>1 DEF InHand, ToBeCounted, CountShape

(* The counters count.                                                     *)
LEMMA CountersAreNumbers == Spec => []CountShape
<1>1. Init => CountShape
  BY DEF Init, CaptureInit, CountShape
<1>2. ShapeInv /\ CountShape /\ [Next]_vars => CountShape'
  <2> SUFFICES ASSUME ShapeInv, CountShape, [Next]_vars PROVE CountShape'
    OBVIOUS
  <2>1. CASE Count
    BY <2>1 DEF Count, CountFrame, CountShape, ShapeInv, CallShape
  <2>2. CASE FrameThread
    <3>1. UNCHANGED accepted /\ (UNCHANGED dropped \/ dropped' = dropped + 1)
      BY <2>2 DEF FrameThread, Callbacks, FrameArrives, SeesRunning, TakeFrame, NoMoreFrames, FrameIsUnusable,
         AcquireTexture, TextureIsCreated, CopyTexture, CallbackFails, LeaveFrame, ItemCloses,
         ClosedSeesRunning, ReportClosed, LeaveClosed, countVars
    <3> QED  BY <3>1 DEF CountShape
  <2>3. CASE Windows \/ EncodeThread \/ Transform \/ Deliver \/ Notify \/ Gone \/ UNCHANGED vars
    BY <2>3 DEF Windows, Compose, EncodeThread, Transform, Deliver, Notify, Gone, vars, captureVars, countVars,
       CountShape
  <2>4. CASE Recorder \/ WakeUpUnasked
    BY <2>4 DEF Recorder, StartVideo, CaptureStarts, StartCapture, CaptureCannotStart, Poll, PollFinds,
       LeaveLoop, RemoveHandlers, LookForCallbacks, Block, WakeUp, WakeUpUnasked, ClearCapture,
       DrainQueuedFrames, DrainEncoder, NothingToDrain, EncoderDrained, NeverStarted, Reset, captureVars,
       countVars, CountShape
  <2> QED  BY <2>1, <2>2, <2>3, <2>4 DEF Next
<1> QED  BY Shapes, <1>1, <1>2, PTL DEF Spec

(* The capture counts a frame once it is delivered, and none it never      *)
(* delivered, as it always has a texture.                                  *)
LEMMA CountOfCapture ==
  ASSUME ShapeInv, LeaseInv, PoolInv, CountShape, CountInv, FrameThread \/ Count
  PROVE  CountInv'
<1> USE LengthsAreNumbers
<1>1. UNCHANGED <<thread, stored, step, queue>>
  BY DEF FrameThread, Count, encodeVars, queueVars, threadVars
<1>2. CASE Count
  <2>1. /\ frameCall.pc = "counting" /\ frameCall'.pc = "looking"
        /\ accepted' = accepted + 1 /\ dropped' = dropped + frameCall.stamp
    BY <1>2 DEF Count, CountFrame, LookAgain, NoCall
  <2>2. ToBeCounted = 1 - frameCall.stamp /\ ToBeCounted' = 0
    BY <2>1 DEF ToBeCounted
  <2>3. InHand' = InHand
    BY <1>1 DEF InHand, Busy
  <2> SUFFICES ASSUME thread # "failed"
               PROVE  Len(stored)' + InHand' + Len(queue)' + dropped' = accepted' + ToBeCounted'
    BY <1>1 DEF CountInv
  <2>4. Len(stored) + InHand + Len(queue) + dropped = accepted + (1 - frameCall.stamp)
    BY <2>2 DEF CountInv
  <2>5. Len(stored)' = Len(stored) /\ Len(queue)' = Len(queue)
    BY <1>1
  <2>6. \A s, h, q, d, a, k \in Int :
           s + h + q + d = a + (1 - k) => s + h + q + (d + k) = (a + 1) + 0
    OBVIOUS
  <2>7. /\ Len(stored) \in Int /\ InHand \in Int /\ Len(queue) \in Int /\ dropped \in Int
        /\ accepted \in Int /\ frameCall.stamp \in Int
    BY LengthsAreNumbers
  <2>8. Len(stored) + InHand + Len(queue) + (dropped + frameCall.stamp) = (accepted + 1) + 0
    BY ONLY <2>4, <2>6, <2>7
  <2> QED  BY ONLY <2>1, <2>2, <2>3, <2>5, <2>8
<1>3. CASE FrameThread
  <2>1. UNCHANGED <<accepted, dropped>>
    BY <1>3, NeverExhausted DEF FrameThread, Callbacks, FrameArrives, SeesRunning, TakeFrame, NoMoreFrames,
       FrameIsUnusable, AcquireTexture, TextureIsCreated, CopyTexture, CallbackFails, LeaveFrame, ItemCloses,
       ClosedSeesRunning, ReportClosed, LeaveClosed, countVars
  <2>2. UNCHANGED frameCall \/ (frameCall.pc # "counting" /\ frameCall'.pc # "counting")
    <3>0. frameCall \in [pc : FramePlaces, stamp : Nat, texture : SUBSET Textures]
      BY DEF ShapeInv, CallShape
    <3>1. CASE FrameArrives \/ SeesRunning \/ TakeFrame \/ NoMoreFrames \/ FrameIsUnusable
      BY <3>0, <3>1 DEF FrameArrives, SeesRunning, TakeFrame, NoMoreFrames, FrameIsUnusable, Goto, LookAgain, NoCall
    <3>2. CASE AcquireTexture \/ TextureIsCreated \/ CopyTexture \/ CallbackFails \/ LeaveFrame
      BY <3>0, <3>2 DEF AcquireTexture, TextureIsCreated, CopyTexture, CallbackFails, LeaveFrame, Goto,
         LookAgain, NoCall
    <3>3. CASE ItemCloses \/ ClosedSeesRunning \/ ReportClosed \/ LeaveClosed
      BY <3>3 DEF ItemCloses, ClosedSeesRunning, ReportClosed, LeaveClosed
    <3> QED  BY <1>3, <3>1, <3>2, <3>3 DEF FrameThread, Callbacks
  <2>3. ToBeCounted' = ToBeCounted /\ InHand' = InHand
    BY <1>1, <2>2 DEF ToBeCounted, InHand, Busy
  <2> QED  BY <1>1, <2>1, <2>3 DEF CountInv
<1> QED  BY <1>2, <1>3

(* A delivery adds one frame, and says how many it has displaced.          *)
LEMMA CountOfDeliver ==
  ASSUME ShapeInv, CountShape, CountInv, Deliver
  PROVE  CountInv'
<1> USE LengthsAreNumbers
<1>1. /\ UNCHANGED <<thread, stored, step, accepted, dropped>> /\ frameCall.pc = "copied"
      /\ frameCall \in [pc : FramePlaces, stamp : Nat, texture : SUBSET Textures]
  BY DEF Deliver, threadVars, countVars, ShapeInv, CallShape
<1>2. InHand' = InHand /\ ToBeCounted = 0
  BY <1>1 DEF InHand, Busy, ToBeCounted
<1>3. CASE ~accepting
  <2>1. UNCHANGED queue /\ ToBeCounted' = 0
    BY <1>3 DEF Deliver, LookAgain, NoCall, ToBeCounted
  <2> QED  BY <1>1, <1>2, <2>1 DEF CountInv
<1>4. CASE accepting
  <2>1. frameCall'.pc = "counting" /\ frameCall'.stamp = Dropped
    BY <1>1, <1>4 DEF Deliver
  <2>2. Dropped \in Nat /\ ToBeCounted' = 1 - Dropped
    BY <2>1 DEF Dropped, ToBeCounted
  <2>3. Len(queue') = Len(queue) + 1 - Dropped
    <3> DEFINE new == [stamp |-> frameCall.stamp, texture |-> frameCall.texture]
    <3>1. Push(new)
      BY <1>4 DEF Deliver
    <3> HIDE DEF new
    <3>2. queue \in Seq(Frames)
      BY DEF ShapeInv, ThreadShape
    <3>3. CASE Overflows
      BY <3>1, <3>3 DEF Push, Dropped
    <3>4. CASE ~Overflows
      BY <3>1, <3>2, <3>4 DEF Push, Dropped
    <3> QED  BY <3>3, <3>4
  <2> SUFFICES ASSUME thread # "failed"
               PROVE  Len(stored)' + InHand' + Len(queue)' + dropped' = accepted' + ToBeCounted'
    BY <1>1 DEF CountInv
  <2>4. Len(stored) + InHand + Len(queue) + dropped = accepted + 0
    BY <1>2 DEF CountInv
  <2>5. Len(stored)' = Len(stored) /\ InHand' = InHand /\ UNCHANGED <<accepted, dropped>>
    BY <1>1, <1>2
  <2>6. \A s, h, q, d, a, k \in Int :
           s + h + q + d = a + 0 => s + h + (q + 1 - k) + d = a + (1 - k)
    OBVIOUS
  <2>7. /\ Len(stored) \in Int /\ InHand \in Int /\ Len(queue) \in Int /\ dropped \in Int
        /\ accepted \in Int /\ Dropped \in Int
    BY <2>2, LengthsAreNumbers
  <2>8. Len(stored) + InHand + (Len(queue) + 1 - Dropped) + dropped = accepted + (1 - Dropped)
    BY ONLY <2>4, <2>6, <2>7
  <2> QED  BY ONLY <2>2, <2>3, <2>5, <2>8
<1> QED  BY <1>3, <1>4

(* The thread moves frames on, one at a time.                              *)
LEMMA CountOfThread ==
  ASSUME ShapeInv, EncodeInv, ThreadInv, OrderInv, CountShape, CountInv, EncodeThread \/ Transform
  PROVE  CountInv'
<1> USE LengthsAreNumbers
<1>1. UNCHANGED <<accepted, dropped, frameCall>> /\ ToBeCounted' = ToBeCounted
  BY DEF EncodeThread, Transform, captureVars, callVars, countVars, ToBeCounted
<1>2. CASE Encode \/ ThreadEnds \/ SubmitFrame
  <2>1. (UNCHANGED <<queue, stored>> /\ thread # "failed") \/ UNCHANGED <<queue, stored, thread>>
    BY <1>2 DEF Encode, ThreadEnds, SubmitFrame, queueVars, threadVars
  <2>2. InHand' = InHand
    BY <1>2 DEF Encode, ThreadEnds, SubmitFrame, threadVars, InHand, Busy
  <2> QED  BY <1>1, <2>1, <2>2 DEF CountInv
<1>3. CASE InitializeCom \/ FrameRefused \/ SubmitFails \/ LostAfterSubmit
  <2>1. \/ thread' = "failed"
        \/ UNCHANGED <<queue, stored, thread>> /\ ~Busy /\ ~Busy'
    BY <1>3 DEF InitializeCom, FrameRefused, SubmitFails, LostAfterSubmit, Fail, queueVars, Busy
  <2> QED  BY <1>1, <2>1 DEF CountInv, InHand
<1>4. CASE PopFrame
  <2>1. /\ queue \in Seq(Frames) /\ queue # <<>> /\ queue' = Tail(queue) /\ UNCHANGED <<thread, stored>>
        /\ step = "wait" /\ step' = "frame"
    BY <1>4 DEF PopFrame, ShapeInv, ThreadShape
  <2>2. Len(queue') = Len(queue) - 1
    BY <2>1
  <2>3. InHand = 0 /\ InHand' = 1
    BY <2>1 DEF InHand, Busy
  <2> QED  BY <1>1, <2>1, <2>2, <2>3 DEF CountInv
<1>5. CASE DrainNext
  <2>1. UNCHANGED queue
    BY <1>5, DrainOutcome
  <2>2. CASE /\ step = "drain" /\ step' = "wait" /\ UNCHANGED thread
             /\ \E p \in Packets : p.stamp = frame.stamp /\ stored' = Append(stored, p)
    <3>1. InHand = 1 /\ InHand' = 0
      BY <2>2 DEF InHand, Busy
    <3>2. Len(stored') = Len(stored) + 1
      BY <2>2 DEF ShapeInv, EncoderShape
    <3> QED  BY <1>1, <2>1, <2>2, <3>1, <3>2 DEF CountInv
  <2>3. CASE thread' = "failed"
    BY <2>3 DEF CountInv
  <2>4. CASE /\ step = "done" /\ UNCHANGED <<step, thread, frame>>
             /\ thread # "failed" => UNCHANGED stored
    BY <1>1, <2>1, <2>4 DEF CountInv, InHand, Busy
  <2> QED  BY <1>5, <2>2, <2>3, <2>4, DrainOutcome
<1> QED  BY <1>2, <1>3, <1>4, <1>5 DEF EncodeThread, Transform, ThreadNext

(* The recorder clears the queue only when the thread has left, and a      *)
(* thread that was stopped leaves nothing there.                           *)
LEMMA CountOfRecorder ==
  ASSUME ShapeInv, EncodeInv, ThreadInv, CountShape, CountInv, Recorder \/ WakeUpUnasked
  PROVE  CountInv'
<1> USE LengthsAreNumbers
<1>1. UNCHANGED <<accepted, dropped, frameCall, stored>>
  BY DEF Recorder, StartVideo, StartThread, CaptureStarts, StartCapture, CaptureCannotStart, AskToStop, Poll,
     PollFinds, LeaveLoop, RemoveHandlers, LookForCallbacks, Block, WakeUp, WakeUpUnasked, ClearCapture,
     DrainQueuedFrames, DrainEncoder, FinalizeBegins, NothingToDrain, EncoderDrained, NeverStarted, Reset,
     captureVars, callVars, countVars, encodeVars
<1>2. CASE DrainQueuedFrames \/ Reset
  <2>1. UNCHANGED <<thread, step>> /\ (UNCHANGED queue \/ queue' = <<>>)
    BY <1>2 DEF DrainQueuedFrames, Reset, ClearQueuedFrames, threadVars
  <2>2. step = "done"
    BY <1>2 DEF DrainQueuedFrames, Joined, Reset, EncodeInv, StepInv
  <2>3. thread # "failed" => UNCHANGED queue
    BY <2>1, <2>2 DEF ThreadInv
  <2> QED  BY <1>1, <2>1, <2>3 DEF CountInv, InHand, Busy, ToBeCounted
<1>3. CASE StartVideo \/ CaptureCannotStart \/ ClearCapture
  <2>1. UNCHANGED queue /\ (thread = "failed" => thread' = "failed")
    BY <1>3 DEF StartVideo, StartThread, CaptureCannotStart, ClearCapture, AskToStop
  <2>2. UNCHANGED step \/ (step = "none" /\ step' = "starting")
    BY <1>3 DEF StartVideo, StartThread, CaptureCannotStart, ClearCapture, AskToStop, EncodeInv, StepInv
  <2> QED  BY <1>1, <2>1, <2>2 DEF CountInv, InHand, Busy, ToBeCounted
<1>4. CASE CaptureStarts \/ Poll \/ LeaveLoop \/ RemoveHandlers \/ LookForCallbacks
  <2>1. UNCHANGED <<queue, thread, step>>
    BY <1>4 DEF CaptureStarts, Poll, LeaveLoop, RemoveHandlers, LookForCallbacks, encodeVars, queueVars, threadVars
  <2> QED  BY <1>1, <2>1, CountStays DEF countInvVars
<1>5. CASE \/ Block \/ WakeUp \/ WakeUpUnasked \/ DrainEncoder \/ NothingToDrain \/ EncoderDrained
           \/ NeverStarted
  <2>1. UNCHANGED <<queue, thread, step>>
    BY <1>5 DEF Block, WakeUp, WakeUpUnasked, DrainEncoder, FinalizeBegins, NothingToDrain, EncoderDrained,
       NeverStarted, encodeVars, queueVars, threadVars
  <2> QED  BY <1>1, <2>1, CountStays DEF countInvVars
<1> QED  BY <1>2, <1>3, <1>4, <1>5 DEF Recorder

(* So it always holds.                                                     *)
LEMMA Counts == Spec => []CountInv
<1>1. Init => CountInv
  BY DEF Init, CaptureInit, EncodeInit, NoCall, CountInv, InHand, Busy, ToBeCounted
<1>2. /\ ShapeInv /\ EncodeInv /\ LeaseInv /\ PoolInv /\ ThreadInv /\ OrderInv /\ CountShape /\ CountInv
      /\ [Next]_vars
      => CountInv'
  <2> SUFFICES ASSUME ShapeInv, EncodeInv, LeaseInv, PoolInv, ThreadInv, OrderInv, CountShape, CountInv,
                      [Next]_vars
               PROVE  CountInv'
    OBVIOUS
  <2>1. CASE Windows \/ Gone \/ UNCHANGED vars
    BY <2>1, CountStays DEF Windows, Compose, Gone, vars, captureVars, callVars, countVars, encodeVars,
       queueVars, threadVars, countInvVars
  <2>2. CASE Notify
    <3>1. UNCHANGED <<thread, stored, step, queue, dropped, accepted>>
      BY <2>2 DEF Notify, encodeVars, queueVars, threadVars, countVars
    <3>2. UNCHANGED frameCall \/ (frameCall.pc # "counting" /\ frameCall'.pc # "counting")
      BY <2>2 DEF Notify, NoCall
    <3> QED  BY <3>1, <3>2 DEF CountInv, InHand, Busy, ToBeCounted
  <2> QED  BY <2>1, <2>2, CountOfCapture, CountOfDeliver, CountOfThread, CountOfRecorder DEF Next
<1> QED  BY Shapes, Encodings, Leasing, Pools, Threads, Orders, CountersAreNumbers, <1>1, <1>2, PTL DEF Spec

(* When a recording ends and nothing has failed, each frame the capture    *)
(* counts as taken and not dropped is in the store, once and in order; and *)
(* with two textures more than the queue holds frames none is ever lost    *)
(* for want of a texture, for any such pool, queue, number of surfaces and *)
(* of frames (VideoRecorderPipeline.cpp:367).                              *)
THEOREM NoFrameIsLost == Spec => []CapturedIsStored
<1>1. ShapeInv /\ StopInv /\ EncodeInv /\ LeaseInv /\ PoolInv /\ ThreadInv /\ OrderInv /\ CountShape
      /\ CountInv => CapturedIsStored
  <2> SUFFICES ASSUME ShapeInv, StopInv, EncodeInv, LeaseInv, PoolInv, ThreadInv, OrderInv, CountShape, CountInv
               PROVE  CapturedIsStored
    OBVIOUS
  <2>1. ASSUME worker = "ended", ~failed PROVE Len(stored) + dropped = accepted
    <3>1. step = "done" /\ thread = "stopped" /\ queue = <<>>
      BY <2>1 DEF EncodeInv, StepInv, ThreadInv
    <3>2. frameCall.pc # "counting"
      BY <2>1 DEF StopInv, Calm, Cleared
    <3>3. InHand = 0 /\ ToBeCounted = 0 /\ Len(queue) = 0
      BY <3>1, <3>2 DEF InHand, Busy, ToBeCounted
    <3>4. Len(stored) + InHand + Len(queue) + dropped = accepted + ToBeCounted
      BY <3>1 DEF CountInv
    <3> QED  BY <3>3, <3>4, LengthsAreNumbers
  <2>2. ASSUME worker = "ended", ~failed, NEW i \in 1..(Len(stored) - 1)
        PROVE  stored[i].stamp < stored[i + 1].stamp
    <3>1. thread # "failed"
      BY <2>2 DEF ThreadInv
    <3>2. DOMAIN stored = 1..Len(stored) /\ Len(stored) \in Nat
      BY DEF ShapeInv, EncoderShape
    <3>3. i \in DOMAIN stored /\ i + 1 \in DOMAIN stored /\ i < i + 1
      BY <3>2
    <3> QED  BY <3>1, <3>3 DEF OrderInv, StoredOrder
  <2> QED  BY <2>1, <2>2, NeverExhausted DEF CapturedIsStored
<1> QED  BY Shapes, Stops, Encodings, Leasing, Pools, Threads, Orders, CountersAreNumbers, Counts, <1>1, PTL

-----------------------------------------------------------------------------
(* VideoPath implements the video half of MediaPath.  What that needs more *)
(* than the order of frames: stamps are those of frames, the capture has   *)
(* its runtime when the worker is between start and clear, and the encoder *)
(* the recorder drains at the end has nothing left.                        *)

StampInv ==
  /\ composed <= MaxFrames
  /\ \A i \in DOMAIN surfaces : surfaces[i] >= 1
  /\ Holding => frameCall.stamp >= 1
  /\ \A i \in DOMAIN queue : queue[i].stamp >= 1
  /\ Busy => frame.stamp >= 1

(* Neither do callbacks forget the stamp, nor Windows.                     *)
LEMMA StampsOfCapture ==
  ASSUME ShapeInv, StampInv, FrameThread \/ Windows \/ Count \/ Notify \/ RemoveHandlers
  PROVE  StampInv'
<1> USE StampsAreNumbers
<1>1. UNCHANGED wayVars
  BY DEF FrameThread, Windows, Count, Notify, RemoveHandlers, encodeVars, queueVars, threadVars,
     encoderVars, wayVars
<1>2. CASE Windows
  <2>1. composed' = composed + 1 /\ UNCHANGED frameCall /\ composed < MaxFrames /\ MaxFrames \in Nat
    BY <1>2, SurfacesAssumption DEF Windows, Compose, callVars
  <2>2. \A i \in DOMAIN surfaces' : \/ i \in DOMAIN surfaces /\ surfaces'[i] = surfaces[i]
                                    \/ surfaces'[i] = composed'
    <3>1. CASE surfaces' = Append(surfaces, composed')
      <4>1. surfaces \in Seq(Nat) /\ composed' \in Nat
        BY <2>1 DEF ShapeInv, CallShape
      <4> QED  BY <3>1, <4>1
    <3>2. CASE UNCHANGED surfaces
      BY <3>2
    <3> QED  BY <1>2, <3>1, <3>2 DEF Windows, Compose
  <2>3. composed' <= MaxFrames /\ composed' >= 1
    BY <2>1
  <2> QED  BY <1>1, <2>1, <2>2, <2>3 DEF StampInv, wayVars, Holding, Busy
<1>3. CASE TakeFrame /\ frameCall' # frameCall
  <2>1. /\ surfaces # <<>> /\ surfaces' = <<>> /\ UNCHANGED composed
        /\ frameCall'.stamp = surfaces[Len(surfaces)]
    BY <1>3 DEF TakeFrame
  <2>2. Len(surfaces) \in DOMAIN surfaces /\ DOMAIN surfaces' = {}
    BY <2>1 DEF ShapeInv, CallShape
  <2> QED  BY <1>1, <2>1, <2>2 DEF StampInv, wayVars, Busy
<1>4. ASSUME UNCHANGED composed, surfaces' = surfaces \/ surfaces' = <<>>,
             Holding' => Holding /\ frameCall'.stamp = frameCall.stamp
      PROVE  StampInv'
  <2>1. surfaces' = surfaces \/ DOMAIN surfaces' = {}
    BY <1>4
  <2> QED  BY <1>1, <1>4, <2>1 DEF StampInv, wayVars, Busy
<1>5. CASE (FrameThread /\ ~(TakeFrame /\ frameCall' # frameCall)) \/ Count \/ Notify \/ RemoveHandlers
  BY <1>4, <1>5, CallKeepsStamp
<1> QED  BY <1>2, <1>3, <1>5

(* A frame that is delivered has the stamp of the call.                    *)
LEMMA StampsOfDeliver ==
  ASSUME ShapeInv, StampInv, Deliver
  PROVE  StampInv'
<1> USE StampsAreNumbers
<1>1. /\ UNCHANGED <<composed, surfaces, frame, step>>
      /\ Holding /\ ~Holding'
  BY DEF Deliver, threadVars, encoderVars, wgcVars, LookAgain, NoCall, Holding, ShapeInv, CallShape
<1>2. \A i \in DOMAIN queue' : \/ queue'[i].stamp = frameCall.stamp
                               \/ i \in DOMAIN queue /\ queue'[i] = queue[i]
  <2>1. CASE accepting
    BY <2>1, DeliveredIs
  <2>2. CASE ~accepting
    BY <2>2 DEF Deliver
  <2> QED  BY <2>1, <2>2
<1> QED  BY <1>1, <1>2 DEF StampInv, Busy

(* The thread moves a stamp on,                                            *)
LEMMA StampsOfThread ==
  ASSUME ShapeInv, EncodeInv, ThreadInv, OrderInv, StampInv, EncodeThread \/ Transform
  PROVE  StampInv'
<1> USE StampsAreNumbers
<1>1. UNCHANGED <<composed, surfaces, frameCall>>
  BY DEF EncodeThread, Transform, captureVars, wgcVars, callVars
<1>2. CASE PopFrame
  <2>1. queue \in Seq(Frames) /\ queue # <<>> /\ frame' = queue[1] /\ queue' = Tail(queue)
    BY <1>2 DEF PopFrame, ShapeInv, ThreadShape
  <2>2. /\ 1 \in DOMAIN queue
        /\ \A i \in DOMAIN queue' : i + 1 \in DOMAIN queue /\ queue'[i] = queue[i + 1]
    BY <2>1
  <2> QED  BY <1>1, <2>1, <2>2 DEF StampInv, Holding
<1>3. ASSUME UNCHANGED queue, Busy' => Busy /\ UNCHANGED frame
      PROVE  StampInv'
  BY <1>1, <1>3 DEF StampInv, Holding
<1>4. CASE Encode
  BY <1>3, <1>4 DEF Encode, queueVars, threadVars, Busy
<1>5. CASE InitializeCom \/ ThreadEnds \/ FrameRefused \/ SubmitFails \/ LostAfterSubmit \/ SubmitFrame
  <2>1. UNCHANGED queue /\ (Busy' => Busy /\ UNCHANGED frame)
    BY <1>5 DEF InitializeCom, ThreadEnds, FrameRefused, SubmitFails, LostAfterSubmit, SubmitFrame, Fail,
       queueVars, Busy
  <2> QED  BY <1>3, <2>1
<1>6. CASE DrainNext
  <2>1. UNCHANGED queue /\ ~Busy'
    BY <1>6, DrainOutcome DEF Busy
  <2> QED  BY <1>3, <2>1
<1> QED  BY <1>2, <1>4, <1>5, <1>6 DEF EncodeThread, Transform, ThreadNext

(* and the recorder at most clears the queue.                              *)
LEMMA StampsOfRecorder ==
  ASSUME ShapeInv, EncodeInv, ThreadInv, StampInv, Recorder \/ WakeUpUnasked, ~RemoveHandlers
  PROVE  StampInv'
<1>1. UNCHANGED <<composed, surfaces, frameCall, frame>>
  BY DEF Recorder, StartVideo, StartThread, CaptureStarts, StartCapture, CaptureCannotStart, AskToStop, Poll,
     PollFinds, LeaveLoop, LookForCallbacks, Block, WakeUp, WakeUpUnasked, ClearCapture, DrainQueuedFrames,
     DrainEncoder, FinalizeBegins, NothingToDrain, EncoderDrained, NeverStarted, Reset, captureVars, wgcVars,
     callVars, encodeVars, threadVars, encoderVars
<1>2. queue' = queue \/ queue' = <<>>
  BY DEF Recorder, StartVideo, StartThread, CaptureStarts, StartCapture, CaptureCannotStart, AskToStop, Poll,
     PollFinds, LeaveLoop, LookForCallbacks, Block, WakeUp, WakeUpUnasked, ClearCapture, DrainQueuedFrames,
     ClearQueuedFrames, DrainEncoder, FinalizeBegins, NothingToDrain, EncoderDrained, NeverStarted, Reset,
     encodeVars, queueVars
<1>3. UNCHANGED step \/ step' = "starting"
  BY DEF Recorder, StartVideo, StartThread, CaptureStarts, StartCapture, CaptureCannotStart, AskToStop, Poll,
     PollFinds, LeaveLoop, LookForCallbacks, Block, WakeUp, WakeUpUnasked, ClearCapture, DrainQueuedFrames,
     DrainEncoder, FinalizeBegins, NothingToDrain, EncoderDrained, NeverStarted, Reset, encodeVars, threadVars
<1>4. queue' = queue \/ DOMAIN queue' = {}
  BY <1>2
<1>5. Busy' => Busy
  BY <1>3 DEF Busy
<1> QED  BY <1>1, <1>4, <1>5 DEF StampInv, Holding

(* So stamps are always those of frames.                                   *)
LEMMA Stamps == Spec => []StampInv
<1>1. Init => StampInv
  BY SurfacesAssumption DEF Init, CaptureInit, EncodeInit, NoCall, StampInv, Holding, Busy
<1>2. ShapeInv /\ EncodeInv /\ ThreadInv /\ OrderInv /\ StampInv /\ [Next]_vars => StampInv'
  <2> SUFFICES ASSUME ShapeInv, EncodeInv, ThreadInv, OrderInv, StampInv, [Next]_vars PROVE StampInv'
    OBVIOUS
  <2>1. CASE UNCHANGED vars
    BY <2>1 DEF vars, captureVars, wgcVars, callVars, encodeVars, queueVars, threadVars, encoderVars,
       StampInv, Holding, Busy
  <2> QED  BY <2>1, StampsOfCapture, StampsOfDeliver, StampsOfThread, StampsOfRecorder DEF Next, Gone, Recorder
<1> QED  BY Shapes, Encodings, Threads, Orders, <1>1, <1>2, PTL DEF Spec

-----------------------------------------------------------------------------
(* Where the worker is tells whether the capture delivers, and the failure *)
(* of the thread tells what is left in its encoder.                        *)

StageInv ==
  /\ worker \in {"idle", "starting"} => runtime = "none"
  /\ worker \in Cleared => runtime = "cleared"
  /\ worker \notin {"idle", "starting"} \cup Cleared => runtime = "ready"

FailInv ==
  /\ step \in {"none", "starting"} => stored = <<>>
  /\ worker = "finalizing" \/ drain.by = "recorder" => encodeFault # "runtime"
  /\ thread = "failed" /\ encodeFault # "runtime" =>
       input = <<>> /\ output = <<>> /\ drain.got = <<>>

stageVars == <<worker, runtime>>
failVars == <<step, stored, worker, drain, encodeFault, thread, input, output>>

(* Only the worker starts and clears the capture.                          *)
LEMMA Stages == Spec => []StageInv
<1>1. Init => StageInv
  BY DEF Init, CaptureInit, StageInv, Cleared
<1>2. StageInv /\ [Next]_vars => StageInv'
  <2> SUFFICES ASSUME StageInv, [Next]_vars PROVE StageInv'
    OBVIOUS
  <2> USE DEF To, StageInv, Cleared
  <2>1. CASE CaptureStarts \/ CaptureCannotStart \/ ClearCapture
    BY <2>1 DEF CaptureStarts, StartCapture, CaptureCannotStart, ClearCapture, ClearRuntime
  <2>2. CASE StartVideo \/ LeaveLoop \/ RemoveHandlers \/ LookForCallbacks \/ Block \/ WakeUp \/ WakeUpUnasked
    BY <2>2 DEF StartVideo, LeaveLoop, RemoveHandlers, LookForCallbacks, Block, WakeUp, WakeUpUnasked,
       captureVars, sessionVars
  <2>3. CASE DrainQueuedFrames \/ DrainEncoder \/ NothingToDrain \/ EncoderDrained \/ NeverStarted \/ Reset
    BY <2>3 DEF DrainQueuedFrames, DrainEncoder, NothingToDrain, EncoderDrained, NeverStarted, Reset,
       captureVars, sessionVars
  <2>4. CASE UNCHANGED stageVars
    BY <2>4 DEF stageVars
  <2>5. CASE FrameThread
    BY <2>4, <2>5 DEF stageVars, FrameThread, Callbacks, FrameArrives, SeesRunning, TakeFrame, NoMoreFrames,
       FrameIsUnusable, AcquireTexture, TextureIsCreated, CopyTexture, CallbackFails, LeaveFrame, ItemCloses,
       ClosedSeesRunning, ReportClosed, LeaveClosed, recorderVars, sessionVars
  <2>6. CASE EncodeThread \/ Transform \/ Windows \/ Poll
    BY <2>4, <2>6 DEF stageVars, EncodeThread, Transform, Windows, Compose, Poll, PollFinds, recorderVars,
       captureVars, sessionVars
  <2>7. CASE Deliver \/ Count \/ Notify \/ Gone \/ UNCHANGED vars
    BY <2>4, <2>7 DEF stageVars, Deliver, Count, Notify, Gone, vars, recorderVars, captureVars, sessionVars
  <2> QED  BY <2>1, <2>2, <2>3, <2>5, <2>6, <2>7 DEF Next, Recorder
<1> QED  BY <1>1, <1>2, PTL DEF Spec

(* The last drain finds nothing to store.                                  *)
LEMMA NothingLeft ==
  ASSUME EncodeInv, ThreadInv, FailInv, LastDrained
  PROVE  UNCHANGED <<stored, output>> /\ drain'.got = <<>>
<1>1. thread \in {"stopped", "failed"}
  BY DEF LastDrained, ThreadInv
<1>2. output = <<>> /\ drain.got = <<>>
  BY <1>1 DEF LastDrained, ThreadInv, FailInv
<1> QED  BY <1>2 DEF LastDrained

(* A thread that fails for another reason than its device or encoder does  *)
(* so when nothing is in its encoder.                                      *)
LEMMA Failures == Spec => []FailInv
<1>1. Init => FailInv
  BY DEF Init, EncodeInit, NoDrain, FailInv
<1>2. /\ ShapeInv /\ EncodeInv /\ ThreadInv /\ OrderInv /\ FailInv /\ [Next]_vars
      => FailInv'
  <2> SUFFICES ASSUME ShapeInv, EncodeInv, ThreadInv, OrderInv, FailInv, [Next]_vars PROVE FailInv'
    OBVIOUS
  <2> USE DEF To
  <2>1. CASE UNCHANGED failVars
    BY <2>1 DEF FailInv, failVars
  <2>2. CASE FrameThread \/ Windows \/ Deliver \/ Count \/ Notify \/ Gone \/ UNCHANGED vars
    BY <2>1, <2>2 DEF failVars, FrameThread, Windows, Deliver, Count, Notify, Gone, vars, encodeVars,
       threadVars, encoderVars, recorderVars
  <2>3. CASE Encode /\ UNCHANGED recorderVars
    BY <2>3 DEF Encode, FailInv, threadVars, recorderVars
  <2>4. CASE ThreadNext /\ UNCHANGED recorderVars
    <3>1. UNCHANGED worker /\ step \in Before /\ thread \in {"running", "stopping"}
      BY <2>4 DEF ThreadNext, InitializeCom, PopFrame, ThreadEnds, FrameRefused, SubmitFails,
         LostAfterSubmit, SubmitFrame, Before, recorderVars, ThreadInv
    <3>2. worker # "finalizing" /\ drain.by = "none" /\ drain.got = <<>> /\ input = <<>> /\ output = <<>>
      BY <3>1 DEF EncodeInv, StepInv, Before, ThreadInv
    <3>3. CASE InitializeCom \/ PopFrame \/ ThreadEnds \/ FrameRefused
      BY <3>1, <3>2, <3>3 DEF InitializeCom, PopFrame, ThreadEnds, FrameRefused, Fail, FailInv, encoderVars
    <3>4. CASE SubmitFails \/ LostAfterSubmit
      BY <3>1, <3>2, <3>4 DEF SubmitFails, LostAfterSubmit, Fail, FailInv
    <3>5. CASE SubmitFrame
      BY <3>1, <3>2, <3>5 DEF SubmitFrame, NoDrain, FailInv
    <3> QED  BY <2>4, <3>3, <3>4, <3>5 DEF ThreadNext
  <2>5. CASE DrainNext /\ UNCHANGED recorderVars
    <3>1. CASE FrameDrained
      <4>1. worker # "finalizing"
        BY <3>1 DEF FrameDrained, EncodeInv, StepInv
      <4> QED  BY <2>5, <3>1, <4>1 DEF FrameDrained, FailInv, ThreadInv, recorderVars
    <3>2. CASE LastDrained
      <4>1. UNCHANGED input
        BY <2>5, DrainDetail
      <4> QED  BY <2>5, <3>2, <4>1, NothingLeft DEF LastDrained, FailInv, recorderVars, threadVars
    <3> QED  BY <2>5, <3>1, <3>2, DrainDetail
  <2>6. CASE StartVideo \/ CaptureStarts \/ CaptureCannotStart \/ Poll \/ LeaveLoop \/ RemoveHandlers
    BY <2>6 DEF StartVideo, StartThread, CaptureStarts, CaptureCannotStart, AskToStop, Poll, LeaveLoop,
       RemoveHandlers, FailInv, encodeVars, threadVars, encoderVars, recorderVars, ThreadInv
  <2>7. CASE LookForCallbacks \/ Block \/ WakeUp \/ WakeUpUnasked \/ NeverStarted \/ Reset
    BY <2>7 DEF LookForCallbacks, Block, WakeUp, WakeUpUnasked, NeverStarted, Reset, FailInv, encodeVars,
       threadVars, encoderVars
  <2>8. CASE ClearCapture
    BY <2>8 DEF ClearCapture, AskToStop, FailInv, encoderVars
  <2>9. CASE DrainQueuedFrames
    <3>1. UNCHANGED <<step, stored, drain, encodeFault, thread, input, output>>
      BY <2>9 DEF DrainQueuedFrames, threadVars, encoderVars
    <3>2. worker' = "finalizing" => encodeFault # "runtime"
      BY <2>9 DEF DrainQueuedFrames
    <3> QED  BY <3>1, <3>2 DEF FailInv
  <2>10. CASE DrainEncoder
    BY <2>10 DEF DrainEncoder, FinalizeBegins, NoDrain, FailInv, threadVars
  <2>11. CASE NothingToDrain \/ EncoderDrained
    BY <2>11 DEF NothingToDrain, EncoderDrained, FailInv, encodeVars, threadVars, encoderVars
  <2> QED  BY <2>2, <2>3, <2>4, <2>5, <2>6, <2>7, <2>8, <2>9, <2>10, <2>11
           DEF Next, Recorder, EncodeThread, Transform
<1> QED  BY Shapes, Encodings, Threads, Orders, <1>1, <1>2, PTL DEF Spec

-----------------------------------------------------------------------------
(* The frames' places.                                                     *)

LostInv == lost # {} => thread = "failed"

PathInv ==
  /\ ShapeInv /\ EncodeInv /\ ThreadInv /\ OrderInv /\ StopInv
  /\ StampInv /\ StageInv /\ FailInv /\ LostInv

(* Frames in hand have stamps of frames,                                   *)
LEMMA HandsHoldFrames ==
  ASSUME ShapeInv, OrderInv, StampInv
  PROVE  /\ Busy => frame.stamp \in FrameStamps
         /\ Holding => frameCall.stamp \in FrameStamps
<1> USE StampsAreNumbers, SurfacesAssumption
<1>1. ASSUME Busy PROVE frame.stamp \in FrameStamps
  BY <1>1 DEF OrderInv, FrameOrder, Older, StampInv, FrameStamps
<1>2. ASSUME Holding PROVE frameCall.stamp \in FrameStamps
  BY <1>2 DEF OrderInv, ArrivalOrder, StampInv, FrameStamps
<1> QED  BY <1>1, <1>2

(* and while the thread does not fail, each frame is in one place.         *)
LEMMA OnePlaceEach ==
  ASSUME ShapeInv, OrderInv, LostInv, thread # "failed"
  PROVE  /\ lost = {} /\ Queued \cap InStore = {}
         /\ Busy => frame.stamp \notin Queued \cup InStore
         /\ Holding => frameCall.stamp \notin OnTheWay
<1> USE StampsAreNumbers
<1>1. lost = {}
  BY DEF LostInv
<1>2. Queued \cap InStore = {}
  BY DEF Queued, InStore, OrderInv, StoredOrder
<1>3. Busy => frame.stamp \notin Queued \cup InStore
  BY DEF Queued, InStore, OrderInv, StoredOrder, FrameOrder
<1>4. ASSUME Holding PROVE frameCall.stamp \notin OnTheWay
  <2>1. frameCall.stamp \notin Queued
    BY <1>4 DEF Queued, OrderInv, QueueOrder, Older
  <2>2. frameCall.stamp \notin InStore
    BY <1>4 DEF InStore, OrderInv, StoredOrder, Older
  <2>3. Busy => frameCall.stamp # frame.stamp
    BY <1>4 DEF OrderInv, FrameOrder, Older
  <2> QED  BY <2>1, <2>2, <2>3 DEF OnTheWay, Waiting, InEncoder, Busy
<1> QED  BY <1>1, <1>2, <1>3, <1>4

(* What an operation on the queue does to the frames in it.                *)
LEMMA QueuedStays == UNCHANGED queue => UNCHANGED Queued
BY DEF Queued

(* The same for the store:                                                 *)
LEMMA StoreStays == UNCHANGED stored => UNCHANGED InStore
BY DEF InStore

(* a packet stored,                                                        *)
LEMMA StoreGains ==
  ASSUME ShapeInv, StoresFrame
  PROVE  InStore' = InStore \cup {frame.stamp}
<1>1. PICK p \in Packets : p.stamp = frame.stamp /\ stored' = Append(stored, p)
  BY DEF StoresFrame
<1>2. stored \in Seq(Packets) /\ DOMAIN stored = 1..Len(stored) /\ Len(stored) \in Nat
  BY DEF ShapeInv, EncoderShape
<1>3. /\ DOMAIN stored' = 1..(Len(stored) + 1) /\ stored'[Len(stored) + 1] = p
      /\ \A i \in 1..Len(stored) : stored'[i] = stored[i]
  BY <1>1, <1>2
<1>4. \A i \in DOMAIN stored' : stored'[i].stamp = frame.stamp \/ (i \in DOMAIN stored /\ stored'[i] = stored[i])
  BY <1>1, <1>2, <1>3
<1>5. \A i \in DOMAIN stored : i \in DOMAIN stored' /\ stored'[i] = stored[i]
  BY <1>2, <1>3
<1>6. Len(stored) + 1 \in DOMAIN stored' /\ stored'[Len(stored) + 1].stamp = frame.stamp
  BY <1>1, <1>2, <1>3
<1> QED  BY ONLY <1>4, <1>5, <1>6 DEF InStore

(* a frame taken from the queue,                                           *)
LEMMA QueueLoses ==
  ASSUME ShapeInv, PopFrame
  PROVE  Queued = Queued' \cup {frame'.stamp}
<1>1. queue \in Seq(Frames) /\ queue # <<>> /\ frame' = queue[1] /\ queue' = Tail(queue)
  BY DEF PopFrame, ShapeInv, ThreadShape
<1>2. /\ DOMAIN queue = 1..Len(queue) /\ Len(queue) \in Nat \ {0}
      /\ DOMAIN queue' = 1..(Len(queue) - 1) /\ \A i \in DOMAIN queue' : queue'[i] = queue[i + 1]
  BY <1>1
<1>3. \A i \in DOMAIN queue' : i + 1 \in DOMAIN queue /\ queue'[i] = queue[i + 1]
  BY <1>2
<1>4. \A i \in DOMAIN queue : i = 1 \/ (i - 1 \in DOMAIN queue' /\ queue[i] = queue'[i - 1])
  <2> SUFFICES ASSUME NEW i \in DOMAIN queue, i # 1 PROVE i - 1 \in DOMAIN queue' /\ queue[i] = queue'[i - 1]
    OBVIOUS
  <2>1. i - 1 \in DOMAIN queue' /\ (i - 1) + 1 = i
    BY <1>2
  <2> QED  BY <1>2, <2>1
<1>5. 1 \in DOMAIN queue
  BY <1>2
<1>6. frame' = queue[1]
  BY <1>1
<1>7. Queued' \subseteq Queued
  BY ONLY <1>3 DEF Queued
<1>8. frame'.stamp \in Queued
  BY ONLY <1>5, <1>6 DEF Queued
<1>9. Queued \subseteq Queued' \cup {frame'.stamp}
  <2> SUFFICES ASSUME NEW i \in DOMAIN queue PROVE queue[i].stamp \in Queued' \cup {frame'.stamp}
    BY DEF Queued
  <2>1. CASE i = 1
    BY ONLY <2>1, <1>6
  <2>2. CASE i - 1 \in DOMAIN queue' /\ queue[i] = queue'[i - 1]
    BY ONLY <2>2 DEF Queued
  <2> QED  BY <1>4, <2>1, <2>2
<1> QED  BY ONLY <1>7, <1>8, <1>9

(* and a frame delivered.                                                  *)
LEMMA QueueGains ==
  ASSUME ShapeInv, Deliver, accepting
  PROVE  Queued' = (IF Overflows THEN {} ELSE Queued) \cup {frameCall.stamp}
<1>1. \A i \in DOMAIN queue' : \/ queue'[i].stamp = frameCall.stamp
                               \/ i \in DOMAIN queue /\ queue'[i] = queue[i]
  BY DeliveredIs
<1>2. frameCall.stamp \in Queued'
  BY DeliveredIs DEF Queued
<1>3. CASE Overflows
  <2>1. \A i \in DOMAIN queue' : queue'[i].stamp = frameCall.stamp
    BY <1>3, DeliveredIs
  <2>2. Queued' \subseteq {frameCall.stamp}
    BY ONLY <2>1 DEF Queued
  <2> QED  BY ONLY <1>2, <1>3, <2>2
<1>4. CASE ~Overflows
  <2>1. \A i \in DOMAIN queue : i \in DOMAIN queue' /\ queue'[i] = queue[i]
    BY <1>4, DeliveredIs
  <2>2. Queued \subseteq Queued'
    BY ONLY <2>1 DEF Queued
  <2>3. Queued' \subseteq Queued \cup {frameCall.stamp}
    BY ONLY <1>1 DEF Queued
  <2> QED  BY ONLY <1>2, <1>4, <2>2, <2>3
<1> QED  BY <1>3, <1>4

(* A queue without frames.                                                 *)
LEMMA NoneQueued == queue = <<>> => Queued = {}
BY DEF Queued

-----------------------------------------------------------------------------
(* Each step of the path is one of the media or a stutter.                 *)

Remembers == lost' = IF Deliver THEN lost ELSE lost \cup (OnTheWay \ OnTheWay')
MediaStep == Media!VideoNext \/ UNCHANGED Media!mediaVars

(* Whoever moves no frame changes no place,                                *)
LEMMA FramesStay ==
  ASSUME UNCHANGED <<queue, step, frame, stored>>, Remembers
  PROVE  UNCHANGED <<lost, FramePlace>>
<1>1. UNCHANGED <<Queued, InStore>>
  BY QueuedStays, StoreStays
<1>2. UNCHANGED <<Waiting, InEncoder, InStore>>
  BY <1>1 DEF Waiting, InEncoder
<1>3. UNCHANGED OnTheWay
  BY <1>2 DEF OnTheWay
<1>4. UNCHANGED lost
  BY <1>3 DEF Remembers
<1> QED  BY <1>2, <1>4 DEF FramePlace

(* nor does a step after which frames wait and are encoded as before.      *)
LEMMA PlacesStay ==
  ASSUME UNCHANGED <<Waiting, InEncoder, InStore>>, Remembers
  PROVE  UNCHANGED <<lost, FramePlace>>
<1>1. UNCHANGED OnTheWay
  BY DEF OnTheWay
<1>2. UNCHANGED lost
  BY <1>1 DEF Remembers
<1> QED  BY <1>2 DEF FramePlace

(* With these and the latches as they were, nothing happens.               *)
LEMMA MediaStays ==
  ASSUME UNCHANGED <<FramePlace, runtime, fault, thread, encodeFault>>
  PROVE  MediaStep
BY DEF MediaStep, Media!mediaVars

(* A fault of the source.                                                  *)
LEMMA MediaOfFault ==
  ASSUME UNCHANGED <<FramePlace, runtime, thread, encodeFault>>, runtime = "ready", fault = "none",
         NEW kind \in {"device", "other"}, fault' = kind
  PROVE  MediaStep
<1>1. Media!CaptureFails(kind)
  BY DEF Media!CaptureFails
<1> QED  BY <1>1 DEF MediaStep, Media!VideoNext, Media!CaptureStep

(* The callbacks at most find a fault,                                     *)
LEMMA MediaOfCallback ==
  ASSUME PathInv, FrameThread, Remembers
  PROVE  MediaStep
<1>1. UNCHANGED <<queue, step, frame, stored, thread, encodeFault, worker>>
  BY DEF FrameThread, encodeVars, queueVars, threadVars, recorderVars
<1>2. UNCHANGED FramePlace
  BY <1>1, FramesStay
<1>3. UNCHANGED runtime
  BY DEF FrameThread, Callbacks, FrameArrives, SeesRunning, TakeFrame, NoMoreFrames, FrameIsUnusable,
     AcquireTexture, TextureIsCreated, CopyTexture, CallbackFails, LeaveFrame, ItemCloses,
     ClosedSeesRunning, ReportClosed, LeaveClosed, sessionVars
<1>4. UNCHANGED fault \/ (~Calm /\ \E kind \in {"device", "other"} : fault' = Latched(kind))
  BY DEF FrameThread, Callbacks, FrameArrives, SeesRunning, TakeFrame, NoMoreFrames, FrameIsUnusable,
     AcquireTexture, TextureIsCreated, CopyTexture, CallbackFails, LeaveFrame, ItemCloses,
     ClosedSeesRunning, ReportClosed, LeaveClosed, sessionVars, Calm
<1>5. ~Calm => runtime = "ready"
  BY DEF PathInv, StopInv, StageInv, Calm, Cleared
<1> QED  BY <1>1, <1>2, <1>3, <1>4, <1>5, MediaStays, MediaOfFault DEF Latched

(* until they deliver a frame, or find no one to take it.                  *)
LEMMA MediaOfDeliver ==
  ASSUME PathInv, Deliver, Remembers
  PROVE  MediaStep
<1> DEFINE x == frameCall.stamp
           gone == IF Overflows THEN Queued ELSE {}
<1>1. /\ UNCHANGED <<step, frame, stored, thread, encodeFault, worker, runtime, lost, InStore>>
      /\ Holding /\ ~Calm
  BY StoreStays DEF Deliver, threadVars, recorderVars, Holding, Calm, Remembers
<1>2. runtime = "ready"
  BY <1>1 DEF PathInv, StopInv, StageInv, Calm, Cleared
<1>3. CASE ~accepting
  <2>1. UNCHANGED queue /\ fault' = Latched("sink") /\ thread # "running"
    BY <1>3 DEF Deliver, PathInv, ThreadInv
  <2>2. UNCHANGED FramePlace
    BY <1>1, <2>1, FramesStay
  <2>3. CASE fault = "none"
    <3>1. Media!CaptureSinkFails
      BY <1>1, <1>2, <2>1, <2>2, <2>3 DEF Media!CaptureSinkFails, Media!Accepting, Latched
    <3> QED  BY <3>1 DEF MediaStep, Media!VideoNext, Media!CaptureStep
  <2> QED  BY <1>1, <2>1, <2>2, <2>3, MediaStays DEF Latched
<1>4. CASE accepting
  <2>1. thread = "running" /\ UNCHANGED fault
    BY <1>4 DEF Deliver, PathInv, ThreadInv
  <2>2. Queued' = (Queued \ gone) \cup {x}
    BY <1>4, QueueGains DEF PathInv
  <2>3. /\ lost = {} /\ Queued \cap InStore = {} /\ x \notin OnTheWay /\ x \in FrameStamps
        /\ Busy => frame.stamp \notin Queued
    BY <1>1, <2>1, OnePlaceEach, HandsHoldFrames DEF PathInv
  <2> HIDE DEF x
  <2>4. gone \subseteq Queued
    OBVIOUS
  <2> HIDE DEF gone
  <2>5. Waiting' = (Waiting \ gone) \cup {x} /\ InEncoder' = InEncoder /\ gone \cap InEncoder' = {}
    BY <1>1, <2>2, <2>3, <2>4 DEF Waiting, InEncoder, Busy
  <2>6. FramePlace[x] = "none" /\ \A s \in gone \cap FrameStamps : FramePlace[s] = "queued"
    BY <1>1, <2>3, <2>4 DEF FramePlace, OnTheWay, Waiting
  <2>7. FramePlace' = Media!Pushed(FramePlace, x, gone)
    <3>1. \A s \in FrameStamps :
            FramePlace'[s] = IF s = x THEN "queued" ELSE IF s \in gone THEN "none" ELSE FramePlace[s]
      BY <1>1, <2>3, <2>4, <2>5 DEF FramePlace, OnTheWay
    <3>2. FramePlace' = [s \in FrameStamps |-> FramePlace'[s]]
      BY DEF FramePlace, FrameStamps
    <3> QED  BY <3>1, <3>2 DEF Media!Pushed, Media!Samples
  <2>8. gone \subseteq FrameStamps
    BY <2>4, StampsAreNumbers, SurfacesAssumption
       DEF Queued, PathInv, OrderInv, QueueOrder, Older, StampInv, FrameStamps
  <2>9. Media!CaptureVideo(x, gone)
    BY <1>1, <1>2, <2>1, <2>3, <2>6, <2>7, <2>8 DEF Media!CaptureVideo, Media!Accepting, Media!At
  <2> QED  BY <2>3, <2>8, <2>9 DEF MediaStep, Media!VideoNext, Media!CaptureStep
<1> QED  BY <1>3, <1>4

(* A frame that moves alone moves in the places.                           *)
LEMMA OneMoves ==
  ASSUME NEW x \in FrameStamps, NEW p,
         \A s \in FrameStamps : FramePlace'[s] = IF s = x THEN p ELSE FramePlace[s]
  PROVE  FramePlace' = [FramePlace EXCEPT ![x] = p]
BY DEF FramePlace, FrameStamps

(* A thread that fails loses the frame it has in hand, unless its packet   *)
(* has been stored.                                                        *)
LEMMA MediaOfFailure ==
  ASSUME PathInv, Remembers, ~Deliver, Busy, step' = "done", thread \in {"running", "stopping"},
         UNCHANGED <<queue, runtime, fault>>, thread' = "failed",
         UNCHANGED stored \/ (encodeFault' = "other" /\ step = "drain" /\ StoresFrame),
         encodeFault' \in {"runtime", "other"}
  PROVE  MediaStep
<1> DEFINE x == frame.stamp
<1>1. x \in FrameStamps /\ lost = {} /\ Queued \cap InStore = {} /\ x \notin Queued \cup InStore
  BY OnePlaceEach, HandsHoldFrames DEF PathInv
<1>2. /\ Waiting' = Queued /\ InEncoder' = {} /\ Queued' = Queued
      /\ lost' = lost \cup (OnTheWay \ OnTheWay')
      /\ OnTheWay = Queued \cup {x} \cup InStore
  BY QueuedStays DEF Waiting, InEncoder, Remembers, OnTheWay, Busy
<1>3. CASE UNCHANGED stored
  <2>1. InStore' = InStore /\ lost' = {x}
    BY <1>1, <1>2, <1>3, StoreStays DEF OnTheWay
  <2>2. \A s \in FrameStamps : FramePlace'[s] = IF s = x THEN "lost" ELSE FramePlace[s]
    BY <1>1, <1>2, <2>1 DEF FramePlace, Waiting, InEncoder, Busy
  <2>3. FramePlace' = [FramePlace EXCEPT ![x] = "lost"]
    BY <1>1, <2>2, OneMoves
  <2>4. FramePlace[x] \in {"queued", "encoder"}
    BY <1>1 DEF FramePlace, Waiting, InEncoder, Busy
  <2>5. Media!EncodeFails(encodeFault', x)
    BY <1>1, <2>3, <2>4 DEF Media!EncodeFails, Media!Encoding, Media!At
  <2> QED  BY <1>1, <2>5 DEF MediaStep, Media!VideoNext, Media!EncodeStep
<1>4. CASE encodeFault' = "other" /\ step = "drain" /\ StoresFrame
  <2>1. InStore' = InStore \cup {x} /\ lost' = {}
    BY <1>1, <1>2, <1>4, StoreGains DEF OnTheWay, PathInv
  <2>2. \A s \in FrameStamps : FramePlace'[s] = IF s = x THEN "stored" ELSE FramePlace[s]
    BY <1>1, <1>2, <1>4, <2>1 DEF FramePlace, Waiting, InEncoder
  <2>3. FramePlace' = [FramePlace EXCEPT ![x] = "stored"]
    BY <1>1, <2>2, OneMoves
  <2>4. FramePlace[x] = "encoder"
    BY <1>1, <1>4 DEF FramePlace, Waiting, InEncoder
  <2>5. Media!EncodeFails("other", x)
    BY <1>1, <1>4, <2>3, <2>4 DEF Media!EncodeFails, Media!Encoding, Media!At, Media!Usable
  <2> QED  BY <1>1, <2>5 DEF MediaStep, Media!VideoNext, Media!EncodeStep
<1> QED  BY <1>3, <1>4

(* The frame's packet is stored, and the thread goes on.                   *)
LEMMA MediaOfStored ==
  ASSUME PathInv, Remembers, ~Deliver, step = "drain", step' = "wait", StoresFrame,
         UNCHANGED <<queue, runtime, fault, thread, encodeFault>>
  PROVE  MediaStep
<1> DEFINE x == frame.stamp
<1>1. thread \in {"running", "stopping"}
  BY DEF PathInv, ThreadInv
<1>2. x \in FrameStamps /\ lost = {} /\ x \notin Queued \cup InStore
  BY <1>1, OnePlaceEach, HandsHoldFrames DEF PathInv, Busy
<1>3. InStore' = InStore \cup {x} /\ Waiting' = Queued /\ InEncoder' = {} /\ Waiting = Queued /\ InEncoder = {x}
  BY QueuedStays, StoreGains DEF PathInv, Waiting, InEncoder
<1>4. lost' = {}
  BY <1>2, <1>3 DEF Remembers, OnTheWay
<1>5. FramePlace' = [FramePlace EXCEPT ![x] = "stored"]
  <2>1. \A s \in FrameStamps : FramePlace'[s] = IF s = x THEN "stored" ELSE FramePlace[s]
    BY <1>2, <1>3, <1>4 DEF FramePlace
  <2> QED  BY <1>2, <2>1, OneMoves
<1>6. FramePlace[x] = "encoder"
  BY <1>2, <1>3 DEF FramePlace
<1>7. Media!EncoderOutput(x)
  BY <1>1, <1>2, <1>5, <1>6 DEF Media!EncoderOutput, Media!Encoding, Media!At, Media!Usable
<1> QED  BY <1>2, <1>7 DEF MediaStep, Media!VideoNext, Media!EncodeStep

(* So a drain either stores the frame or fails, or it is the last and      *)
(* finds nothing.                                                          *)
LEMMA MediaOfDrain ==
  ASSUME PathInv, DrainNext, UNCHANGED <<captureVars, recorderVars>>, Remembers, ~Deliver
  PROVE  MediaStep
<1>1. UNCHANGED <<queue, runtime, fault>>
  BY DrainDetail DEF PathInv, captureVars, sessionVars
<1>2. CASE FrameDrained
  <2>1. thread \in {"running", "stopping"} /\ Busy /\ step = "drain"
    BY <1>2 DEF FrameDrained, PathInv, ThreadInv, Busy
  <2>2. CASE step' = "wait" /\ UNCHANGED <<thread, encodeFault>> /\ StoresFrame
    BY <1>1, <2>1, <2>2, MediaOfStored
  <2>3. CASE /\ step' = "done" /\ thread' = "failed" /\ encodeFault' \in {"runtime", "other"}
             /\ UNCHANGED stored \/ (encodeFault' = "other" /\ StoresFrame)
    BY <1>1, <2>1, <2>3, MediaOfFailure
  <2> QED  BY <1>2, <2>2, <2>3 DEF FrameDrained
<1>3. CASE LastDrained
  <2>1. UNCHANGED <<step, frame, stored, thread, encodeFault>>
    BY <1>3, NothingLeft DEF LastDrained, PathInv, threadVars
  <2> QED  BY <1>1, <2>1, FramesStay, MediaStays
<1> QED  BY <1>2, <1>3, DrainDetail DEF PathInv

(* The thread fails before its first frame,                                *)
LEMMA MediaOfCom ==
  ASSUME PathInv, InitializeCom, UNCHANGED <<captureVars, recorderVars>>, Remembers
  PROVE  MediaStep
<1>1. /\ step = "starting" /\ step' \in {"wait", "done"} /\ thread \in {"running", "stopping"}
      /\ UNCHANGED <<queue, stored, runtime, fault>>
  BY DEF InitializeCom, Fail, PathInv, ThreadInv, captureVars, sessionVars, queueVars
<1>2. UNCHANGED <<Queued, InStore>>
  BY <1>1, QueuedStays, StoreStays
<1>3. UNCHANGED <<lost, FramePlace>>
  BY <1>1, <1>2, PlacesStay DEF Waiting, InEncoder
<1>4. CASE Fail("other")
  <2>1. lost = {} /\ stored = <<>>
    BY <1>1 DEF PathInv, LostInv, FailInv
  <2>2. InStore = {} /\ InEncoder = {}
    BY <1>1, <2>1 DEF InStore, InEncoder
  <2>3. \A s \in FrameStamps : FramePlace[s] \in {"none", "queued"}
    BY <2>1, <2>2 DEF FramePlace
  <2>4. Media!EncodeNeverRuns
    BY <1>1, <1>3, <1>4, <2>3 DEF Fail, Media!EncodeNeverRuns, Media!Encoding
  <2> QED  BY <2>4 DEF MediaStep, Media!VideoNext, Media!EncodeStep
<1>5. CASE UNCHANGED <<thread, encodeFault>>
  BY <1>1, <1>3, <1>5, MediaStays
<1> QED  BY <1>4, <1>5 DEF InitializeCom

(* takes a frame from the queue, which still waits,                        *)
LEMMA MediaOfPop ==
  ASSUME PathInv, PopFrame, UNCHANGED <<captureVars, recorderVars>>, Remembers
  PROVE  MediaStep
<1>1. step = "wait" /\ step' = "frame" /\ UNCHANGED <<stored, runtime, fault, thread, encodeFault>>
  BY DEF PopFrame, captureVars, sessionVars
<1>2. Queued = Queued' \cup {frame'.stamp}
  BY QueueLoses DEF PathInv
<1>3. UNCHANGED <<Waiting, InEncoder, InStore>>
  BY <1>1, <1>2, StoreStays DEF Waiting, InEncoder
<1> QED  BY <1>1, <1>3, PlacesStay, MediaStays

(* gives it to the encoder,                                                *)
LEMMA MediaOfSubmit ==
  ASSUME PathInv, SubmitFrame, UNCHANGED <<captureVars, recorderVars>>, Remembers, ~Deliver
  PROVE  MediaStep
<1> DEFINE x == frame.stamp
<1>1. /\ step = "frame" /\ step' = "drain" /\ thread \in {"running", "stopping"}
      /\ UNCHANGED <<queue, frame, stored, runtime, fault, thread, encodeFault>>
  BY DEF SubmitFrame, PathInv, ThreadInv, captureVars, sessionVars, queueVars
<1>2. x \in FrameStamps /\ lost = {} /\ x \notin Queued \cup InStore
  BY <1>1, OnePlaceEach, HandsHoldFrames DEF PathInv, Busy
<1>3. UNCHANGED <<Queued, InStore>>
  BY <1>1, QueuedStays, StoreStays
<1>4. /\ Waiting = Queued \cup {x} /\ InEncoder = {}
      /\ Waiting' = Queued /\ InEncoder' = {x}
  BY <1>1, <1>3 DEF Waiting, InEncoder
<1>5. lost' = {}
  BY <1>2, <1>3, <1>4 DEF Remembers, OnTheWay
<1>6. FramePlace' = [FramePlace EXCEPT ![x] = "encoder"]
  <2>1. \A s \in FrameStamps : FramePlace'[s] = IF s = x THEN "encoder" ELSE FramePlace[s]
    BY <1>2, <1>3, <1>4, <1>5 DEF FramePlace
  <2> QED  BY <1>2, <2>1, OneMoves
<1>7. FramePlace[x] = "queued"
  BY <1>2, <1>4 DEF FramePlace
<1>8. Media!EncodeFrame(x)
  BY <1>1, <1>2, <1>6, <1>7 DEF Media!EncodeFrame, Media!Encoding, Media!At
<1> QED  BY <1>2, <1>8 DEF MediaStep, Media!VideoNext, Media!EncodeStep

(* and ends when it has been asked to and its queue is empty: with that,   *)
(* all its steps are steps of the media.                                   *)
LEMMA MediaOfThread ==
  ASSUME PathInv, EncodeThread \/ Transform, Remembers, ~Deliver
  PROVE  MediaStep
<1>1. UNCHANGED <<captureVars, recorderVars, runtime, fault>>
  BY DEF EncodeThread, Transform, captureVars, sessionVars
<1>2. CASE Encode
  BY <1>1, <1>2, FramesStay, MediaStays DEF Encode, queueVars, threadVars
<1>3. CASE ThreadEnds
  <2>1. /\ step = "wait" /\ step' = "done" /\ queue = <<>> /\ thread = "stopping" /\ thread' = "stopped"
        /\ UNCHANGED <<queue, stored, frame, encodeFault>>
    BY <1>3 DEF ThreadEnds, queueVars
  <2>2. UNCHANGED <<Queued, InStore>> /\ Queued = {}
    BY <2>1, QueuedStays, StoreStays, NoneQueued
  <2>3. UNCHANGED <<lost, FramePlace>>
    BY <2>1, <2>2, PlacesStay DEF Waiting, InEncoder
  <2>4. \A s \in FrameStamps : FramePlace[s] # "queued"
    BY <2>1, <2>2 DEF FramePlace, Waiting
  <2>5. Media!EncodeStops
    BY <1>1, <2>1, <2>3, <2>4 DEF Media!EncodeStops, Media!At
  <2> QED  BY <2>5 DEF MediaStep, Media!VideoNext, Media!EncodeStep
<1>4. CASE FrameRefused \/ SubmitFails \/ LostAfterSubmit
  <2>1. /\ step = "frame" /\ step' = "done" /\ thread' = "failed" /\ encodeFault' \in {"runtime", "other"}
        /\ UNCHANGED <<queue, stored>>
    BY <1>4 DEF FrameRefused, SubmitFails, LostAfterSubmit, Fail
  <2>2. Busy /\ thread \in {"running", "stopping"}
    BY <2>1 DEF Busy, PathInv, ThreadInv
  <2> QED  BY <1>1, <2>1, <2>2, MediaOfFailure
<1>5. CASE DrainNext
  BY <1>1, <1>5, MediaOfDrain
<1> QED  BY <1>1, <1>2, <1>3, <1>4, <1>5, MediaOfCom, MediaOfPop, MediaOfSubmit
        DEF EncodeThread, Transform, ThreadNext

(* The recorder discards a queue once its thread has ended.                *)
LEMMA MediaOfDiscard ==
  ASSUME PathInv, step = "done", queue' = <<>>, Remembers, ~Deliver,
         UNCHANGED <<step, frame, stored, runtime, fault, thread, encodeFault>>
  PROVE  MediaStep
<1>1. /\ Queued' = {} /\ UNCHANGED InStore
      /\ Waiting = Queued /\ InEncoder = {} /\ Waiting' = {} /\ InEncoder' = {}
  BY StoreStays, NoneQueued DEF Waiting, InEncoder, Queued
<1>2. lost' = lost \cup (Queued \ InStore)
  BY <1>1 DEF Remembers, OnTheWay
<1>3. FramePlace' = Media!Discarded(FramePlace)
  <2>1. \A s \in FrameStamps : FramePlace'[s] = IF FramePlace[s] = "queued" THEN "lost" ELSE FramePlace[s]
    BY <1>1, <1>2 DEF FramePlace
  <2>2. FramePlace' = [s \in FrameStamps |-> FramePlace'[s]]
    BY DEF FramePlace, FrameStamps
  <2> QED  BY <2>1, <2>2 DEF Media!Discarded, Media!Samples
<1>4. Media!DiscardQueued
  BY <1>3 DEF PathInv, ThreadInv, Media!DiscardQueued, Media!EncodeEnded
<1> QED  BY <1>4 DEF MediaStep, Media!VideoNext

(* It starts the thread and the capture, and stops both,                   *)
LEMMA MediaOfStart ==
  ASSUME PathInv, StartVideo \/ CaptureStarts \/ CaptureCannotStart \/ ClearCapture, Remembers
  PROVE  MediaStep
<1>1. UNCHANGED <<queue, frame, stored, fault, encodeFault>>
  BY DEF StartVideo, StartThread, CaptureStarts, StartCapture, CaptureCannotStart, ClearCapture, AskToStop,
     captureVars, sessionVars, encodeVars, queueVars, threadVars
<1>2. CASE StartVideo
  <2>1. step = "none" /\ step' = "starting" /\ thread = "idle" /\ thread' = "running" /\ UNCHANGED runtime
    BY <1>2 DEF StartVideo, StartThread, PathInv, ThreadInv, captureVars, sessionVars
  <2>2. UNCHANGED FramePlace
    BY <1>1, <2>1, QueuedStays, StoreStays, PlacesStay DEF Waiting, InEncoder
  <2>3. Media!StartEncode
    BY <1>1, <2>1, <2>2 DEF Media!StartEncode
  <2> QED  BY <2>3 DEF MediaStep, Media!VideoNext
<1>3. CASE CaptureStarts
  <2>1. UNCHANGED <<thread, step>> /\ runtime = "none" /\ runtime' = "ready"
    BY <1>3 DEF CaptureStarts, StartCapture, PathInv, StageInv, encodeVars, threadVars
  <2>2. UNCHANGED FramePlace
    BY <1>1, <2>1, FramesStay
  <2>3. Media!StartCapture
    BY <1>1, <2>1, <2>2 DEF Media!StartCapture
  <2> QED  BY <2>3 DEF MediaStep, Media!VideoNext
<1>4. CASE CaptureCannotStart \/ ClearCapture
  <2>1. UNCHANGED step /\ runtime' = "cleared" /\ thread' = IF thread = "running" THEN "stopping" ELSE thread
    BY <1>4 DEF CaptureCannotStart, ClearCapture, ClearRuntime, AskToStop
  <2>2. UNCHANGED FramePlace
    BY <1>1, <2>1, FramesStay
  <2>3. Media!StopVideo
    BY <1>1, <2>1, <2>2 DEF Media!StopVideo, Media!AskEncodeToStop
  <2> QED  BY <2>3 DEF MediaStep, Media!VideoNext
<1> QED  BY <1>2, <1>3, <1>4

(* notices faults, and discards what a failed thread left.                 *)
LEMMA MediaOfRecorder ==
  ASSUME PathInv, Recorder \/ WakeUpUnasked, Remembers, ~Deliver
  PROVE  MediaStep
<1>1. CASE UNCHANGED <<queue, step, frame, stored, runtime, fault, thread, encodeFault>>
  BY <1>1, FramesStay, MediaStays
<1>2. CASE Poll
  <2>1. UNCHANGED <<queue, step, frame, stored, runtime, thread, encodeFault>> /\ worker = "recording"
    BY <1>2 DEF Poll, PollFinds, encodeVars, queueVars, threadVars
  <2>2. runtime = "ready"
    BY <2>1 DEF PathInv, StageInv, Cleared
  <2>3. fault = "none" /\ \E kind \in {"device", "other"} : fault' = kind
    BY <1>2 DEF Poll, PollFinds
  <2> QED  BY <2>1, <2>2, <2>3, FramesStay, MediaOfFault
<1>3. CASE DrainQueuedFrames \/ Reset
  <2>1. UNCHANGED <<step, frame, stored, runtime, fault, thread, encodeFault>> /\ step = "done"
    BY <1>3 DEF DrainQueuedFrames, Joined, Reset, PathInv, EncodeInv, StepInv, captureVars, sessionVars,
       threadVars
  <2>2. queue' = <<>> \/ UNCHANGED queue
    BY <1>3 DEF DrainQueuedFrames, Reset, ClearQueuedFrames
  <2> QED  BY <1>1, <2>1, <2>2, MediaOfDiscard
<1>4. CASE LeaveLoop \/ RemoveHandlers \/ LookForCallbacks \/ Block \/ WakeUp \/ WakeUpUnasked
  BY <1>1, <1>4 DEF LeaveLoop, RemoveHandlers, LookForCallbacks, Block, WakeUp, WakeUpUnasked, encodeVars,
     queueVars, threadVars, captureVars, sessionVars
<1>5. CASE DrainEncoder \/ NothingToDrain \/ EncoderDrained \/ NeverStarted
  BY <1>1, <1>5 DEF DrainEncoder, FinalizeBegins, NothingToDrain, EncoderDrained, NeverStarted, encodeVars,
     queueVars, threadVars, captureVars, sessionVars
<1> QED  BY <1>2, <1>3, <1>4, <1>5, MediaOfStart DEF Recorder

(* What is lost is lost by a thread that fails, or with the queue it left. *)
LEMMA LostOfStep ==
  ASSUME PathInv, [HistoryNext]_historyVars
  PROVE  LostInv'
<1>1. thread = "failed" => thread' = "failed"
  <2>1. CASE EncodeThread \/ Transform
    <3>1. CASE DrainNext
      BY <3>1, DrainDetail DEF PathInv, FrameDrained, LastDrained, threadVars
    <3>2. CASE ThreadNext \/ Encode
      BY <3>2 DEF PathInv, ThreadInv, ThreadNext, InitializeCom, PopFrame, ThreadEnds, FrameRefused, SubmitFails,
         LostAfterSubmit, SubmitFrame, Fail, Encode, threadVars
    <3> QED  BY <2>1, <3>1, <3>2 DEF EncodeThread, Transform
  <2>2. CASE Recorder \/ WakeUpUnasked
    BY <2>2 DEF Recorder, StartVideo, StartThread, CaptureStarts, CaptureCannotStart, AskToStop, Poll, LeaveLoop,
       RemoveHandlers, LookForCallbacks, Block, WakeUp, WakeUpUnasked, ClearCapture, DrainQueuedFrames, DrainEncoder,
       FinalizeBegins, NothingToDrain, EncoderDrained, NeverStarted, Reset, encodeVars, threadVars
  <2>3. CASE FrameThread \/ Windows \/ Deliver \/ Count \/ Notify \/ Gone \/ UNCHANGED historyVars
    BY <2>3 DEF FrameThread, Windows, Deliver, Count, Notify, Gone, historyVars, vars, encodeVars, threadVars
  <2> QED  BY <2>1, <2>2, <2>3 DEF HistoryNext, Next
<1> SUFFICES ASSUME thread' # "failed" PROVE UNCHANGED lost
  BY <1>1 DEF PathInv, LostInv
<1>2. CASE Deliver \/ UNCHANGED historyVars
  BY <1>2 DEF HistoryNext, historyVars
<1> SUFFICES ASSUME ~Deliver, Next, Remembers PROVE UNCHANGED lost
  BY <1>2 DEF HistoryNext, Remembers
<1>3. CASE UNCHANGED <<queue, step, frame, stored>>
  BY <1>3, FramesStay
<1>4. CASE DrainNext
  <2>1. CASE FrameDrained
    <3>1. step = "drain" /\ step' = "wait" /\ StoresFrame /\ UNCHANGED queue
      BY <1>4, <2>1, DrainDetail DEF FrameDrained, PathInv
    <3>2. UNCHANGED Queued /\ InStore' = InStore \cup {frame.stamp}
      BY <3>1, QueuedStays, StoreGains DEF PathInv
    <3>3. UNCHANGED OnTheWay
      BY <3>1, <3>2 DEF OnTheWay, Waiting, InEncoder
    <3> QED  BY <3>3 DEF Remembers
  <2>2. CASE LastDrained
    BY <1>3, <1>4, <2>2, NothingLeft, DrainDetail DEF PathInv, LastDrained, threadVars
  <2> QED  BY <1>4, <2>1, <2>2, DrainDetail DEF PathInv
<1>5. CASE InitializeCom \/ ThreadEnds \/ StartVideo
  <2>1. /\ step \in {"none", "starting", "wait"} /\ step' \in {"starting", "wait", "done"}
        /\ UNCHANGED <<queue, stored>>
    BY <1>5 DEF InitializeCom, Fail, ThreadEnds, StartVideo, StartThread, PathInv, ThreadInv, queueVars
  <2>2. UNCHANGED <<Waiting, InEncoder, InStore>>
    BY <2>1, QueuedStays, StoreStays DEF Waiting, InEncoder
  <2> QED  BY <2>2, PlacesStay
<1>6. CASE PopFrame
  <2>1. step = "wait" /\ step' = "frame" /\ UNCHANGED stored
    BY <1>6 DEF PopFrame
  <2>2. UNCHANGED <<Waiting, InEncoder, InStore>>
    BY <1>6, <2>1, QueueLoses, StoreStays DEF Waiting, InEncoder, PathInv
  <2> QED  BY <2>2, PlacesStay
<1>7. CASE SubmitFrame
  <2>1. step = "frame" /\ step' = "drain" /\ UNCHANGED <<queue, frame, stored>>
    BY <1>7 DEF SubmitFrame, queueVars
  <2>2. UNCHANGED OnTheWay
    BY <2>1, QueuedStays, StoreStays DEF OnTheWay, Waiting, InEncoder
  <2> QED  BY <2>2 DEF Remembers
<1>8. CASE FrameRefused \/ SubmitFails \/ LostAfterSubmit
  BY <1>8 DEF FrameRefused, SubmitFails, LostAfterSubmit, Fail
<1>9. CASE DrainQueuedFrames \/ Reset
  <2>1. step = "done" /\ UNCHANGED <<step, frame, stored, thread>> /\ (queue' = <<>> \/ UNCHANGED queue)
    BY <1>9 DEF DrainQueuedFrames, ClearQueuedFrames, Joined, Reset, PathInv, EncodeInv, StepInv, threadVars
  <2>2. queue = <<>>
    BY <2>1 DEF PathInv, ThreadInv
  <2> QED  BY <1>3, <2>1, <2>2
<1>10. CASE FrameThread \/ Windows \/ Transform \/ Count \/ Notify \/ Gone
  BY <1>3, <1>10 DEF FrameThread, Windows, Transform, Encode, Count, Notify, Gone, vars, encodeVars, queueVars,
     threadVars
<1>11. CASE (Recorder \/ WakeUpUnasked) /\ ~(StartVideo \/ DrainQueuedFrames \/ Reset)
  BY <1>3, <1>11 DEF Recorder, CaptureStarts, CaptureCannotStart, AskToStop, Poll, LeaveLoop, RemoveHandlers,
     LookForCallbacks, Block, WakeUp, WakeUpUnasked, ClearCapture, DrainEncoder, FinalizeBegins, NothingToDrain,
     EncoderDrained, NeverStarted, encodeVars, queueVars, threadVars
<1> QED  BY <1>4, <1>5, <1>6, <1>7, <1>8, <1>9, <1>10, <1>11 DEF Next, EncodeThread, ThreadNext

(* For any pool, queue, number of surfaces and of frames, the capture, the *)
(* encode thread and its encoder are together what the recorder takes for  *)
(* its video: a frame goes through queue and encoder once, is stored only  *)
(* by a thread at work, is given up only by a queue that overflows, a      *)
(* thread that fails or a queue that is discarded after it, and a thread   *)
(* that stops has encoded all of its queue (VideoEncodeThread.cpp).        *)
THEOREM VideoImplementsMedia == HistorySpec => VideoIsMedia
<1>1. HistorySpec => Spec
  <2>1. HistoryInit => Init
    BY DEF HistoryInit
  <2>2. [HistoryNext]_historyVars => [Next]_vars
    BY DEF HistoryNext, historyVars
  <2> QED  BY <2>1, <2>2, PTL DEF HistorySpec, Spec
<1>2. HistoryInit => LostInv /\ Media!VideoInit
  <2> SUFFICES ASSUME HistoryInit PROVE LostInv /\ Media!VideoInit
    OBVIOUS
  <2>1. queue = <<>> /\ stored = <<>> /\ step = "none" /\ lost = {}
    BY DEF HistoryInit, Init, EncodeInit
  <2>2. Waiting = {} /\ InEncoder = {} /\ InStore = {}
    BY <2>1, NoneQueued DEF Waiting, InEncoder, InStore
  <2>3. FramePlace = [s \in FrameStamps |-> "none"]
    BY <2>1, <2>2 DEF FramePlace
  <2> QED  BY <2>1, <2>3 DEF HistoryInit, Init, CaptureInit, EncodeInit, LostInv, Media!VideoInit, Media!Samples
<1> DEFINE BaseInv == /\ ShapeInv /\ EncodeInv /\ ThreadInv /\ OrderInv /\ StopInv
                      /\ StampInv /\ StageInv /\ FailInv
<1>3. BaseInv /\ LostInv /\ [HistoryNext]_historyVars => LostInv'
  BY LostOfStep DEF PathInv
<1>4. BaseInv /\ LostInv /\ [HistoryNext]_historyVars => [Media!VideoNext]_(Media!mediaVars)
  <2> SUFFICES ASSUME PathInv, [HistoryNext]_historyVars PROVE MediaStep
    BY DEF PathInv, MediaStep
  <2>1. CASE UNCHANGED historyVars
    <3>1. UNCHANGED <<queue, step, frame, stored, lost, runtime, fault, thread, encodeFault>>
      BY <2>1 DEF historyVars, vars, captureVars, sessionVars, encodeVars, queueVars, threadVars
    <3>2. UNCHANGED FramePlace
      BY <3>1, QueuedStays, StoreStays DEF FramePlace, Waiting, InEncoder
    <3> QED  BY <3>1, <3>2, MediaStays
  <2> SUFFICES ASSUME Next, Remembers PROVE MediaStep
    BY <2>1 DEF HistoryNext, Remembers
  <2>2. CASE Windows \/ Count \/ Notify \/ Gone
    <3>1. UNCHANGED <<queue, step, frame, stored, runtime, fault, thread, encodeFault>>
      BY <2>2 DEF Windows, Compose, Count, Notify, Gone, vars, captureVars, sessionVars, encodeVars, queueVars,
         threadVars
    <3> QED  BY <3>1, FramesStay, MediaStays
  <2> QED  BY <2>2, MediaOfCallback, MediaOfDeliver, MediaOfThread, MediaOfRecorder DEF Next
<1> HIDE DEF BaseInv
<1>5. Spec => []BaseInv
  BY Shapes, Encodings, Threads, Orders, Stops, Stamps, Stages, Failures, PTL DEF BaseInv
<1> QED  BY <1>1, <1>2, <1>3, <1>4, <1>5, PTL DEF HistorySpec, VideoIsMedia, Media!VideoSpec

================================================================================
