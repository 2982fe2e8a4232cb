----------------------------- MODULE VideoEncode -----------------------------
(***************************************************************************)
(* From the sink of captured frames to the packet store: VideoEncodeThread *)
(* with the VideoFrameQueue it drains, BgraVideoRecordingSession, which    *)
(* converts every frame into the one NV12 texture it has, and              *)
(* MfHardwareH264EncoderSession with the asynchronous Media Foundation     *)
(* transform behind it (src/encode).                                       *)
(*                                                                         *)
(* The transform is external: a sample refers to the NV12 texture, and is  *)
(* encoded, into one packet, at a time of its own.  A packet is the stamp  *)
(* of its sample with the picture its texture had then.                    *)
(***************************************************************************)
EXTENDS BgraTexturePool, Sequences

CONSTANTS QueueCapacity

ASSUME EncodeAssumption == QueueCapacity \in Nat \ {0}

VARIABLES
  queue,       \* VideoFrameQueue: frames with the texture they lease
  thread,      \* VideoEncodeThread: state_
  accepting,   \* accepting_
  step,        \* where Run is: "none", "starting", "wait", "frame", "drain", "done"
  frame,       \* the frame DrainQueuedFrames has popped
  nv12,        \* the picture in nv12_texture_
  pending,     \* pending_input_samples_
  submitted, drained,   \* submitted_input_frames_, drained_output_packets_
  drainSent,   \* drain_command_sent_
  input,       \* transform: samples to encode
  output,      \* transform: packets to be fetched
  drain,       \* the drain under way: who runs it, what it got, its target
               \* and how the recorder's ended
  stored,      \* packets in the store
  encodeFault  \* how the thread failed: "none", "runtime" or "other"

queueVars == <<queue, accepting>>
threadVars == <<thread, step, frame, encodeFault>>
encoderVars == <<nv12, pending, submitted, drained, drainSent, input, output, drain>>
encodeVars == <<queueVars, threadVars, encoderVars, stored>>

NoFrame == [stamp |-> 0, texture |-> {}]
NoDrain == [by |-> "none", got |-> <<>>, target |-> 0, result |-> "none"]
Leases(frames) == UNION {frames[i].texture : i \in DOMAIN frames}

EncodeInit ==
  /\ queue = <<>> /\ thread = "idle" /\ accepting = FALSE
  /\ step = "none" /\ frame = NoFrame /\ encodeFault = "none"
  /\ nv12 = 0 /\ pending = <<>> /\ submitted = 0 /\ drained = 0 /\ drainSent = FALSE
  /\ input = <<>> /\ output = <<>> /\ drain = NoDrain
  /\ stored = <<>>

EncodeTypeOK ==
  /\ Len(queue) <= QueueCapacity
  /\ thread \in {"idle", "running", "stopping", "stopped", "failed"}
  /\ accepting \in BOOLEAN /\ drainSent \in BOOLEAN
  /\ step \in {"none", "starting", "wait", "frame", "drain", "done"}
  /\ drain.by \in {"none", "thread", "recorder"}
  /\ encodeFault \in {"none", "runtime", "other"}
  /\ submitted \in Nat /\ drained \in 0..submitted
  /\ Len(input) <= Len(pending) /\ Len(pending) = submitted - drained

-----------------------------------------------------------------------------
(* The queue, with KeepNewest: a full queue gives up its whole backlog.    *)

Overflows == Len(queue) >= QueueCapacity
Dropped == IF Overflows THEN Len(queue) ELSE 0

Push(f) ==
  /\ queue' = IF Overflows THEN <<f>> ELSE Append(queue, f)
  /\ Return(IF Overflows THEN Leases(queue) ELSE {})

ClearQueuedFrames == queue' = <<>> /\ Return(Leases(queue))

-----------------------------------------------------------------------------
(* The thread.                                                             *)

StartThread ==
  /\ thread = "idle"
  /\ thread' = "running" /\ accepting' = TRUE /\ step' = "starting"
  /\ UNCHANGED <<queue, frame, encodeFault, encoderVars, stored, poolVars>>

\* StopAndDrain, before it joins.
AskToStop ==
  /\ accepting' = FALSE
  /\ thread' = IF thread = "running" THEN "stopping" ELSE thread
  /\ UNCHANGED <<queue, step, frame, encodeFault, encoderVars, stored, poolVars>>

Fail(kind) ==
  /\ accepting' = FALSE /\ thread' = "failed" /\ encodeFault' = kind
  /\ step' = "done" /\ frame' = NoFrame /\ UNCHANGED queue

InitializeCom ==
  /\ step = "starting"
  /\ \/ step' = "wait" /\ UNCHANGED <<queueVars, thread, frame, encodeFault>>
     \/ Fail("other")
  /\ UNCHANGED <<encoderVars, stored, poolVars>>

PopFrame ==
  /\ step = "wait" /\ queue # <<>>
  /\ frame' = Head(queue) /\ queue' = Tail(queue) /\ step' = "frame"
  /\ UNCHANGED <<accepting, thread, encodeFault, encoderVars, stored, poolVars>>

\* Mutant: a thread asked to stop leaves its queue as it is.
ThreadLeaves ==
  /\ step = "wait" /\ thread = "stopping"
  /\ thread' = "stopped" /\ step' = "done"
  /\ UNCHANGED <<queueVars, frame, encodeFault, encoderVars, stored, poolVars>>

ThreadEnds ==
  /\ step = "wait" /\ queue = <<>> /\ thread = "stopping"
  /\ thread' = "stopped" /\ step' = "done"
  /\ UNCHANGED <<queueVars, frame, encodeFault, encoderVars, stored, poolVars>>

-----------------------------------------------------------------------------
(* SubmitBgraFrame.                                                        *)

\* The frame's size or time is refused, or it cannot be converted; the
\* fault is a lost device or another.
FrameRefused ==
  /\ step = "frame" /\ \E kind \in {"runtime", "other"} : Fail(kind)
  /\ Return(frame.texture) /\ UNCHANGED <<encoderVars, stored>>

Convert == nv12' = picture[CHOOSE t \in frame.texture : TRUE]

\* The sample is not made, the stream not started, or the input not taken.
SubmitFails ==
  /\ step = "frame" /\ Convert /\ Fail("runtime")
  /\ Return(frame.texture)
  /\ UNCHANGED <<pending, submitted, drained, drainSent, input, output, drain, stored>>

ProcessInput ==
  /\ pending' = Append(pending, frame.stamp) /\ input' = Append(input, frame.stamp)
  /\ submitted' = submitted + 1

\* The device is found lost when the sample is already in the transform.
LostAfterSubmit ==
  /\ step = "frame" /\ Convert /\ ProcessInput /\ Fail("runtime")
  /\ Return(frame.texture)
  /\ UNCHANGED <<drained, drainSent, output, drain, stored>>

Target == submitted - drained

SubmitFrame ==
  /\ step = "frame" /\ Convert /\ ProcessInput
  /\ drain' = [NoDrain EXCEPT !.by = "thread", !.target = Target + 1]
  /\ step' = "drain"
  /\ UNCHANGED <<queueVars, thread, frame, encodeFault, drained, drainSent, output, stored, poolVars>>

-----------------------------------------------------------------------------
(* DrainSyntheticOutput, for each frame and at the end.                    *)

\* The transform encodes the sample that has waited longest, reading the
\* texture now.
Encode ==
  /\ input # <<>>
  /\ output' = Append(output, [stamp |-> Head(input), picture |-> nv12])
  /\ input' = Tail(input)
  /\ UNCHANGED <<queueVars, threadVars, nv12, pending, submitted, drained, drainSent, drain, stored, poolVars>>

ReleaseOldestPendingInputSample == IF pending = <<>> THEN <<>> ELSE Tail(pending)
Enough(got) == drain.target = 0 \/ Len(got) >= drain.target

\* The result goes back to the frame's thread, or to the recorder's worker.
DrainEnds(kind) ==
  /\ drain' = [NoDrain EXCEPT !.result = IF drain.by = "recorder" THEN kind ELSE "none"]
  /\ IF drain.by = "recorder" THEN UNCHANGED <<queueVars, threadVars, poolVars>>
     ELSE /\ Return(frame.texture)
          /\ IF kind = "none"
             THEN step' = "wait" /\ frame' = NoFrame /\ UNCHANGED <<queueVars, thread, encodeFault>>
             ELSE Fail(kind)

\* AppendDrainedPackets: the store takes all packets or refuses one of
\* them; without SPS and PPS by then, the session fails all the same.
AppendDrainedPackets(got) ==
  \E n \in 0..Len(got) :
    /\ stored' = stored \o SubSeq(got, 1, n)
    /\ \/ n = Len(got) /\ DrainEnds("none")
       \/ DrainEnds("other")

FetchPacket ==
  /\ drain.by # "none" /\ output # <<>>
  /\ output' = Tail(output) /\ drained' = drained + 1
  /\ pending' = ReleaseOldestPendingInputSample
  /\ LET got == Append(drain.got, Head(output))
     IN IF Enough(got) THEN AppendDrainedPackets(got)
        ELSE drain' = [drain EXCEPT !.got = got] /\ UNCHANGED <<queueVars, threadVars, stored, poolVars>>
  /\ UNCHANGED <<nv12, submitted, drainSent, input>>

\* Mutant: a frame whose packet is late is taken for encoded.
LatePacketIsFine ==
  /\ drain.by # "none"
  /\ IF drain.got = <<>> THEN DrainEnds("none") /\ UNCHANGED stored
     ELSE AppendDrainedPackets(drain.got)
  /\ UNCHANGED <<nv12, pending, submitted, drained, drainSent, input, output>>

DrainTimesOut ==
  /\ drain.by # "none"
  /\ IF drain.got = <<>> THEN DrainEnds("runtime") /\ UNCHANGED stored
     ELSE AppendDrainedPackets(drain.got)
  /\ UNCHANGED <<nv12, pending, submitted, drained, drainSent, input, output>>

\* An event or an output cannot be read, or the device is lost.
DrainFails ==
  /\ drain.by # "none" /\ DrainEnds("runtime")
  /\ UNCHANGED <<nv12, pending, submitted, drained, drainSent, input, output, stored>>

\* METransformDrainComplete follows the last packet.
DrainCompletes ==
  /\ drain.by = "recorder" /\ drainSent /\ input = <<>> /\ output = <<>>
  /\ pending' = <<>> /\ AppendDrainedPackets(drain.got)
  /\ UNCHANGED <<nv12, submitted, drained, drainSent, input, output>>

\* Finalize, run by the recorder's worker once the thread has been joined.
FinalizeBegins ==
  /\ submitted > 0
  /\ drainSent' = TRUE
  /\ drain' = [NoDrain EXCEPT !.by = "recorder", !.target = Target]
  /\ UNCHANGED <<queueVars, threadVars, nv12, pending, submitted, drained, input, output, stored, poolVars>>

ThreadNext ==
  \/ InitializeCom \/ PopFrame \/ ThreadEnds \/ FrameRefused
  \/ SubmitFails \/ LostAfterSubmit \/ SubmitFrame
DrainNext == FetchPacket \/ DrainTimesOut \/ DrainFails \/ DrainCompletes
=============================================================================
