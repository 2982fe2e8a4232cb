---------------------------- MODULE AudioCapture ----------------------------
(***************************************************************************)
(* The audio of one recording: AudioLiveCaptureEncodeSession of            *)
(* src/audio/AudioLiveCaptureEncode.cpp, driven by the recorder's worker   *)
(* (src/record/VideoRecorderPipeline.cpp), against the capture threads of  *)
(* its sources.  The worker starts the sources in turn, ticks, and at the  *)
(* end stops the sources in turn, fills the tracks up to that moment,      *)
(* drains the queues and flushes the encoders.                             *)
(***************************************************************************)
EXTENDS CaptureThread, AudioTracks

CONSTANTS
  TickFill,   \* kMaxSilenceBlocksPerTick
  FinalFill,  \* kMaxFinalSilenceBlocks
  Budget,     \* max_blocks_per_drain_tick
  Lag,        \* kContinuityLagNs
  Instants    \* bound: the times at which the clock is looked at

\* AppHost asks for separate tracks: one for each source.
ASSUME CaptureAssumption ==
  /\ NTracks = NSources
  /\ {TickFill, FinalFill, Budget, Lag} \subseteq Nat /\ Instants \subseteq Nat

VARIABLES
  phase,    \* what the worker is doing
  cur,      \* the source it is starting, NSources + 1 when all are started
  toStop,   \* the sources still to be stopped, in order
  failed,   \* StopSources: a source has failed
  failure,  \* some call of the session has failed
  drained,  \* queues_drained
  now,      \* the session clock
  taken     \* how far the device of each source has been read

workerVars == <<phase, cur, toStop, failed, failure, drained>>
timeVars == <<now, taken>>
vars == <<captureVars, trackVars, workerVars, timeVars>>

Phases == {"starting", "awaiting", "recording", "ticking", "checking", "asking",
           "joining", "filling", "draining", "flushing", "ended", "gone"}

Init ==
  /\ CaptureInit /\ TracksInit
  /\ phase = "starting" /\ cur = 1 /\ toStop = <<>>
  /\ failed = FALSE /\ failure = FALSE /\ drained = FALSE
  /\ now = 0 /\ taken = [s \in Sources |-> 0]

To(p) == phase' = p
Started == [s \in 1..(cur - 1) |-> s]

\* The session is ended: these sources are stopped, in this order.
EndWith(order) ==
  /\ To(IF order = <<>> THEN "filling" ELSE "asking")
  /\ toStop' = order /\ UNCHANGED <<cur, failed, drained>>

-----------------------------------------------------------------------------
(* Start.  A source that fails to start is stopped by its own Start, then  *)
(* those started before it by StopSources.                                 *)

StartSource ==
  /\ phase = "starting"
  /\ \/ /\ LaunchThread(cur)
        /\ To("awaiting") /\ UNCHANGED <<cur, toStop, failed, failure, drained>>
     \/ /\ EndWith(Started) /\ failure' = TRUE   \* no event or no thread
        /\ UNCHANGED captureVars
  /\ UNCHANGED <<trackVars, timeVars>>

\* The startup event, or its timeout; LastResult is read after the event.
AwaitStartup ==
  /\ phase = "awaiting"
  /\ IF startup[cur] /\ result[cur] = "ok"
     THEN /\ cur' = cur + 1
          /\ To(IF cur = NSources THEN "recording" ELSE "starting")
          /\ UNCHANGED <<toStop, failed, failure, drained>>
     ELSE EndWith(<<cur>> \o Started) /\ failure' = TRUE
  /\ UNCHANGED <<captureVars, trackVars, timeVars>>

-----------------------------------------------------------------------------
(* DrainTick: silence up to a lag behind the clock, a bounded drain, and a *)
(* look at the sources that no longer run.                                 *)

TickTarget == Larger(0, now - Lag)

TickFills ==
  /\ phase = "recording"
  /\ FillContinuityTo(TickTarget, TickFill)
  /\ IF FillAccepted(TickTarget, TickFill)
     THEN To("ticking") /\ UNCHANGED <<cur, toStop, failed, failure, drained>>
     ELSE EndWith(Started) /\ failure' = TRUE
  /\ UNCHANGED <<captureVars, timeVars>>

TickDrains ==
  /\ phase = "ticking"
  /\ \/ /\ Drain(Drainable(Budget), TRUE)
        /\ To("checking") /\ UNCHANGED <<cur, toStop, failed, failure, drained>>
     \/ /\ \E n \in 1..Drainable(Budget) : Drain(n, FALSE)
        /\ EndWith(Started) /\ failure' = TRUE
  /\ UNCHANGED <<captureVars, timeVars>>

TickChecks ==
  /\ phase = "checking"
  /\ IF \E s \in Sources : ~running[s] /\ result[s] = "fault"
     THEN EndWith(Started) /\ failure' = TRUE
     ELSE To("recording") /\ UNCHANGED <<cur, toStop, failed, failure, drained>>
  /\ UNCHANGED <<captureVars, trackVars, timeVars>>

\* The user, or a fault of the video side, ends the recording.
EndRecording ==
  /\ phase = "recording"
  /\ EndWith(Started) /\ UNCHANGED failure
  /\ UNCHANGED <<captureVars, trackVars, timeVars>>

-----------------------------------------------------------------------------
(* StopSources: Stop of each source in turn; then, unless one has failed,  *)
(* silence up to the present.                                              *)

AskToStop ==
  /\ phase = "asking"
  /\ RequestStop(Head(toStop)) /\ To("joining")
  /\ UNCHANGED <<trackVars, timeVars, cur, toStop, failed, failure, drained>>

\* The source whose Start failed is not among those StopSources looks at.
CollectResult ==
  /\ phase = "joining"
  /\ LET s == Head(toStop) IN
     /\ Joined(s) /\ AfterJoin(s)
     /\ failed' = (failed \/ (s # cur /\ result[s] = "fault"))
     /\ toStop' = Tail(toStop)
     /\ To(IF Len(toStop) = 1 THEN "filling" ELSE "asking")
  /\ UNCHANGED <<trackVars, timeVars, cur, failure, drained>>

\* Mutant: whether the silence was accepted is not looked at.
FinalFillsBlindly ==
  /\ phase = "filling"
  /\ IF failed THEN failure' = TRUE /\ UNCHANGED trackVars
     ELSE FillContinuityTo(now, FinalFill) /\ UNCHANGED failure
  /\ To("draining")
  /\ UNCHANGED <<captureVars, timeVars, cur, toStop, failed, drained>>

FinalFills ==
  /\ phase = "filling"
  /\ IF failed THEN failure' = TRUE /\ UNCHANGED trackVars
     ELSE /\ FillContinuityTo(now, FinalFill)
          /\ failure' = (failure \/ ~FillComplete(now, FinalFill))
  /\ To("draining")
  /\ UNCHANGED <<captureVars, timeVars, cur, toStop, failed, drained>>

-----------------------------------------------------------------------------
(* DrainQueuedBlocks and FlushEncoders, which the worker calls whatever    *)
(* came before; encoders are flushed only when all blocks left the queues. *)

DrainAll ==
  \/ Drain(Drainable(Cardinality(Queued)), TRUE) /\ drained' = TRUE
  \/ /\ \E n \in 1..Cardinality(Queued) : Drain(n, FALSE)
     /\ drained' = FALSE

DrainQueuedBlocks ==
  /\ phase = "draining"
  /\ DrainAll /\ failure' = (failure \/ ~drained') /\ To("flushing")
  /\ UNCHANGED <<captureVars, timeVars, cur, toStop, failed>>

FlushEncoders ==
  /\ phase = "flushing"
  /\ \E flushed \in BOOLEAN :
       /\ flushed => drained
       /\ failure' = (failure \/ ~flushed)
  /\ To("ended")
  /\ UNCHANGED <<captureVars, trackVars, timeVars, cur, toStop, failed, drained>>

\* The destructor goes through the same steps; what was done is not redone.
Destroy ==
  /\ phase = "ended" /\ To("gone")
  /\ IF drained THEN UNCHANGED <<trackVars, drained>> ELSE DrainAll
  /\ UNCHANGED <<captureVars, timeVars, cur, toStop, failed, failure>>

-----------------------------------------------------------------------------
(* The capture threads, the devices and the clock.                         *)

\* A packet covers a time its device has captured and not delivered yet:
\* the oldest such time, or the newest when others were lost.
Deliver(s) ==
  /\ Delivering(s)
  /\ \E pts \in {taken[s], now - Packet}, error, refused \in BOOLEAN :
       /\ taken[s] <= pts /\ pts + Packet <= now
       /\ taken' = [taken EXCEPT ![s] = pts + Packet]
       /\ OnCapturedPcm(s, pts, error, refused)
       /\ IF refused THEN SinkRefuses(s) ELSE UNCHANGED captureVars
  /\ UNCHANGED <<workerVars, now>>

Thread(s) == ThreadStep(s) /\ UNCHANGED <<trackVars, workerVars, timeVars>>

\* The session does not look at the clock once it has filled to the end.
ClockUsed == phase \notin {"draining", "flushing", "ended", "gone"}
ClockAdvances ==
  /\ ClockUsed /\ \E i \in Instants : now < i /\ now' = i
  /\ UNCHANGED <<captureVars, trackVars, workerVars, taken>>

Worker ==
  \/ StartSource \/ AwaitStartup \/ TickFills \/ TickDrains \/ TickChecks
  \/ EndRecording \/ AskToStop \/ CollectResult \/ FinalFills
  \/ DrainQueuedBlocks \/ FlushEncoders \/ Destroy

Next ==
  \/ Worker \/ ClockAdvances
  \/ \E s \in Sources : Deliver(s) \/ Thread(s)

Spec == Init /\ [][Next]_vars

-----------------------------------------------------------------------------
\* What the variables range over; no queue holds more than its capacity.
TypeOK ==
  /\ CaptureTypeOK /\ TracksTypeOK
  /\ phase \in Phases /\ cur \in 1..(NSources + 1) /\ toStop \in Seq(Sources)
  /\ {failed, failure, drained} \subseteq BOOLEAN
  /\ now \in Instants \cup {0} /\ taken \in [Sources -> 0..now]

\* The blocks of a track abut: each begins where the one before ended, within
\* the tolerance, whatever gaps, late packets and bad stamps the device has.
TrackIsContinuous ==
  \A t \in Tracks : ~lost[t] =>
    \A i \in 1..Len(queue[t]) :
      LET before == IF i = 1 THEN encoded[t] ELSE queue[t][i - 1].end
      IN queue[t][i].pts \in (before - Tolerance)..(before + Tolerance)

\* A session that ends without a failure has no capture thread left, has
\* encoded all it queued up to the moment it was stopped, and lost nothing but
\* packets whose refusal the code itself drops: in an attempt that a stop finds
\* under way, or when the device is lost with the packet still in its buffer.
NothingLostUnnoticed ==
  (phase \in {"ended", "gone"} /\ ~failure) =>
    \A t \in Tracks : /\ ~Alive(t) /\ queue[t] = <<>>
                      /\ encoded[t] + Tolerance >= now
                      /\ lost[t] => excused[t]

\* The recorder waits only for threads it has asked to stop, and such a thread
\* goes one way: it opens no endpoint again and comes to its end, from within
\* a first attempt, a delay or a refused packet alike.
Rank(place) ==
  CASE place = "opening" -> 6 [] place = "capturing" -> 5
    [] place \in {"draining", "waiting"} -> 4 [] place = "refused" -> 3
    [] place = "closing" -> 2 [] place = "clearing" -> 1 [] OTHER -> 0
StopIsDecisive ==
  [][/\ phase = "joining" => stopEvent[Head(toStop)]
     /\ \A s \in Sources :
          (stopEvent[s] /\ at'[s] # at[s]) => Rank(at'[s]) < Rank(at[s])]_vars
=============================================================================
