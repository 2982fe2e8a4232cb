------------------------------ MODULE VideoMedia ------------------------------
(***************************************************************************)
(* The video half of MediaPath by itself, for one recording whose store is *)
(* open and does not fail: what Recorder takes for granted of the frames   *)
(* between the screen and the store, whichever way the recorder's worker   *)
(* starts and stops their two threads.                                     *)
(***************************************************************************)
EXTENDS MediaPath

VideoInit ==
  /\ capturing = {} /\ captureFault = "none"
  /\ encode = "idle" /\ encodeFault = "none"
  /\ place = [s \in Samples |-> "none"]
  /\ store = "open" /\ storeFault = FALSE

-----------------------------------------------------------------------------
(* The calls of the worker.                                                *)

StartEncode ==
  /\ encode = "idle" /\ encode' = "running"
  /\ UNCHANGED <<capturing, captureFault, encodeFault, place, store, storeFault>>

StartCapture ==
  /\ capturing = {} /\ capturing' = {"video"}
  /\ UNCHANGED <<captureFault, encode, encodeFault, place, store, storeFault>>

\* The capture is stopped, or did not start, and then the thread.
StopVideo ==
  /\ capturing' = {} /\ AskEncodeToStop
  /\ UNCHANGED <<captureFault, encodeFault, place, store, storeFault>>

Discarded(pl) == [s \in Samples |-> IF s \in Video /\ pl[s] = "queued" THEN "lost" ELSE pl[s]]

DiscardQueued ==
  /\ EncodeEnded /\ place' = Discarded(place)
  /\ UNCHANGED <<capturing, captureFault, encode, encodeFault, store, storeFault>>

-----------------------------------------------------------------------------
CaptureStep ==
  \/ \E s \in Video, backlog \in SUBSET Video : CaptureVideo(s, backlog)
  \/ \E kind \in CaptureFaults : CaptureFails(kind)
  \/ CaptureSinkFails

EncodeStep ==
  \/ \E s \in Video : EncodeFrame(s) \/ EncoderOutput(s)
                      \/ \E kind \in {"runtime", "other"} : EncodeFails(kind, s)
  \/ EncodeNeverRuns \/ EncodeStops

VideoNext ==
  \/ StartEncode \/ StartCapture \/ StopVideo \/ DiscardQueued \/ CaptureStep \/ EncodeStep

VideoSpec == VideoInit /\ [][VideoNext]_mediaVars
=============================================================================
