---------------------------- MODULE VideoRefinement ----------------------------
(***************************************************************************)
(* What VideoPath does in detail, with a queue, leased textures, the NV12  *)
(* texture, a transform and five threads, is what the recorder's model     *)
(* takes it for: VideoPath implements the video half of MediaPath.         *)
(*                                                                         *)
(* VideoPath keeps only frames that are still on their way or stored.      *)
(* Which frames got lost is added as a history variable; frames that a     *)
(* full queue gives up do not count among them.                            *)
(***************************************************************************)
EXTENDS VideoPath

VARIABLE lost   \* history: stamps of the frames that had been queued and are gone

historyVars == <<vars, lost>>

Queued == {queue[i].stamp : i \in DOMAIN queue}
Waiting == IF step = "frame" THEN Queued \cup {frame.stamp} ELSE Queued
InEncoder == IF step = "drain" THEN {frame.stamp} ELSE {}
InStore == {stored[i].stamp : i \in DOMAIN stored}
OnTheWay == Waiting \cup InEncoder \cup InStore

HistoryInit == Init /\ lost = {}
HistoryNext ==
  Next /\ lost' = IF Deliver THEN lost ELSE lost \cup (OnTheWay \ OnTheWay')
HistorySpec == HistoryInit /\ [][HistoryNext]_historyVars

-----------------------------------------------------------------------------
(* The refinement mapping.  The frames are their stamps.                   *)

FrameStamps == 1..MaxFrames

FramePlace == [s \in FrameStamps |->
  IF s \in InStore THEN "stored"
  ELSE IF s \in Waiting THEN "queued"
  ELSE IF s \in InEncoder THEN "encoder"
  ELSE IF s \in lost THEN "lost" ELSE "none"]

Media == INSTANCE VideoMedia WITH
  Video <- FrameStamps, Audio <- {}, CaptureFaults <- {"device", "other"},
  capturing <- IF runtime = "ready" THEN {"video"} ELSE {},
  captureFault <- fault,
  encode <- thread,
  encodeFault <- encodeFault,
  place <- FramePlace,
  store <- "open",
  storeFault <- FALSE

\* The video of a recording is what the recorder takes it for: however the
\* callbacks, the encode thread, the transform and the worker interleave, a
\* frame goes through queue and encoder once, reaches the store only from
\* the encoder of a thread that is at work, is given up only when the queue
\* overflows, the thread fails or its queue is discarded, and a thread that
\* stops has encoded all of its queue (VideoEncodeThread.cpp).
VideoIsMedia == Media!VideoSpec
=============================================================================
