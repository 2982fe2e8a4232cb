------------------------------ MODULE MediaPath ------------------------------
(***************************************************************************)
(* The media of one recording, from capture to the packet store: the WGC   *)
(* and WASAPI sources, the video encode thread                             *)
(* (src/src/encode/VideoEncodeThread.cpp), and the packet store as the     *)
(* recorder sees it.  What the writer of the store does is PacketStore's   *)
(* matter; here the store may fail at any time while it is open, and then  *)
(* loses any of the packets it had accepted.                               *)
(*                                                                         *)
(* A sample is a frame or a block of PCM together with the packet made of  *)
(* it, and place says how far it has come.  Video is encoded by its own    *)
(* thread; audio is drained by the recorder's worker.                      *)
(***************************************************************************)
EXTENDS Integers, FiniteSets

CONSTANTS
  Video, Audio,   \* the samples the sources may deliver
  CaptureFaults   \* bound: the faults of the video source that may occur

ASSUME MediaAssumption ==
  Video \cap Audio = {} /\ CaptureFaults \subseteq {"topology", "device", "other"}

VARIABLES
  capturing,     \* the sources that deliver: subset of {"video", "audio"}
  captureFault,  \* latched WgcMonitorCaptureFault
  encode,        \* VideoEncodeThread: state_
  encodeFault,   \* what stopped the encode thread
  place,         \* how far each sample has come
  store,         \* "none", "open" or "closed"
  storeFault     \* last_write_fault().Failed()

mediaVars == <<capturing, captureFault, encode, encodeFault, place, store, storeFault>>

Samples == Video \cup Audio
Places == {"none", "queued", "encoder", "stored", "lost"}
At(pl, S, where) == {s \in S : pl[s] = where}
Accepting == encode = "running"
Usable == store = "open" /\ ~storeFault

(* The places that result when the samples S each move to one of dest.     *)
Moved(pl, S, dest) ==
  {[s \in Samples |-> IF s \in S THEN f[s] ELSE pl[s]] : f \in [S -> dest]}

MediaInit ==
  /\ capturing = {} /\ captureFault = "none"
  /\ encode = "idle" /\ encodeFault = "none"
  /\ place = [s \in Samples |-> "none"]
  /\ store = "none" /\ storeFault = FALSE

(* A new recording starts with nothing of the one before.                  *)
MediaReset ==
  /\ capturing' = {} /\ captureFault' = "none"
  /\ encode' = "idle" /\ encodeFault' = "none"
  /\ place' = [s \in Samples |-> "none"]
  /\ store' = "none" /\ storeFault' = FALSE

-----------------------------------------------------------------------------
(* The sources.                                                            *)

(* A full queue gives up what waits in it (KeepNewest), as if it had not   *)
(* been delivered.  A frame that is on its way when a fault is latched     *)
(* still comes.                                                            *)
Pushed(pl, s, backlog) ==
  [x \in Samples |-> IF x = s THEN "queued" ELSE IF x \in backlog THEN "none" ELSE pl[x]]

CaptureVideo(s, backlog) ==
  /\ "video" \in capturing /\ Accepting
  /\ s \in At(place, Video, "none") /\ backlog \subseteq At(place, Video, "queued")
  /\ place' = Pushed(place, s, backlog)
  /\ UNCHANGED <<capturing, captureFault, encode, encodeFault, store, storeFault>>

CaptureAudio(s) ==
  /\ s \in At(place, Audio, "none") /\ "audio" \in capturing
  /\ place' = [place EXCEPT ![s] = "queued"]
  /\ UNCHANGED <<capturing, captureFault, encode, encodeFault, store, storeFault>>

(* The monitor goes or changes size, the D3D11 device is lost, or the      *)
(* frame callback fails in another way.                                    *)
CaptureFails(kind) ==
  /\ kind \in CaptureFaults /\ "video" \in capturing /\ captureFault = "none"
  /\ captureFault' = kind
  /\ UNCHANGED <<capturing, encode, encodeFault, place, store, storeFault>>

(* A frame meets an encode thread that accepts none: a SinkFailed fault.   *)
CaptureSinkFails ==
  /\ "video" \in capturing /\ captureFault = "none" /\ ~Accepting
  /\ captureFault' = "sink"
  /\ UNCHANGED <<capturing, encode, encodeFault, place, store, storeFault>>

-----------------------------------------------------------------------------
(* The encode thread.                                                      *)

Encoding == encode \in {"running", "stopping"}

EncodeFrame(s) ==
  /\ Encoding /\ s \in At(place, Video, "queued")
  /\ place' = [place EXCEPT ![s] = "encoder"]
  /\ UNCHANGED <<capturing, captureFault, encode, encodeFault, store, storeFault>>

EncoderOutput(s) ==
  /\ Encoding /\ s \in At(place, Video, "encoder") /\ Usable
  /\ place' = [place EXCEPT ![s] = "stored"]
  /\ UNCHANGED <<capturing, captureFault, encode, encodeFault, store, storeFault>>

(* A frame cannot be converted or encoded ("runtime": device or hardware   *)
(* encoder), its packet cannot be stored, or it is refused ("other").  The *)
(* session may fail with the packet stored: for want of SPS and PPS.       *)
EncodeFails(kind, s) ==
  /\ Encoding /\ encode' = "failed" /\ encodeFault' = kind
  /\ s \in At(place, Video, "queued") \cup At(place, Video, "encoder")
  /\ \/ place' = [place EXCEPT ![s] = "lost"]
     \/ /\ kind = "other" /\ Usable /\ place[s] = "encoder"
        /\ place' = [place EXCEPT ![s] = "stored"]
  /\ UNCHANGED <<capturing, captureFault, store, storeFault>>

(* The thread cannot initialize COM, before it takes a frame.              *)
EncodeNeverRuns ==
  /\ Encoding /\ encode' = "failed" /\ encodeFault' = "other"
  /\ \A s \in Video : place[s] \in {"none", "queued"}
  /\ UNCHANGED <<capturing, captureFault, place, store, storeFault>>

EncodeStops ==
  /\ encode = "stopping" /\ At(place, Video, "queued") = {}
  /\ encode' = "stopped"
  /\ UNCHANGED <<capturing, captureFault, encodeFault, place, store, storeFault>>

(* StopAndDrain asks the thread to finish its queue, then joins it.        *)
AskEncodeToStop == encode' = IF encode = "running" THEN "stopping" ELSE encode
EncodeEnded == encode \in {"idle", "stopped", "failed"}

-----------------------------------------------------------------------------
(* The writer of the store fails: what it had not written is lost.         *)
StoreFails(lost) ==
  /\ Usable /\ lost \subseteq At(place, Samples, "stored")
  /\ storeFault' = TRUE
  /\ place' = [s \in Samples |-> IF s \in lost THEN "lost" ELSE place[s]]
  /\ UNCHANGED <<capturing, captureFault, encode, encodeFault, store>>

(* Draining queued audio into its encoder, and flushing that encoder: the  *)
(* resulting places when all goes well, and when something fails.          *)
AudioDrained(pl) ==
  Moved(pl, At(pl, Audio, "queued"), {"encoder"} \cup (IF Usable THEN {"stored"} ELSE {}))
AudioFlushed(pl) ==
  IF Usable \/ At(pl, Audio, "encoder") = {}
  THEN Moved(pl, At(pl, Audio, "encoder"), {"stored"}) ELSE {}
AudioFailed(pl, where) ==
  Moved(pl, At(pl, Audio, where),
        {where, "encoder", "lost"} \cup (IF Usable THEN {"stored"} ELSE {}))

(* Both in turn: encoders are flushed only once all blocks are drained.    *)
AudioEnded(pl) ==
  AudioFailed(pl, "queued") \cup
  UNION {AudioFlushed(dr) \cup AudioFailed(dr, "encoder") : dr \in AudioDrained(pl)}

MediaTypeOK ==
  /\ capturing \subseteq {"video", "audio"}
  /\ captureFault \in {"none", "topology", "device", "other", "sink"}
  /\ encode \in {"idle", "running", "stopping", "stopped", "failed"}
  /\ encodeFault \in {"none", "runtime", "other"}
  /\ place \in [Samples -> Places]
  /\ store \in {"none", "open", "closed"} /\ storeFault \in BOOLEAN
=============================================================================
