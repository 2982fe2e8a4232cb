------------------------------ MODULE ExportPlan ------------------------------
(***************************************************************************)
(* Which packets of a recording go into a clip, a bookmark or the MP4 of   *)
(* the whole, and at what times: QueryPacketRange (src/record/PacketStore) *)
(* with BuildVideoExportPlan, BuildMuxPlan, BuildActiveRecordingClipPlan,  *)
(* BuildActiveRecordingBookmarkPlan and the check of the packet writer.    *)
(*                                                                         *)
(* The variable is the index of a store as the encoders fill it: a packet  *)
(* of video lasts one nominal frame although frames arrive with jitter,    *)
(* the first of them is a key frame, a packet of audio begins where the    *)
(* last one of its track should end, its length rounded on its own.        *)
(* Tracks of the index are those of the manifest, which PacketStore        *)
(* enforces; paths and the metadata of streams are left out.               *)
(***************************************************************************)
EXTENDS Integers, Sequences, SequencesExt

CONSTANTS
  AudioTracks,    \* track numbers; video is track 1
  FrameLength,    \* nominal length of a frame
  AacLength,      \* and of a packet of audio
  MaxVideo, MaxAudio,   \* bounds: packets of video, of each audio track
  MaxInterval     \* bound: from one frame to the next

VideoTrack == 1

ASSUME ExportAssumption ==
  /\ AudioTracks \subseteq Nat \ {0, VideoTrack}
  /\ {FrameLength, AacLength, MaxVideo, MaxAudio, MaxInterval} \subseteq Nat \ {0}

VARIABLE index

EndPts(p) == p.pts + p.duration
Track(i) == index[i].track
OfTrack(t) == {i \in DOMAIN index : Track(i) = t}

ExportInit == index = <<>>

AppendH264Packet ==
  LET own == OfTrack(VideoTrack)
  IN /\ Cardinality(own) < MaxVideo
     /\ \E interval \in 1..MaxInterval, key \in BOOLEAN :
          /\ own = {} => key
          /\ index' = Append(index,
               [track |-> VideoTrack, key |-> key, duration |-> FrameLength,
                pts |-> IF own = {} THEN interval - 1 ELSE index[Max(own)].pts + interval])

AppendAacPacket(t) ==
  LET count == Cardinality(OfTrack(t))
  IN /\ count < MaxAudio
     /\ \E rounding \in {0, 1} :
          index' = Append(index, [track |-> t, key |-> FALSE, duration |-> AacLength + rounding,
                                  pts |-> count * AacLength])

ExportNext == AppendH264Packet \/ \E t \in AudioTracks : AppendAacPacket(t)
ExportSpec == ExportInit /\ [][ExportNext]_index

-----------------------------------------------------------------------------
(* The plan for a range.  A packet is known by its place in the index,     *)
(* which is its order in the file.                                         *)

Later(a, b) == IF a >= b THEN a ELSE b
Overlap(p, from, to) == p.pts < to /\ EndPts(p) > from

\* The range begins at the last key frame before it: the last one in the
\* index, since video is in order there.
ActualStart(from) ==
  LET keys == {i \in OfTrack(VideoTrack) : index[i].key /\ index[i].pts <= from}
  IN IF keys = {} THEN from ELSE index[Max(keys)].pts

\* Mutant: whatever overlaps the range is in it, a frame before the key
\* frame that nominally lasts into it included.
QueryAllOverlapping(from, to) ==
  LET start == ActualStart(from)
  IN [start |-> start, end |-> to, packets |-> {i \in DOMAIN index : Overlap(index[i], start, to)}]

QueryPacketRange(from, to) ==
  LET start == ActualStart(from)
  IN [start |-> start, end |-> to,
      packets |-> {i \in DOMAIN index : /\ ~(Track(i) = VideoTrack /\ index[i].pts < start)
                                        /\ Overlap(index[i], start, to)}]

\* A finite set as a sequence: the k-th element has k - 1 before it.
InOrder(S, Precedes(_, _)) ==
  [k \in 1..Cardinality(S) |->
     CHOOSE x \in S : Cardinality({y \in S : Precedes(y, x)}) = k - 1]
Less(a, b) == a < b

\* Packets with their times in the output, from the first written to the
\* last; with the same time and track, in the order of the file.
NormalizeTimestamp(pts, start) == Later(0, pts - start)

Before(a, b) ==
  \/ a.time < b.time
  \/ a.time = b.time /\ Track(a.packet) < Track(b.packet)
  \/ a.time = b.time /\ Track(a.packet) = Track(b.packet) /\ a.packet < b.packet

BuildMuxPlan(range) ==
  InOrder({[packet |-> i, time |-> NormalizeTimestamp(index[i].pts, range.start)] :
             i \in range.packets}, Before)

\* The tracks that have packets in the range, as the manifest lists them:
\* video before audio.
TracksOf(range) == {Track(i) : i \in range.packets}
CodecOf(t) == IF t = VideoTrack THEN "H264" ELSE "Aac"

Written(packets, t) == {k \in DOMAIN packets : Track(packets[k].packet) = t}
FindFirstVideoPacket(packets) ==
  LET own == Written(packets, VideoTrack)
  IN IF own = {} THEN {} ELSE {packets[Min(own)].packet}
StartsOnKey(packets) == \E i \in FindFirstVideoPacket(packets) : index[i].key

Failed(status) ==
  [status |-> status, start |-> 0, end |-> 0, tracks |-> <<>>, audio |-> <<>>, packets |-> <<>>]

BuildVideoExportPlan(from, to) ==
  LET range == QueryPacketRange(from, to)
      tracks == TracksOf(range)
      packets == BuildMuxPlan(range)
  IN IF from < 0 \/ to <= from THEN Failed("InvalidRequest")
     ELSE IF VideoTrack \notin tracks THEN Failed("NoPackets")
     ELSE IF ~(AudioTracks \subseteq tracks) THEN Failed("MissingAudioPackets")
     ELSE IF ~StartsOnKey(packets) THEN Failed("NoKeyframe")
     ELSE [status |-> "Success", start |-> range.start, end |-> range.end, packets |-> packets,
           tracks |-> InOrder(tracks, Less), audio |-> InOrder(tracks \cap AudioTracks, Less)]

RecordingEnd == Max({0} \cup {EndPts(index[i]) : i \in OfTrack(VideoTrack)})

\* BuildExportPlan of the recorder, for the whole.
RecordingPlan == BuildVideoExportPlan(0, RecordingEnd)

ClipStart(duration) == IF duration >= RecordingEnd THEN 0 ELSE RecordingEnd - duration

BuildActiveRecordingClipPlan(duration) ==
  IF RecordingEnd <= 0 THEN Failed("NoVideoPackets")
  ELSE BuildVideoExportPlan(ClipStart(duration), RecordingEnd)

\* A bookmark is made at the end of what there is, and its range resolved
\* from that: it has to be the one of its clip, for the bookmark has been
\* added by then.
ResolveBookmarkExportRange(time, pre) == [start |-> Later(0, time - pre), end |-> time]

BuildActiveRecordingBookmarkPlan(pre) ==
  LET clip == BuildActiveRecordingClipPlan(pre)
      range == ResolveBookmarkExportRange(RecordingEnd, pre)
  IN IF clip.status # "Success" THEN clip
     ELSE IF range = [start |-> ClipStart(pre), end |-> RecordingEnd] THEN clip
     ELSE Failed("RangeResolutionFailed")

-----------------------------------------------------------------------------
(* What the muxer asks of a plan before and while it writes.               *)

BuildVideoMp4MuxRequest(plan) == [video |-> VideoTrack, audio |-> plan.audio, plan |-> plan]

FindSingleVideoTrack(plan) ==
  LET own == {k \in DOMAIN plan.tracks : CodecOf(plan.tracks[k]) = "H264"}
  IN IF \E k \in own : own = {k} THEN {plan.tracks[k] : k \in own} ELSE {}

ValidateRequest(request) ==
  LET plan == request.plan
  IN /\ plan.end > plan.start /\ plan.tracks # <<>> /\ plan.packets # <<>>
     /\ FindSingleVideoTrack(plan) = {request.video}
     /\ IsInjective(plan.tracks) /\ 0 \notin ToSet(plan.tracks)
     /\ IsInjective(request.audio) /\ request.video \notin ToSet(request.audio)
     /\ ToSet(request.audio) = {t \in ToSet(plan.tracks) : CodecOf(t) = "Aac"}
     /\ {Track(plan.packets[k].packet) : k \in DOMAIN plan.packets} = ToSet(plan.tracks)
     /\ StartsOnKey(plan.packets)

\* ValidatePacketWriterRequest, for the packets of one track.
WriterAccepts(packets, t) ==
  \A k \in Written(packets, t) :
    /\ packets[k].time >= 0 /\ index[packets[k].packet].duration > 0
    /\ \A j \in Written(packets, t) : j < k => packets[j].time <= packets[k].time

ConfigureFfmpegH264VideoStream(request) == [track |-> request.video, codec |-> "H264"]
ConfigureFfmpegAacAudioStream(audio) == [track |-> audio, codec |-> "Aac"]

\* The streams of the MP4 in the order they are made, none for a track that
\* comes twice; FFmpeg's own refusals are left out.
ConfigureFfmpegStreams(request) ==
  LET audio == [i \in DOMAIN request.audio |-> ConfigureFfmpegAacAudioStream(request.audio[i])]
  IN IF IsInjective(<<request.video>> \o request.audio)
     THEN <<ConfigureFfmpegH264VideoStream(request)>> \o audio ELSE <<>>

-----------------------------------------------------------------------------
(* Properties.                                                             *)

\* Longer ones are the same as the whole.
Durations == 1..RecordingEnd

\* The video a range needs to be decoded, in order: from a key frame that
\* is shown no later than the range begins, if there is one, to its end,
\* with no gap.
Decodable(plan, from) ==
  LET own == OfTrack(VideoTrack)
      keys == {i \in own : index[i].key /\ index[i].pts <= from}
      first == IF keys = {} THEN Min(own) ELSE Max(keys)
      video == Written(plan.packets, VideoTrack)
  IN /\ {plan.packets[k].packet : k \in video} = {i \in own : i >= first}
     /\ \A j, k \in video : j < k => plan.packets[j].packet < plan.packets[k].packet

\* Nothing moves against anything else, but for what begins before the range.
InSync(plan) ==
  \A j, k \in DOMAIN plan.packets :
    LET a == plan.packets[j]  b == plan.packets[k]
        shift == index[a.packet].pts - index[b.packet].pts
    IN index[a.packet].pts >= plan.start /\ index[b.packet].pts >= plan.start
       => a.time - b.time = shift

\* No plan is refused by the muxer, and each packet has a stream.
Mp4Accepts(plan) ==
  LET request == BuildVideoMp4MuxRequest(plan)
      streams == ConfigureFfmpegStreams(request)
  IN /\ ValidateRequest(request)
     /\ \A k \in DOMAIN streams : WriterAccepts(plan.packets, streams[k].track)
     /\ \A k \in DOMAIN plan.packets :
          LET t == Track(plan.packets[k].packet)
          IN [track |-> t, codec |-> CodecOf(t)] \in ToSet(streams)

Whole(plan, from) ==
  /\ plan.status \in {"Success", "MissingAudioPackets"}
  /\ plan.status = "Success" =>
       /\ Decodable(plan, from) /\ InSync(plan)
       /\ Mp4Accepts(plan)
       /\ \A t \in AudioTracks : \A i \in OfTrack(t) :
            Overlap(index[i], plan.start, plan.end)
            => \E k \in DOMAIN plan.packets : plan.packets[k].packet = i

\* As soon as there is video, a clip or bookmark of any length and the
\* whole recording can be planned, unless an audio track has nothing yet in
\* the range; the plan starts at the right key frame however frames jitter,
\* misses no packet, keeps audio and video together and passes every check
\* the muxer makes before it writes (PacketStore.cpp:670,
\* VideoExportPlan.cpp:298, Mp4Muxer.cpp:837, Mp4Muxer.cpp:1150).
ExportsAreWhole ==
  RecordingEnd > 0 =>
    /\ Whole(RecordingPlan, 0)
    /\ \A d \in Durations : Whole(BuildActiveRecordingBookmarkPlan(d), ClipStart(d))
=============================================================================
