---------------------------- MODULE AudioTracks ----------------------------
(***************************************************************************)
(* The PCM of each audio track between the capture threads and the AAC     *)
(* encoders: SerializedBridgeSink of src/audio/AudioLiveCaptureEncode.cpp, *)
(* which places each packet behind the one before and fills gaps with      *)
(* silence; the bounded PreparedPcmQueue; and the drain, round robin over  *)
(* the tracks.  All of it runs under bridge_mutex.  A block is the time it *)
(* covers; samples, formats and conversion are left out.                   *)
(***************************************************************************)
EXTENDS Integers, Sequences, FiniteSets

CONSTANTS
  NTracks,
  Capacity,    \* blocks a queue holds
  Packet,      \* duration of a packet of the device
  Tolerance,   \* kContinuityToleranceNs
  Silence,     \* kMaxSilenceBlockDurationNs
  PacketFill   \* kMaxSilenceBlocksPerCapturedPacket

ASSUME TracksAssumption ==
  /\ {NTracks, Capacity, Packet, Silence} \subseteq Nat \ {0}
  /\ {Tolerance, PacketFill} \subseteq Nat
  /\ 2 * Tolerance < Packet /\ Tolerance < Silence

VARIABLES
  next,     \* next_pts_ns of each track
  queue,    \* its PreparedPcmQueue
  encoded,  \* end of the last block its encoder took
  lost      \* history: a block of it was refused, by queue or encoder

trackVars == <<next, queue, encoded, lost>>

Tracks == 1..NTracks
Smaller(a, b) == IF a < b THEN a ELSE b
Larger(a, b) == IF a < b THEN b ELSE a

Block(pts, end) == [pts |-> pts, end |-> end]

TracksInit ==
  /\ next = [t \in Tracks |-> 0] /\ queue = [t \in Tracks |-> <<>>]
  /\ encoded = next /\ lost = [t \in Tracks |-> FALSE]

TracksTypeOK ==
  /\ next \in [Tracks -> Nat] /\ encoded \in [Tracks -> Nat]
  /\ lost \in [Tracks -> BOOLEAN]
  /\ queue \in [Tracks -> Seq([pts : Nat, end : Nat])]
  /\ \A t \in Tracks : Len(queue[t]) <= Capacity

-----------------------------------------------------------------------------
(* Silence.                                                                *)

\* The blocks FillSourceTo needs to bring a track from here to target.
Needed(from, target) ==
  IF target <= from + Tolerance THEN 0
  ELSE (target - from - Tolerance + Silence - 1) \div Silence

Silences(from, target, n) ==
  [i \in 1..n |-> Block(from + (i - 1) * Silence, Smaller(target, from + i * Silence))]

\* TryPush with RejectNewest: how many of n blocks a queue takes.
Room(q) == Capacity - Len(q)

\* FillSourceTo: a track given up to max blocks of silence; what is queued
\* then, where the track ends, and whether the queue took them all.
Filled(t, target, max) ==
  LET wanted == Smaller(max, Needed(next[t], target))
      taken == Smaller(wanted, Room(queue[t]))
      reached == Smaller(target, next[t] + taken * Silence)
  IN [q |-> queue[t] \o Silences(next[t], target, taken),
      next |-> IF taken = 0 THEN next[t] ELSE reached,
      ok |-> taken = wanted]

-----------------------------------------------------------------------------
(* OnCapturedPcm: a packet stamped pts, its stamp in error or not.  refused *)
(* is what the capture thread is told.                                     *)

\* Mutant: the stamp is kept although the silence stopped short of it.
OnCapturedPcmKeepsStamp(t, pts, error, refused) ==
  LET first == IF error \/ pts + Tolerance < next[t] THEN next[t] ELSE pts
      filled == Filled(t, first, PacketFill)
      fits == filled.ok /\ Room(filled.q) > 0
  IN /\ refused = ~fits
     /\ queue' = [queue EXCEPT ![t] =
          IF fits THEN Append(filled.q, Block(first, first + Packet)) ELSE filled.q]
     /\ next' = [next EXCEPT ![t] =
          IF fits THEN Larger(filled.next, first + Packet) ELSE filled.next]
     /\ lost' = [lost EXCEPT ![t] = @ \/ ~fits]
     /\ UNCHANGED encoded

OnCapturedPcm(t, pts, error, refused) ==
  LET first == IF error \/ pts + Tolerance < next[t] THEN next[t] ELSE pts
      filled == Filled(t, first, PacketFill)
      placed == IF filled.next + Tolerance < first THEN filled.next ELSE first
      fits == filled.ok /\ Room(filled.q) > 0
  IN /\ refused = ~fits
     /\ queue' = [queue EXCEPT ![t] =
          IF fits THEN Append(filled.q, Block(placed, placed + Packet)) ELSE filled.q]
     /\ next' = [next EXCEPT ![t] =
          IF fits THEN Larger(filled.next, placed + Packet) ELSE filled.next]
     /\ lost' = [lost EXCEPT ![t] = @ \/ ~fits]
     /\ UNCHANGED encoded

\* FillContinuityTo: the tracks in turn, up to one that its queue refuses.
FillContinuityTo(target, max) ==
  LET F(t) == Filled(t, target, max)
      Done(t) == \A u \in 1..(t - 1) : F(u).ok
  IN /\ queue' = [t \in Tracks |-> IF Done(t) THEN F(t).q ELSE queue[t]]
     /\ next' = [t \in Tracks |-> IF Done(t) THEN F(t).next ELSE next[t]]
     /\ UNCHANGED <<encoded, lost>>

FillAccepted(target, max) == \A t \in Tracks : Filled(t, target, max).ok
FillComplete(target, max) ==
  /\ FillAccepted(target, max)
  /\ \A t \in Tracks : target <= Filled(t, target, max).next + Tolerance

-----------------------------------------------------------------------------
(* Draining: one block of each track in turn.  The i-th block of track t   *)
(* is the Turn(t, i)-th to leave.                                          *)

Queued == UNION {{t} \X (1..Len(queue[t])) : t \in Tracks}
Turn(t, i) ==
  Cardinality({b \in Queued : b[2] < i \/ (b[2] = i /\ b[1] <= t)})

Leaving(t, n) == Cardinality({i \in 1..Len(queue[t]) : Turn(t, i) <= n})
Drainable(budget) == Smaller(budget, Cardinality(Queued))

\* The first n blocks leave; when good is FALSE the last of them is refused
\* by its encoder, and is gone all the same.
Drain(n, good) ==
  LET Left(t) == SubSeq(queue[t], Leaving(t, n) + 1, Len(queue[t]))
      Taken(t) == Leaving(t, IF good THEN n ELSE n - 1)
  IN /\ queue' = [t \in Tracks |-> Left(t)]
     /\ encoded' = [t \in Tracks |->
          IF Taken(t) = 0 THEN encoded[t] ELSE queue[t][Taken(t)].end]
     /\ lost' = [t \in Tracks |-> lost[t] \/ Taken(t) < Leaving(t, n)]
     /\ UNCHANGED next
=============================================================================
