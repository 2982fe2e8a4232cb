-------------------------- MODULE AudioCaptureProofs --------------------------
(***************************************************************************)
(* Proofs about AudioCapture, for any number of sources, any capacity of   *)
(* the queues and any duration of packets and silence.                     *)
(***************************************************************************)
EXTENDS AudioCapture, FiniteSetTheorems, TLAPS

-----------------------------------------------------------------------------
(* The blocks of a track: each begins, within the tolerance, where the one *)
(* before ended.                                                           *)

Blocks == [pts : Nat, end : Nat]
EndOf(q, from) == IF q = <<>> THEN from ELSE q[Len(q)].end
Abut(q, from) ==
  \A i \in 1..Len(q) :
    LET before == IF i = 1 THEN from ELSE q[i - 1].end
    IN q[i].pts \in (before - Tolerance)..(before + Tolerance)

-----------------------------------------------------------------------------
(* The inductive invariant, in parts.                                      *)

Running == {"starting", "awaiting", "recording", "ticking", "checking"}
Stopping == {"asking", "joining"}
Stopped == {"filling", "draining", "flushing", "ended", "gone"}

(* A track is continuous, and next_pts_ns is where it ends, except after   *)
(* an encoder refused a block, which is a failure of the session.          *)
ChainInv ==
  \A t \in Tracks :
    /\ ~lost[t] => Abut(queue[t], encoded[t])
    /\ next[t] = EndOf(queue[t], encoded[t]) \/ (lost[t] /\ failure)

(* Sources are started in turn; none is asked to stop before all are, and  *)
(* then every thread that is alive is still to be joined.                  *)
OrderInv ==
  /\ phase \in Running => /\ ~failure /\ ~failed /\ toStop = <<>>
                          /\ \A s \in Sources : ~stopEvent[s]
  /\ phase \in {"starting", "awaiting"} => cur <= NSources
  /\ phase \in {"recording", "ticking", "checking"} => cur = NSources + 1
  /\ phase \in Stopping => toStop # <<>>
  /\ phase = "joining" => stopEvent[Head(toStop)]
  /\ phase \notin Running /\ ~failure => cur = NSources + 1
  /\ \A s \in Sources : s > cur \/ (s = cur /\ phase = "starting") => at[s] = "none"
  /\ phase \in Stopping \cup Stopped =>
       \A s \in Sources : Alive(s) => \E i \in 1..Len(toStop) : toStop[i] = s
  /\ phase \in Stopped => toStop = <<>>

(* A packet that was refused stays on record: with its thread, which takes *)
(* the failure to the result that StopSources looks at, unless a stop or   *)
(* the loss of the device hid it on the way.                               *)
RefusalInv ==
  /\ \A s \in Sources : lost[s] =>
       \/ failure \/ excused[s] \/ at[s] = "refused"
       \/ at[s] = "closing" /\ verdict[s] = "fault"
       \/ at[s] \in {"clearing", "ended"} /\ result[s] = "fault"
  /\ phase \in Stopping \cup Stopped /\ ~failure /\ ~failed =>
       \A s \in Sources : \/ \E i \in 1..Len(toStop) : toStop[i] = s
                          \/ result[s] = "ok"

(* What the end of the session has done so far.                            *)
EndInv ==
  /\ phase \in {"draining", "flushing", "ended", "gone"} /\ ~failure =>
       /\ ~failed
       /\ \A t \in Tracks : now <= next[t] + Tolerance
  /\ phase \in {"flushing", "ended", "gone"} /\ ~failure =>
       /\ drained
       /\ \A t \in Tracks : queue[t] = <<>>
  /\ phase \in {"flushing", "ended"} /\ ~drained => failure

IInv == TypeOK /\ ChainInv /\ OrderInv /\ RefusalInv /\ EndInv

-----------------------------------------------------------------------------
(* Sequences of blocks.                                                    *)

LEMMA EndIsTime ==
  ASSUME NEW q \in Seq(Blocks), NEW from \in Nat
  PROVE  EndOf(q, from) \in Nat
<1>1. CASE q = <<>>
  BY <1>1 DEF EndOf
<1>2. CASE q # <<>>
  <2>1. q[Len(q)] \in Blocks
    BY <1>2
  <2> QED BY <1>2, <2>1 DEF EndOf, Blocks
<1> QED BY <1>1, <1>2

LEMMA AppendAbuts ==
  ASSUME NEW q \in Seq(Blocks), NEW from \in Nat, NEW b \in Blocks
  PROVE  /\ Append(q, b) \in Seq(Blocks) /\ EndOf(Append(q, b), from) = b.end
         /\ Abut(q, from)
            /\ b.pts \in (EndOf(q, from) - Tolerance)..(EndOf(q, from) + Tolerance)
              => Abut(Append(q, b), from)
<1> DEFINE r == Append(q, b)
<1>1. r \in Seq(Blocks) /\ Len(r) = Len(q) + 1 /\ r[Len(r)] = b /\ r # <<>>
  <2>1. r \in Seq(Blocks) /\ Len(r) = Len(q) + 1
    OBVIOUS
  <2>2. r[Len(q) + 1] = b
    OBVIOUS
  <2> QED BY <2>1, <2>2
<1>2. \A i \in 1..Len(q) : r[i] = q[i]
  OBVIOUS
<1>3. EndOf(r, from) = b.end
  BY <1>1 DEF EndOf
<1>4. ASSUME Abut(q, from), b.pts \in (EndOf(q, from) - Tolerance)..(EndOf(q, from) + Tolerance)
      PROVE  Abut(r, from)
  <2> SUFFICES ASSUME NEW i \in 1..Len(r)
               PROVE  r[i].pts \in ((IF i = 1 THEN from ELSE r[i - 1].end) - Tolerance)
                                   ..((IF i = 1 THEN from ELSE r[i - 1].end) + Tolerance)
    BY DEF Abut
  <2>1. CASE i \in 1..Len(q)
    <3>1. r[i] = q[i] /\ (i # 1 => r[i - 1] = q[i - 1])
      BY <1>2, <2>1
    <3> QED BY <1>4, <2>1, <3>1 DEF Abut
  <2>2. CASE i = Len(r)
    <3>1. (IF i = 1 THEN from ELSE r[i - 1].end) = EndOf(q, from)
      <4>1. CASE q = <<>>
        BY <1>1, <2>2, <4>1 DEF EndOf
      <4>2. CASE q # <<>>
        BY <1>1, <1>2, <2>2, <4>2 DEF EndOf
      <4> QED BY <4>1, <4>2
    <3> QED BY <1>1, <1>4, <2>2, <3>1
  <2> QED BY <1>1, <2>1, <2>2
<1> QED BY <1>1, <1>3, <1>4

LEMMA ConcatAbuts ==
  ASSUME NEW q \in Seq(Blocks), NEW s \in Seq(Blocks), NEW from \in Nat
  PROVE  /\ q \o s \in Seq(Blocks) /\ Len(q \o s) = Len(q) + Len(s)
         /\ EndOf(q \o s, from) = EndOf(s, EndOf(q, from))
         /\ Abut(q, from) /\ Abut(s, EndOf(q, from)) => Abut(q \o s, from)
<1> DEFINE r == q \o s
<1>1. r \in Seq(Blocks) /\ Len(r) = Len(q) + Len(s)
  OBVIOUS
<1>2. \A i \in 1..Len(q) : r[i] = q[i]
  OBVIOUS
<1>3. \A i \in 1..Len(s) : r[Len(q) + i] = s[i]
  OBVIOUS
<1>4. EndOf(r, from) = EndOf(s, EndOf(q, from))
  <2>1. CASE s = <<>>
    <3>1. r = q
      BY <2>1
    <3> QED BY <2>1, <3>1 DEF EndOf
  <2>2. CASE s # <<>>
    <3>1. r # <<>> /\ r[Len(r)] = s[Len(s)]
      BY <1>1, <1>3, <2>2
    <3> QED BY <2>2, <3>1 DEF EndOf
  <2> QED BY <2>1, <2>2
<1>5. ASSUME Abut(q, from), Abut(s, EndOf(q, from))
      PROVE  Abut(r, from)
  <2> SUFFICES ASSUME NEW i \in 1..Len(r)
               PROVE  r[i].pts \in ((IF i = 1 THEN from ELSE r[i - 1].end) - Tolerance)
                                   ..((IF i = 1 THEN from ELSE r[i - 1].end) + Tolerance)
    BY DEF Abut
  <2>1. CASE i \in 1..Len(q)
    <3>1. r[i] = q[i] /\ (i # 1 => r[i - 1] = q[i - 1])
      BY <1>2, <2>1
    <3> QED BY <1>5, <2>1, <3>1 DEF Abut
  <2>2. CASE i > Len(q)
    <3> DEFINE j == i - Len(q)
    <3>1. j \in 1..Len(s) /\ r[i] = s[j]
      BY <1>1, <1>3, <2>2
    <3>2. (IF i = 1 THEN from ELSE r[i - 1].end) = (IF j = 1 THEN EndOf(q, from) ELSE s[j - 1].end)
      <4>1. CASE j # 1
        <5>1. j - 1 \in 1..Len(s) /\ i - 1 = Len(q) + (j - 1) /\ i # 1
          BY <3>1, <4>1
        <5> QED BY <1>3, <4>1, <5>1
      <4>2. CASE j = 1 /\ q = <<>>
        BY <4>2 DEF EndOf
      <4>3. CASE j = 1 /\ q # <<>>
        <5>1. i - 1 = Len(q) /\ i # 1 /\ Len(q) \in 1..Len(q)
          BY <4>3
        <5> QED BY <1>2, <4>3, <5>1 DEF EndOf
      <4> QED BY <4>1, <4>2, <4>3
    <3> QED BY <1>5, <3>1, <3>2 DEF Abut
  <2> QED BY <1>1, <2>1, <2>2
<1> QED BY <1>1, <1>4, <1>5

LEMMA SuffixAbuts ==
  ASSUME NEW q \in Seq(Blocks), NEW from \in Nat, NEW k \in 0..Len(q)
  PROVE  LET r == SubSeq(q, k + 1, Len(q))
             start == IF k = 0 THEN from ELSE q[k].end
         IN /\ r \in Seq(Blocks) /\ Len(r) = Len(q) - k /\ start \in Nat
            /\ EndOf(r, start) = EndOf(q, from)
            /\ Abut(q, from) => Abut(r, start)
<1> DEFINE r == SubSeq(q, k + 1, Len(q))
           start == IF k = 0 THEN from ELSE q[k].end
<1>1. r \in Seq(Blocks) /\ Len(r) = Len(q) - k
  OBVIOUS
<1>2. \A i \in 1..Len(r) : r[i] = q[k + i]
  OBVIOUS
<1>3. start \in Nat
  <2>1. CASE k = 0
    BY <2>1
  <2>2. CASE k # 0
    <3>1. q[k] \in Blocks
      BY <2>2
    <3> QED BY <2>2, <3>1 DEF Blocks
  <2> QED BY <2>1, <2>2
<1>4. EndOf(r, start) = EndOf(q, from)
  <2>1. CASE k = Len(q)
    <3>1. r = <<>>
      BY <1>1, <2>1
    <3>2. (q = <<>>) <=> (Len(q) = 0)
      OBVIOUS
    <3> QED BY <2>1, <3>1, <3>2 DEF EndOf
  <2>2. CASE k # Len(q)
    <3>1. Len(r) \in 1..Len(r) /\ k + Len(r) = Len(q)
      BY <1>1, <2>2
    <3>2. r # <<>> /\ q # <<>>
      BY <3>1, <1>1
    <3>3. r[Len(r)] = q[Len(q)]
      BY <3>1, <1>2
    <3> QED BY <3>2, <3>3 DEF EndOf
  <2> QED BY <2>1, <2>2
<1>5. ASSUME Abut(q, from)
      PROVE  Abut(r, start)
  <2> SUFFICES ASSUME NEW i \in 1..Len(r)
               PROVE  r[i].pts \in ((IF i = 1 THEN start ELSE r[i - 1].end) - Tolerance)
                                   ..((IF i = 1 THEN start ELSE r[i - 1].end) + Tolerance)
    BY DEF Abut
  <2>1. r[i] = q[k + i] /\ (i # 1 => r[i - 1] = q[k + (i - 1)]) /\ k + i \in 1..Len(q)
    BY <1>1, <1>2
  <2>2. (IF i = 1 THEN start ELSE r[i - 1].end) = (IF k + i = 1 THEN from ELSE q[k + i - 1].end)
    BY <2>1
  <2> QED BY <1>5, <2>1, <2>2 DEF Abut
<1> QED BY <1>1, <1>3, <1>4, <1>5

-----------------------------------------------------------------------------
(* Silence.                                                                *)

LEMMA SmallerIs ==
  ASSUME NEW a \in Nat, NEW b \in Nat
  PROVE  Smaller(a, b) \in Nat /\ Smaller(a, b) <= a /\ Smaller(a, b) <= b
BY DEF Smaller

(* As many blocks as FillSourceTo needs, and no more: one block less would *)
(* end before the target.                                                  *)
LEMMA NeededIsCeiling ==
  ASSUME NEW from \in Nat, NEW target \in Nat
  PROVE  /\ Needed(from, target) \in Nat
         /\ \A i \in Nat : i < Needed(from, target) => from + i * Silence < target
<1> USE TracksAssumption
<1>1. CASE target <= from + Tolerance
  BY <1>1 DEF Needed
<1>2. CASE ~(target <= from + Tolerance)
  <2> DEFINE x == target - from - Tolerance
             n == (x + Silence - 1) \div Silence
  <2>1. x \in Nat \ {0} /\ Silence \in Nat \ {0} /\ Needed(from, target) = n
    BY <1>2 DEF Needed
  <2>2. n \in Nat /\ Silence * n <= x + Silence - 1
    <3> DEFINE a == x + Silence - 1
    <3>1. a \in Nat
      BY <2>1
    <3> HIDE DEF x, a
    <3>2. a \div Silence \in Nat /\ Silence * (a \div Silence) <= a
      BY <2>1, <3>1
    <3> QED BY <3>2 DEF a
  <2>3. ASSUME NEW i \in Nat, i < n PROVE from + i * Silence < target
    <3> HIDE DEF n
    <3>1. i * Silence + Silence <= Silence * n
      <4>1. i + 1 <= n
        BY <2>2, <2>3
      <4>2. (i + 1) * Silence <= n * Silence
        BY <2>1, <2>2, <4>1
      <4> QED BY <2>1, <2>2, <4>2
    <3>2. i * Silence \in Nat
      BY <2>1
    <3> HIDE DEF x
    <3>3. i * Silence < x
      BY <2>1, <2>2, <3>1, <3>2
    <3> QED BY <3>2, <3>3 DEF x
  <2> QED BY <2>1, <2>2, <2>3
<1> QED BY <1>1, <1>2

LEMMA SilencesAbut ==
  ASSUME NEW from \in Nat, NEW target \in Nat, NEW n \in 0..Needed(from, target)
  PROVE  LET s == Silences(from, target, n)
             reached == IF n = 0 THEN from ELSE Smaller(target, from + n * Silence)
         IN /\ s \in Seq(Blocks) /\ Len(s) = n /\ Abut(s, from)
            /\ EndOf(s, from) = reached /\ reached \in Nat
            /\ reached <= Larger(from, target)
<1> DEFINE s == Silences(from, target, n)
           upto(i) == from + i * Silence
<1>1. n \in Nat /\ Silence \in Nat /\ Tolerance \in Nat
  BY NeededIsCeiling, TracksAssumption
<1>2. \A i \in Nat : upto(i) \in Nat
  <2> TAKE i \in Nat
  <2>1. i * Silence \in Nat
    BY <1>1
  <2> QED BY <2>1
<1>3. \A i \in 1..n : upto(i - 1) < target /\ upto(i - 1) \in Nat
  <2> TAKE i \in 1..n
  <2>1. i - 1 \in Nat /\ i - 1 < Needed(from, target)
    BY <1>1, NeededIsCeiling
  <2> QED BY <1>2, <2>1, NeededIsCeiling
<1>4. s = [i \in 1..n |-> Block(upto(i - 1), Smaller(target, upto(i)))]
  BY DEF Silences
<1> HIDE DEF s, upto
<1>5. \A i \in 1..n : s[i] \in Blocks /\ s[i].pts = upto(i - 1) /\ s[i].end = Smaller(target, upto(i))
  <2> TAKE i \in 1..n
  <2>1. s[i] = Block(upto(i - 1), Smaller(target, upto(i)))
    BY <1>4
  <2>2. upto(i) \in Nat /\ Smaller(target, upto(i)) \in Nat
    BY <1>1, <1>2 DEF Smaller
  <2> QED BY <1>3, <2>1, <2>2 DEF Block, Blocks
<1>6. s \in Seq(Blocks) /\ Len(s) = n
  BY <1>1, <1>4, <1>5
<1>7. Abut(s, from)
  <2> SUFFICES ASSUME NEW i \in 1..Len(s)
               PROVE  s[i].pts \in ((IF i = 1 THEN from ELSE s[i - 1].end) - Tolerance)
                                   ..((IF i = 1 THEN from ELSE s[i - 1].end) + Tolerance)
    BY DEF Abut
  <2>1. (IF i = 1 THEN from ELSE s[i - 1].end) = upto(i - 1)
    <3>1. CASE i = 1
      BY <1>1, <3>1 DEF upto
    <3>2. CASE i # 1
      <4>1. i - 1 \in 1..n
        BY <1>1, <1>6, <3>2
      <4> QED BY <1>3, <1>5, <1>6, <3>2, <4>1 DEF Smaller
    <3> QED BY <3>1, <3>2
  <2> QED BY <1>1, <1>3, <1>5, <1>6, <2>1
<1>8. EndOf(s, from) = IF n = 0 THEN from ELSE Smaller(target, upto(n))
  <2>1. CASE n = 0
    <3>1. s = <<>>
      BY <1>6, <2>1
    <3> QED BY <2>1, <3>1 DEF EndOf
  <2>2. CASE n # 0
    <3>1. n \in 1..n /\ s # <<>>
      BY <1>1, <1>6, <2>2
    <3> QED BY <1>5, <1>6, <2>2, <3>1 DEF EndOf
  <2> QED BY <2>1, <2>2
<1>9. Smaller(target, upto(n)) \in Nat /\ Smaller(target, upto(n)) <= Larger(from, target)
      /\ from <= Larger(from, target)
  BY <1>1, <1>2 DEF Smaller, Larger
<1> QED BY <1>6, <1>7, <1>8, <1>9 DEF s, upto

-----------------------------------------------------------------------------
(* Filling a track, and packets.                                           *)

(* Silence goes behind what is queued, and the track ends where it does.   *)
LEMMA FilledAbuts ==
  ASSUME TracksTypeOK, NEW t \in Tracks, NEW target \in Nat, NEW max \in Nat
  PROVE  LET f == Filled(t, target, max)
         IN /\ f.q \in Seq(Blocks) /\ Len(f.q) <= Capacity
            /\ f.next \in Nat /\ f.next <= Larger(next[t], target)
            /\ next[t] = EndOf(queue[t], encoded[t]) =>
                 /\ f.next = EndOf(f.q, encoded[t])
                 /\ Abut(queue[t], encoded[t]) => Abut(f.q, encoded[t])
<1> DEFINE needed == Needed(next[t], target)
           wanted == Smaller(max, needed)
           taken0 == Smaller(wanted, Room(queue[t]))
           s == Silences(next[t], target, taken0)
           f == Filled(t, target, max)
<1>0. next[t] \in Nat /\ encoded[t] \in Nat /\ queue[t] \in Seq(Blocks) /\ Len(queue[t]) <= Capacity
  BY DEF TracksTypeOK, Blocks
<1>1. needed \in Nat /\ Capacity \in Nat
  BY <1>0, NeededIsCeiling, TracksAssumption
<1>2. taken0 \in 0..needed /\ taken0 <= Capacity - Len(queue[t])
  <2> HIDE DEF needed
  <2>1. wanted \in Nat /\ wanted <= needed
    BY <1>1, SmallerIs
  <2> HIDE DEF wanted
  <2>2. Room(queue[t]) \in Nat /\ Room(queue[t]) = Capacity - Len(queue[t])
    BY <1>0, <1>1 DEF Room
  <2>3. taken0 \in Nat /\ taken0 <= wanted /\ taken0 <= Room(queue[t])
    BY <2>1, <2>2, SmallerIs
  <2> HIDE DEF taken0
  <2> QED BY <1>1, <2>1, <2>2, <2>3
<1>3. /\ f.q = queue[t] \o s
      /\ f.next = IF taken0 = 0 THEN next[t] ELSE Smaller(target, next[t] + taken0 * Silence)
  BY DEF Filled
<1> HIDE DEF f, needed, wanted, taken0
<1>4. /\ s \in Seq(Blocks) /\ Len(s) = taken0 /\ Abut(s, next[t]) /\ EndOf(s, next[t]) = f.next
      /\ f.next \in Nat /\ f.next <= Larger(next[t], target)
  <2>1. taken0 \in 0..Needed(next[t], target)
    BY <1>2 DEF needed
  <2> QED BY <1>0, <1>3, <2>1, SilencesAbut
<1> HIDE DEF s
<1>5. /\ f.q \in Seq(Blocks) /\ Len(f.q) = Len(queue[t]) + taken0
      /\ EndOf(f.q, encoded[t]) = EndOf(s, EndOf(queue[t], encoded[t]))
      /\ Abut(queue[t], encoded[t]) /\ Abut(s, EndOf(queue[t], encoded[t])) => Abut(f.q, encoded[t])
  <2> DEFINE r == queue[t] \o s
  <2>1. /\ r \in Seq(Blocks) /\ Len(r) = Len(queue[t]) + Len(s)
        /\ EndOf(r, encoded[t]) = EndOf(s, EndOf(queue[t], encoded[t]))
        /\ Abut(queue[t], encoded[t]) /\ Abut(s, EndOf(queue[t], encoded[t])) => Abut(r, encoded[t])
    BY <1>0, <1>4, ConcatAbuts, Zenon
  <2> HIDE DEF r
  <2>2. f.q = r
    BY <1>3 DEF r
  <2> QED BY <1>4, <2>1, <2>2
<1>6. Len(f.q) <= Capacity
  BY <1>0, <1>1, <1>2, <1>5
<1> QED BY <1>4, <1>5, <1>6 DEF f

LEMMA CapturedKeeps ==
  ASSUME TracksTypeOK, ChainInv, UNCHANGED failure,
         NEW s \in Tracks, NEW pts \in Nat, NEW error \in BOOLEAN, NEW refused \in BOOLEAN,
         OnCapturedPcm(s, pts, error, refused)
  PROVE  /\ TracksTypeOK' /\ ChainInv'
         /\ \A t \in Tracks : lost'[t] => lost[t] \/ (t = s /\ refused)
<1> DEFINE first == IF error \/ pts + Tolerance < next[s] THEN next[s] ELSE pts
           f == Filled(s, first, PacketFill)
           placed == IF f.next + Tolerance < first THEN f.next ELSE first
           fits == f.ok /\ Room(f.q) > 0
           b == Block(placed, placed + Packet)
<1>0. /\ next[s] \in Nat /\ encoded[s] \in Nat /\ queue[s] \in Seq(Blocks)
      /\ next \in [Tracks -> Nat] /\ encoded \in [Tracks -> Nat] /\ lost \in [Tracks -> BOOLEAN]
      /\ queue \in [Tracks -> Seq(Blocks)] /\ \A t \in Tracks : Len(queue[t]) <= Capacity
  BY DEF TracksTypeOK, Blocks
<1>00. /\ Packet \in Nat /\ Tolerance \in Nat /\ 2 * Tolerance < Packet /\ Capacity \in Nat
       /\ PacketFill \in Nat
  BY TracksAssumption
<1>1. first \in Nat /\ next[s] <= first + Tolerance
  BY <1>0, <1>00
<1>2. /\ refused = ~fits
      /\ queue' = [queue EXCEPT ![s] = IF fits THEN Append(f.q, b) ELSE f.q]
      /\ next' = [next EXCEPT ![s] = IF fits THEN Larger(f.next, placed + Packet) ELSE f.next]
      /\ lost' = [lost EXCEPT ![s] = @ \/ ~fits]
      /\ UNCHANGED encoded
  BY Zenon DEF OnCapturedPcm
<1> HIDE DEF first
<1>3. /\ f.q \in Seq(Blocks) /\ Len(f.q) <= Capacity
      /\ f.next \in Nat /\ f.next <= Larger(next[s], first)
      /\ next[s] = EndOf(queue[s], encoded[s]) =>
           /\ f.next = EndOf(f.q, encoded[s])
           /\ Abut(queue[s], encoded[s]) => Abut(f.q, encoded[s])
  BY <1>00, <1>1, FilledAbuts
<1> HIDE DEF f
<1>4. /\ placed \in Nat /\ placed <= f.next + Tolerance /\ f.next <= placed + Tolerance
      /\ Larger(f.next, placed + Packet) = placed + Packet
  BY <1>0, <1>00, <1>1, <1>3 DEF Larger
<1> HIDE DEF placed
<1>5. b \in Blocks /\ b.pts = placed /\ b.end = placed + Packet
  BY <1>00, <1>4 DEF Block, Blocks
<1>6. /\ Append(f.q, b) \in Seq(Blocks) /\ EndOf(Append(f.q, b), encoded[s]) = placed + Packet
      /\ Len(Append(f.q, b)) = Len(f.q) + 1
      /\ Abut(f.q, encoded[s]) /\ f.next = EndOf(f.q, encoded[s]) => Abut(Append(f.q, b), encoded[s])
  <2>1. f.next = EndOf(f.q, encoded[s]) =>
          b.pts \in (EndOf(f.q, encoded[s]) - Tolerance)..(EndOf(f.q, encoded[s]) + Tolerance)
    BY <1>00, <1>3, <1>4, <1>5
  <2> QED BY <1>0, <1>3, <1>5, <2>1, AppendAbuts
<1> HIDE DEF b
<1>7. \A t \in Tracks : t # s =>
        queue'[t] = queue[t] /\ next'[t] = next[t] /\ lost'[t] = lost[t] /\ encoded'[t] = encoded[t]
  BY <1>0, <1>2
<1>8. CASE fits
  <2>1. queue'[s] = Append(f.q, b) /\ next'[s] = placed + Packet /\ encoded' = encoded
    BY <1>0, <1>2, <1>4, <1>8
  <2>2. lost' = lost
    BY <1>0, <1>2, <1>8
  <2>3. Len(Append(f.q, b)) <= Capacity
    BY <1>00, <1>3, <1>6, <1>8 DEF Room
  <2>4. TracksTypeOK'
    <3>1. next' \in [Tracks -> Nat]
      BY <1>0, <1>00, <1>2, <1>3, <1>4
    <3>2. queue' \in [Tracks -> Seq(Blocks)]
      BY <1>0, <1>2, <1>3, <1>6
    <3>3. \A t \in Tracks : Len(queue'[t]) <= Capacity
      BY <1>0, <1>7, <2>1, <2>3
    <3> QED BY <1>0, <2>1, <2>2, <3>1, <3>2, <3>3 DEF TracksTypeOK, Blocks, Tracks
  <2>5. ChainInv'
    BY <1>0, <1>3, <1>6, <1>7, <2>1, <2>2 DEF ChainInv, Tracks
  <2> QED BY <2>2, <2>4, <2>5
<1>9. CASE ~fits
  <2>1. queue'[s] = f.q /\ next'[s] = f.next /\ lost'[s] /\ encoded' = encoded
    BY <1>0, <1>2, <1>9
  <2>2. lost' \in [Tracks -> BOOLEAN] /\ refused
    BY <1>0, <1>2, <1>9
  <2>4. TracksTypeOK'
    <3>1. next' \in [Tracks -> Nat]
      BY <1>0, <1>2, <1>3, <1>9
    <3>2. queue' \in [Tracks -> Seq(Blocks)]
      BY <1>0, <1>2, <1>3, <1>9
    <3>3. \A t \in Tracks : Len(queue'[t]) <= Capacity
      BY <1>0, <1>3, <1>7, <2>1
    <3> QED BY <1>0, <2>1, <2>2, <3>1, <3>2, <3>3 DEF TracksTypeOK, Blocks, Tracks
  <2>5. ChainInv'
    BY <1>0, <1>3, <1>7, <2>1, <2>2 DEF ChainInv, Tracks
  <2> QED BY <1>7, <2>2, <2>4, <2>5
<1> QED BY <1>8, <1>9

LEMMA FillKeeps ==
  ASSUME TracksTypeOK, ChainInv, failure => failure',
         NEW target \in Nat, NEW max \in Nat, FillContinuityTo(target, max)
  PROVE  /\ TracksTypeOK' /\ ChainInv' /\ UNCHANGED lost
         /\ FillComplete(target, max) => \A t \in Tracks : target <= next'[t] + Tolerance
<1> DEFINE F(t) == Filled(t, target, max)
           Reached(t) == \A u \in 1..(t - 1) : F(u).ok
<1>0. /\ next \in [Tracks -> Nat] /\ encoded \in [Tracks -> Nat] /\ lost \in [Tracks -> BOOLEAN]
      /\ queue \in [Tracks -> Seq(Blocks)] /\ \A t \in Tracks : Len(queue[t]) <= Capacity
  BY DEF TracksTypeOK, Blocks
<1>1. /\ queue' = [t \in Tracks |-> IF Reached(t) THEN F(t).q ELSE queue[t]]
      /\ next' = [t \in Tracks |-> IF Reached(t) THEN F(t).next ELSE next[t]]
      /\ UNCHANGED <<encoded, lost>>
  BY DEF FillContinuityTo
<1>2. \A t \in Tracks :
        /\ F(t).q \in Seq(Blocks) /\ Len(F(t).q) <= Capacity
        /\ F(t).next \in Nat
        /\ next[t] = EndOf(queue[t], encoded[t]) =>
             /\ F(t).next = EndOf(F(t).q, encoded[t])
             /\ Abut(queue[t], encoded[t]) => Abut(F(t).q, encoded[t])
  BY FilledAbuts
<1>3. FillComplete(target, max) =>
        \A t \in Tracks : Reached(t) /\ target <= F(t).next + Tolerance
  BY TracksAssumption DEF FillComplete, FillAccepted, Tracks
<1> HIDE DEF F, Reached
<1>4. \A t \in Tracks :
        \/ queue'[t] = F(t).q /\ next'[t] = F(t).next
        \/ ~Reached(t) /\ queue'[t] = queue[t] /\ next'[t] = next[t]
  BY <1>1
<1>5. TracksTypeOK'
  <2>1. next' \in [Tracks -> Nat]
    BY <1>0, <1>1, <1>2
  <2>2. queue' \in [Tracks -> Seq(Blocks)]
    BY <1>0, <1>1, <1>2
  <2>3. \A t \in Tracks : Len(queue'[t]) <= Capacity
    BY <1>0, <1>2, <1>4
  <2> QED BY <1>0, <1>1, <2>1, <2>2, <2>3 DEF TracksTypeOK, Blocks, Tracks
<1>6. ChainInv'
  <2> SUFFICES ASSUME NEW t \in Tracks
               PROVE  /\ ~lost'[t] => Abut(queue'[t], encoded'[t])
                      /\ next'[t] = EndOf(queue'[t], encoded'[t]) \/ (lost'[t] /\ failure')
    BY DEF ChainInv, Tracks
  <2>1. /\ ~lost[t] => Abut(queue[t], encoded[t])
        /\ next[t] = EndOf(queue[t], encoded[t]) \/ (lost[t] /\ failure)
        /\ lost'[t] = lost[t] /\ encoded'[t] = encoded[t]
    BY <1>1 DEF ChainInv
  <2> QED BY <1>2, <1>4, <2>1
<1> QED BY <1>1, <1>3, <1>4, <1>5, <1>6

-----------------------------------------------------------------------------
(* Draining.                                                               *)

LEMMA QueuedIsFinite ==
  ASSUME TracksTypeOK
  PROVE  IsFiniteSet(Queued)
<1>1. IsFiniteSet(Tracks \X (1..Capacity))
  <2>1. NTracks \in Int /\ Capacity \in Int
    BY TracksAssumption
  <2>2. IsFiniteSet(Tracks) /\ IsFiniteSet(1..Capacity)
    BY <2>1, FS_Interval DEF Tracks
  <2> QED BY <2>2, FS_Product
<1>2. Queued \subseteq Tracks \X (1..Capacity)
  <2> SUFFICES ASSUME NEW t \in Tracks, NEW i \in 1..Len(queue[t]) PROVE i \in 1..Capacity
    BY DEF Queued
  <2> QED BY TracksAssumption DEF TracksTypeOK
<1> QED BY <1>1, <1>2, FS_Subset

(* No more blocks leave a queue than are in it; when as many leave as are  *)
(* queued at all, every queue is emptied.                                  *)
LEMMA LeavingIs ==
  ASSUME TracksTypeOK, NEW t \in Tracks, NEW n
  PROVE  /\ Leaving(t, n) \in 0..Len(queue[t])
         /\ n = Cardinality(Queued) => Leaving(t, n) = Len(queue[t])
<1> DEFINE all == 1..Len(queue[t])
           some == {i \in all : Turn(t, i) <= n}
<1>1. Len(queue[t]) \in Nat
  BY DEF TracksTypeOK
<1>2. IsFiniteSet(all) /\ Cardinality(all) = Len(queue[t])
  BY <1>1, FS_Interval
<1>3. Cardinality(some) \in Nat /\ Cardinality(some) <= Cardinality(all)
  BY <1>2, FS_Subset, FS_CardinalityType
<1>4. ASSUME n = Cardinality(Queued) PROVE some = all
  <2> SUFFICES ASSUME NEW i \in all PROVE Turn(t, i) <= n
    OBVIOUS
  <2> DEFINE before == {b \in Queued : b[2] < i \/ (b[2] = i /\ b[1] <= t)}
  <2>1. Cardinality(before) <= Cardinality(Queued)
    BY QueuedIsFinite, FS_Subset
  <2> QED BY <1>4, <2>1 DEF Turn
<1>5. Leaving(t, n) = Cardinality(some)
  BY DEF Leaving
<1> HIDE DEF some, all
<1>6. n = Cardinality(Queued) => Cardinality(some) = Len(queue[t])
  BY <1>2, <1>4
<1> QED BY <1>1, <1>2, <1>3, <1>5, <1>6

LEMMA LeavingGrows ==
  ASSUME TracksTypeOK, NEW t \in Tracks, NEW n \in Nat
  PROVE  Leaving(t, n - 1) <= Leaving(t, n)
<1> DEFINE all == 1..Len(queue[t])
           before == {i \in all : Turn(t, i) <= n - 1}
           some == {i \in all : Turn(t, i) <= n}
<1>1. Len(queue[t]) \in Nat
  BY DEF TracksTypeOK
<1>2. \A i \in all : Turn(t, i) \in Nat
  <2> TAKE i \in all
  <2> DEFINE ahead == {b \in Queued : b[2] < i \/ (b[2] = i /\ b[1] <= t)}
  <2>1. Cardinality(ahead) \in Nat
    BY QueuedIsFinite, FS_Subset, FS_CardinalityType
  <2> QED BY <2>1 DEF Turn
<1>3. before \subseteq some
  <2> SUFFICES ASSUME NEW i \in all, Turn(t, i) <= n - 1 PROVE Turn(t, i) <= n
    OBVIOUS
  <2>1. Turn(t, i) \in Nat
    BY <1>2
  <2> QED BY <2>1
<1>4. IsFiniteSet(some)
  <2>1. IsFiniteSet(all)
    BY <1>1, FS_Interval
  <2> QED BY <2>1, FS_Subset
<1> QED BY <1>3, <1>4, FS_Subset DEF Leaving

LEMMA DrainKeeps ==
  ASSUME TracksTypeOK, ChainInv, failure => failure',
         NEW n \in Nat, NEW good \in BOOLEAN, Drain(n, good), ~good => failure'
  PROVE  /\ TracksTypeOK' /\ ChainInv'
         /\ good => UNCHANGED lost
         /\ n = Cardinality(Queued) => \A t \in Tracks : queue'[t] = <<>>
<1> DEFINE Gone(t) == Leaving(t, n)
           Taken(t) == Leaving(t, IF good THEN n ELSE n - 1)
<1>0. /\ next \in [Tracks -> Nat] /\ encoded \in [Tracks -> Nat] /\ lost \in [Tracks -> BOOLEAN]
      /\ queue \in [Tracks -> Seq(Blocks)] /\ \A t \in Tracks : Len(queue[t]) <= Capacity
  BY DEF TracksTypeOK, Blocks
<1>1. \A t \in Tracks : /\ Gone(t) \in 0..Len(queue[t]) /\ Taken(t) \in 0..Len(queue[t])
                        /\ n = Cardinality(Queued) => Gone(t) = Len(queue[t])
  BY LeavingIs
<1>2. /\ good => \A t \in Tracks : Taken(t) = Gone(t)
      /\ \A t \in Tracks : Taken(t) <= Gone(t)
  <2>1. CASE good
    BY <1>1, <2>1
  <2>2. CASE ~good
    BY <2>2, LeavingGrows
  <2> QED BY <2>1, <2>2
<1>3. /\ queue' = [t \in Tracks |-> SubSeq(queue[t], Gone(t) + 1, Len(queue[t]))]
      /\ encoded' = [t \in Tracks |-> IF Taken(t) = 0 THEN encoded[t] ELSE queue[t][Taken(t)].end]
      /\ lost' = [t \in Tracks |-> lost[t] \/ Taken(t) < Gone(t)]
      /\ UNCHANGED next
  BY DEF Drain
<1> HIDE DEF Gone, Taken
<1>4. \A t \in Tracks :
        /\ queue'[t] \in Seq(Blocks) /\ Len(queue'[t]) = Len(queue[t]) - Gone(t)
        /\ encoded'[t] \in Nat
        /\ Taken(t) = Gone(t) =>
             /\ EndOf(queue'[t], encoded'[t]) = EndOf(queue[t], encoded[t])
             /\ Abut(queue[t], encoded[t]) => Abut(queue'[t], encoded'[t])
  <2> TAKE t \in Tracks
  <2>0. queue[t] \in Seq(Blocks) /\ encoded[t] \in Nat
    BY <1>0
  <2>1. queue'[t] = SubSeq(queue[t], Gone(t) + 1, Len(queue[t]))
    BY <1>3
  <2>2. encoded'[t] = IF Taken(t) = 0 THEN encoded[t] ELSE queue[t][Taken(t)].end
    BY <1>3
  <2>3. queue'[t] \in Seq(Blocks) /\ Len(queue'[t]) = Len(queue[t]) - Gone(t)
    BY <1>1, <2>0, <2>1, SuffixAbuts
  <2>4. encoded'[t] \in Nat
    BY <1>1, <2>0, <2>2, SuffixAbuts
  <2>5. ASSUME Taken(t) = Gone(t)
        PROVE  /\ EndOf(queue'[t], encoded'[t]) = EndOf(queue[t], encoded[t])
               /\ Abut(queue[t], encoded[t]) => Abut(queue'[t], encoded'[t])
    BY <1>1, <2>0, <2>1, <2>2, <2>5, SuffixAbuts
  <2> QED BY <2>3, <2>4, <2>5
<1>5. TracksTypeOK'
  <2>1. queue' \in [Tracks -> Seq(Blocks)] /\ encoded' \in [Tracks -> Nat] /\ lost' \in [Tracks -> BOOLEAN]
    <3>1. queue' \in [Tracks -> Seq(Blocks)]
      BY <1>3, <1>4
    <3>2. encoded' \in [Tracks -> Nat]
      BY <1>3, <1>4
    <3>3. lost' \in [Tracks -> BOOLEAN]
      BY <1>3
    <3> QED BY <3>1, <3>2, <3>3
  <2>2. \A t \in Tracks : Len(queue'[t]) <= Capacity
    <3> TAKE t \in Tracks
    <3>1. Len(queue[t]) \in Nat /\ Gone(t) \in Nat /\ Len(queue[t]) <= Capacity
      BY <1>0, <1>1
    <3> QED BY <1>4, <3>1, TracksAssumption
  <2> QED BY <1>0, <1>3, <2>1, <2>2 DEF TracksTypeOK, Blocks, Tracks
<1>6. \A t \in Tracks : ~lost'[t] => ~lost[t] /\ ~(Taken(t) < Gone(t))
  BY <1>3
<1>7. ChainInv'
  <2> SUFFICES ASSUME NEW t \in Tracks
               PROVE  /\ ~lost'[t] => Abut(queue'[t], encoded'[t])
                      /\ next'[t] = EndOf(queue'[t], encoded'[t]) \/ (lost'[t] /\ failure')
    BY DEF ChainInv, Tracks
  <2>1. /\ ~lost[t] => Abut(queue[t], encoded[t])
        /\ next[t] = EndOf(queue[t], encoded[t]) \/ (lost[t] /\ failure)
        /\ next'[t] = next[t]
    BY <1>3 DEF ChainInv
  <2>2. lost[t] => lost'[t]
    BY <1>3
  <2>3. CASE Taken(t) = Gone(t)
    BY <1>4, <1>6, <2>1, <2>2, <2>3
  <2>4. CASE Taken(t) # Gone(t)
    <3>1. Taken(t) < Gone(t)
      BY <1>1, <1>2, <2>4
    <3>2. lost'[t] /\ ~good
      BY <1>2, <1>6, <2>4, <3>1
    <3> QED BY <3>2
  <2> QED BY <2>3, <2>4
<1>8. ASSUME good PROVE UNCHANGED lost
  <2>1. \A t \in Tracks : lost'[t] = lost[t]
    BY <1>0, <1>1, <1>2, <1>3, <1>8
  <2> QED BY <1>0, <1>3, <2>1
<1>9. ASSUME n = Cardinality(Queued), NEW t \in Tracks PROVE queue'[t] = <<>>
  <2>1. Len(queue'[t]) = 0 /\ queue'[t] \in Seq(Blocks)
    BY <1>0, <1>1, <1>4, <1>9
  <2> QED BY <2>1
<1> QED BY <1>5, <1>7, <1>8, <1>9

-----------------------------------------------------------------------------
(* The capture threads.                                                    *)

(* The places a thread can go to from where it is: to the end only, once   *)
(* it was asked to stop.                                                   *)
Follows(from, to, asked) ==
  \/ from = "opening" /\ to \in {"capturing", "closing", "ended"}
  \/ from = "opening" /\ to = "waiting" /\ ~asked
  \/ from = "capturing" /\ to \in {"draining", "closing", "refused"}
  \/ from = "draining" /\ to \in {"closing", "refused"}
  \/ from \in {"capturing", "draining"} /\ to = "waiting" /\ ~asked
  \/ from = "refused" /\ to = "closing"
  \/ from = "refused" /\ to = "waiting" /\ ~asked
  \/ from = "waiting" /\ to = "closing"
  \/ from = "waiting" /\ to = "opening" /\ ~asked
  \/ from = "closing" /\ to = "clearing"
  \/ from = "clearing" /\ to = "ended"

(* A thread's step, as far as it concerns the thread alone.  The verdict   *)
(* on a refused packet goes with it, and becomes the result.               *)
Moved(s) ==
  /\ UNCHANGED stopEvent
  /\ \E to \in Places : at' = [at EXCEPT ![s] = to] /\ Follows(at[s], to, stopEvent[s])
  /\ \E v \in {"ok", "fault"} : verdict' = [verdict EXCEPT ![s] = v]
  /\ \E v \in {"ok", "fault"} : result' = [result EXCEPT ![s] = v]
  /\ \E b \in BOOLEAN : running' = [running EXCEPT ![s] = b]
  /\ \E b \in BOOLEAN : startup' = [startup EXCEPT ![s] = b]
  /\ \E b \in BOOLEAN : excused' = [excused EXCEPT ![s] = b] /\ (excused[s] => b)
  /\ at[s] = "refused" => (at'[s] = "closing" /\ verdict'[s] = "fault") \/ excused'[s]
  /\ at[s] = "closing" => result'[s] = verdict[s]
  /\ at[s] = "clearing" => result'[s] = result[s]

LEMMA ThreadMoves ==
  ASSUME CaptureTypeOK, NEW s \in Sources, ThreadStep(s)
  PROVE  Moved(s)
<1>0. /\ at \in [Sources -> Places] /\ result \in [Sources -> {"ok", "fault"}]
      /\ verdict \in [Sources -> {"ok", "fault"}] /\ running \in [Sources -> BOOLEAN]
      /\ stopEvent \in [Sources -> BOOLEAN] /\ startup \in [Sources -> BOOLEAN]
      /\ excused \in [Sources -> BOOLEAN]
  BY DEF CaptureTypeOK
<1>00. /\ at = [at EXCEPT ![s] = at[s]] /\ result = [result EXCEPT ![s] = result[s]]
       /\ verdict = [verdict EXCEPT ![s] = verdict[s]] /\ running = [running EXCEPT ![s] = running[s]]
       /\ startup = [startup EXCEPT ![s] = startup[s]] /\ excused = [excused EXCEPT ![s] = excused[s]]
       /\ result[s] \in {"ok", "fault"} /\ verdict[s] \in {"ok", "fault"} /\ running[s] \in BOOLEAN
       /\ startup[s] \in BOOLEAN /\ excused[s] \in BOOLEAN /\ stopEvent[s] \in BOOLEAN
  BY <1>0
<1> USE DEF Moved, Places, Follows
<1>1. CASE ComFails(s)
  BY <1>0, <1>00, <1>1 DEF ComFails, SignalStartup
<1>2. CASE AttemptOpens(s)
  BY <1>0, <1>00, <1>2 DEF AttemptOpens, SignalStartup
<1>3. CASE AttemptFails(s)
  BY <1>0, <1>00, <1>3 DEF AttemptFails, SignalStartup, AttemptOver
<1>4. CASE DeviceGone(s)
  BY <1>0, <1>00, <1>4 DEF DeviceGone, Delivering, AttemptOver
<1>5. CASE AttemptRefused(s)
  BY <1>0, <1>00, <1>5 DEF AttemptRefused, AttemptOver
<1>6. CASE SeesStop(s)
  BY <1>0, <1>00, <1>6 DEF SeesStop
<1>7. CASE DrainEnds(s)
  BY <1>0, <1>00, <1>7 DEF DrainEnds
<1>8. CASE Reconnect(s)
  BY <1>0, <1>00, <1>8 DEF Reconnect
<1>9. CASE SetLastResult(s)
  BY <1>0, <1>00, <1>9 DEF SetLastResult
<1>10. CASE ThreadEnds(s)
  BY <1>0, <1>00, <1>10 DEF ThreadEnds
<1> QED BY <1>1, <1>2, <1>3, <1>4, <1>5, <1>6, <1>7, <1>8, <1>9, <1>10 DEF ThreadStep

LEMMA MovedIs ==
  ASSUME CaptureTypeOK, NEW s \in Sources, Moved(s)
  PROVE  /\ CaptureTypeOK' /\ UNCHANGED stopEvent
         /\ Alive(s) /\ at'[s] # "none"
         /\ Follows(at[s], at'[s], stopEvent[s])
         /\ at[s] = "refused" => (at'[s] = "closing" /\ verdict'[s] = "fault") \/ excused'[s]
         /\ at[s] = "closing" => result'[s] = verdict[s]
         /\ at[s] = "clearing" => result'[s] = result[s]
         /\ excused[s] => excused'[s]
         /\ \A r \in Sources : r # s => at'[r] = at[r] /\ result'[r] = result[r]
                                        /\ verdict'[r] = verdict[r] /\ excused'[r] = excused[r]
<1>0. /\ at \in [Sources -> Places] /\ result \in [Sources -> {"ok", "fault"}]
      /\ verdict \in [Sources -> {"ok", "fault"}] /\ running \in [Sources -> BOOLEAN]
      /\ stopEvent \in [Sources -> BOOLEAN] /\ startup \in [Sources -> BOOLEAN]
      /\ excused \in [Sources -> BOOLEAN]
  BY DEF CaptureTypeOK
<1>1. PICK to \in Places : at' = [at EXCEPT ![s] = to] /\ Follows(at[s], to, stopEvent[s])
  BY DEF Moved
<1>2. PICK v \in {"ok", "fault"} : verdict' = [verdict EXCEPT ![s] = v]
  BY DEF Moved
<1>3. PICK r \in {"ok", "fault"} : result' = [result EXCEPT ![s] = r]
  BY DEF Moved
<1>4. PICK b \in BOOLEAN : running' = [running EXCEPT ![s] = b]
  BY DEF Moved
<1>5. PICK c \in BOOLEAN : startup' = [startup EXCEPT ![s] = c]
  BY DEF Moved
<1>6. PICK e \in BOOLEAN : excused' = [excused EXCEPT ![s] = e] /\ (excused[s] => e)
  BY DEF Moved
<1>7. CaptureTypeOK'
  <2>1. at' \in [Sources -> Places]
    BY <1>0, <1>1
  <2>2. verdict' \in [Sources -> {"ok", "fault"}] /\ result' \in [Sources -> {"ok", "fault"}]
    BY <1>0, <1>2, <1>3
  <2>3. /\ running' \in [Sources -> BOOLEAN] /\ startup' \in [Sources -> BOOLEAN]
        /\ excused' \in [Sources -> BOOLEAN]
    BY <1>0, <1>4, <1>5, <1>6
  <2>4. UNCHANGED stopEvent
    BY DEF Moved
  <2> QED BY <1>0, <2>1, <2>2, <2>3, <2>4 DEF CaptureTypeOK, Sources
<1>8. at'[s] = to /\ excused'[s] = e
  BY <1>0, <1>1, <1>6
<1>9. \A q \in Sources : q # s => at'[q] = at[q] /\ result'[q] = result[q]
                                  /\ verdict'[q] = verdict[q] /\ excused'[q] = excused[q]
  BY <1>0, <1>1, <1>2, <1>3, <1>6
<1> QED BY <1>1, <1>6, <1>7, <1>8, <1>9 DEF Moved, Alive, Follows

LEMMA FollowsDown ==
  ASSUME NEW from, NEW to, Follows(from, to, TRUE)
  PROVE  Rank(to) < Rank(from)
<1>1. /\ Rank("opening") = 6 /\ Rank("capturing") = 5 /\ Rank("draining") = 4 /\ Rank("waiting") = 4
      /\ Rank("refused") = 3 /\ Rank("closing") = 2 /\ Rank("clearing") = 1 /\ Rank("ended") = 0
  BY DEF Rank
<1> QED BY <1>1 DEF Follows

-----------------------------------------------------------------------------
(* The session.                                                            *)

SessionTypeOK ==
  /\ phase \in Phases /\ cur \in 1..(NSources + 1) /\ toStop \in Seq(Sources)
  /\ failed \in BOOLEAN /\ failure \in BOOLEAN /\ drained \in BOOLEAN
  /\ now \in Instants \cup {0} /\ taken \in [Sources -> 0..now]

LEMMA TypesAre == TypeOK <=> CaptureTypeOK /\ TracksTypeOK /\ SessionTypeOK
BY DEF TypeOK, SessionTypeOK

(* Tracks are sources.                                                     *)
LEMMA Constants ==
  /\ NSources \in Nat \ {0} /\ Tracks = Sources
  /\ now \in Instants \cup {0} => now \in Nat
  /\ TickFill \in Nat /\ FinalFill \in Nat /\ Budget \in Nat /\ Lag \in Nat /\ Packet \in Nat
<1>1. NTracks \in Nat \ {0} /\ Packet \in Nat /\ NTracks = NSources
  BY TracksAssumption, CaptureAssumption
<1>2. TickFill \in Nat /\ FinalFill \in Nat /\ Budget \in Nat /\ Lag \in Nat /\ Instants \subseteq Nat
  BY CaptureAssumption
<1>3. Tracks = Sources
  BY <1>1 DEF Tracks, Sources
<1>4. now \in Instants \cup {0} => now \in Nat
  BY <1>2
<1>5. NSources \in Nat \ {0}
  BY <1>1
<1> QED BY <1>1, <1>2, <1>3, <1>4, <1>5, Zenon

LEMMA StartedIs ==
  ASSUME cur \in 1..(NSources + 1)
  PROVE  /\ Started \in Seq(Sources) /\ Len(Started) = cur - 1
         /\ \A s \in Sources : s < cur => \E i \in 1..Len(Started) : Started[i] = s
         /\ cur \in Sources => /\ <<cur>> \o Started \in Seq(Sources) /\ <<cur>> \o Started # <<>>
                               /\ \A s \in Sources : s <= cur =>
                                    \E i \in 1..Len(<<cur>> \o Started) : (<<cur>> \o Started)[i] = s
<1>0. cur - 1 \in Nat /\ NSources \in Nat
  BY Constants
<1>1. Started = [s \in 1..(cur - 1) |-> s]
  BY DEF Started
<1>2. Started \in Seq(Sources) /\ Len(Started) = cur - 1 /\ \A i \in 1..(cur - 1) : Started[i] = i
  <2>1. \A i \in 1..(cur - 1) : i \in Sources
    BY <1>0 DEF Sources
  <2> QED BY <1>0, <1>1, <2>1
<1> HIDE DEF Started
<1>3. ASSUME NEW s \in Sources, s < cur PROVE s \in 1..Len(Started) /\ Started[s] = s
  BY <1>0, <1>2, <1>3 DEF Sources
<1>4. ASSUME cur \in Sources
      PROVE  /\ <<cur>> \o Started \in Seq(Sources) /\ <<cur>> \o Started # <<>>
             /\ \A s \in Sources : s <= cur =>
                  \E i \in 1..Len(<<cur>> \o Started) : (<<cur>> \o Started)[i] = s
  <2> DEFINE r == <<cur>> \o Started
  <2>1. r \in Seq(Sources) /\ Len(r) = 1 + Len(Started) /\ r[1] = cur
    BY <1>2, <1>4
  <2>2. \A i \in 1..Len(Started) : r[1 + i] = Started[i]
    BY <1>2, <1>4
  <2>3. ASSUME NEW s \in Sources, s <= cur PROVE \E i \in 1..Len(r) : r[i] = s
    <3>1. CASE s = cur
      <4>1. 1 \in 1..Len(r)
        BY <1>2, <2>1
      <4> QED BY <2>1, <3>1, <4>1
    <3>2. CASE s # cur
      <4>1. s < cur
        BY <2>3, <3>2, <1>0 DEF Sources
      <4>2. s \in 1..Len(Started) /\ Started[s] = s
        BY <1>3, <4>1
      <4>3. 1 + s \in 1..Len(r) /\ r[1 + s] = s
        BY <1>2, <2>1, <2>2, <4>2
      <4> QED BY <4>3
    <3> QED BY <3>1, <3>2
  <2> QED BY <1>2, <2>1, <2>3
<1> QED BY <1>2, <1>3, <1>4

(* The session goes over to its end with every thread that was started     *)
(* among the sources to stop, or records that it has failed.               *)
LEMMA OrderKept ==
  ASSUME IInv, NEW order \in Seq(Sources), EndWith(order), UNCHANGED <<captureVars, timeVars>>,
         phase \in Running, failure' \in BOOLEAN,
         \A s \in Sources : at[s] # "none" => \E i \in 1..Len(order) : order[i] = s,
         failure' \/ (cur = NSources + 1 /\ order = Started),
         TracksTypeOK', ChainInv',
         \A t \in Tracks : lost'[t] => lost[t] \/ failure'
  PROVE  IInv'
<1>0. /\ CaptureTypeOK /\ SessionTypeOK /\ OrderInv /\ RefusalInv /\ CaptureTypeOK'
      /\ UNCHANGED <<at, result, verdict, excused, stopEvent, now, taken>>
  BY TypesAre DEF IInv, captureVars, timeVars, CaptureTypeOK, Sources
<1>1. /\ toStop' = order /\ UNCHANGED <<cur, failed, drained>>
      /\ phase' \in {"filling", "asking"}
      /\ order = <<>> <=> phase' = "filling"
  BY DEF EndWith, To
<1>2. ~failed /\ \A s \in Sources : ~stopEvent[s]
  BY <1>0 DEF OrderInv
<1>3. TypeOK'
  <2>1. SessionTypeOK'
    BY <1>0, <1>1 DEF SessionTypeOK, Phases, Sources
  <2> QED BY <1>0, <2>1, TypesAre DEF TypeOK, SessionTypeOK
<1>4. OrderInv'
  <2>1. \A s \in Sources : s > cur => at[s] = "none"
    BY <1>0 DEF OrderInv
  <2>2. \A s \in Sources : Alive(s)' => \E i \in 1..Len(order) : order[i] = s
    BY <1>0 DEF Alive
  <2>3. ~failure' => cur' = NSources + 1
    BY <1>1
  <2> QED BY <1>0, <1>1, <2>1, <2>2, <2>3 DEF OrderInv, Running, Stopping, Stopped, Sources
<1>5. RefusalInv'
  <2>1. \A s \in Sources : lost'[s] => lost[s] \/ failure'
    BY Constants
  <2>2. ~failure' => \A s \in Sources : \E i \in 1..Len(order) : order[i] = s
    <3> SUFFICES ASSUME ~failure', NEW s \in Sources PROVE \E i \in 1..Len(order) : order[i] = s
      OBVIOUS
    <3>1. cur = NSources + 1 /\ order = Started /\ s < cur
      BY Constants DEF Sources
    <3> QED BY <3>1, <1>0, StartedIs DEF SessionTypeOK
  <2>3. failure => failure'
    BY <1>0 DEF OrderInv
  <2> QED BY <1>0, <1>1, <2>1, <2>2, <2>3 DEF RefusalInv, Sources
<1>6. EndInv'
  BY <1>1 DEF EndInv
<1> QED BY <1>3, <1>4, <1>5, <1>6 DEF IInv

(* The recording ends, or one of its calls fails, once all sources run or  *)
(* one of them does not start.                                             *)
LEMMA EndingKeeps ==
  ASSUME IInv, EndWith(Started), UNCHANGED <<captureVars, timeVars>>,
         phase \in Running \ {"awaiting"}, failure' \in BOOLEAN, failure' \/ phase # "starting",
         TracksTypeOK', ChainInv',
         \A t \in Tracks : lost'[t] => lost[t] \/ failure'
  PROVE  IInv'
<1>1. OrderInv /\ cur \in 1..(NSources + 1)
  BY DEF IInv, TypeOK
<1>2. Started \in Seq(Sources)
  BY <1>1, StartedIs
<1>3. \A s \in Sources : at[s] # "none" => s < cur
  BY <1>1, Constants DEF OrderInv, Running, Sources
<1>4. \A s \in Sources : at[s] # "none" => \E i \in 1..Len(Started) : Started[i] = s
  BY <1>1, <1>3, StartedIs
<1>5. failure' \/ cur = NSources + 1
  BY <1>1 DEF OrderInv, Running
<1> QED BY <1>2, <1>4, <1>5, OrderKept, Zenon

(* A source is launched, found running, or found not to start.             *)
LEMMA Starts == IInv /\ (StartSource \/ AwaitStartup) => IInv'
<1> SUFFICES ASSUME IInv, StartSource \/ AwaitStartup PROVE IInv'
  OBVIOUS
<1>0. /\ CaptureTypeOK /\ TracksTypeOK /\ SessionTypeOK
      /\ ChainInv /\ OrderInv /\ RefusalInv /\ EndInv
      /\ NSources \in Nat \ {0}
  BY TypesAre, Constants DEF IInv
<1>1. phase \in {"starting", "awaiting"} /\ cur \in Sources /\ UNCHANGED <<trackVars, timeVars>>
      /\ ~failure /\ toStop = <<>> /\ (\A s \in Sources : ~stopEvent[s])
  BY <1>0 DEF StartSource, AwaitStartup, OrderInv, Running, SessionTypeOK, Sources
<1>2. TracksTypeOK'
  BY <1>0, <1>1 DEF TracksTypeOK, trackVars, Tracks
<1>3. failure' \in BOOLEAN => ChainInv'
  BY <1>0, <1>1 DEF ChainInv, trackVars, Tracks
<1>4. CASE StartSource /\ LaunchThread(cur)
  <2>1. /\ at' = [at EXCEPT ![cur] = "opening"] /\ result' = [result EXCEPT ![cur] = "ok"]
        /\ UNCHANGED <<verdict, running, stopEvent, startup, excused>>
        /\ at[cur] = "none"
    BY <1>0, <1>1, <1>4 DEF LaunchThread, StartSource, OrderInv
  <2>2. phase' = "awaiting" /\ UNCHANGED <<cur, toStop, failed, failure, drained>>
    <3>1. at' # at
      BY <1>0, <1>1, <2>1 DEF CaptureTypeOK
    <3> QED BY <1>4, <3>1 DEF StartSource, To, captureVars
  <2>3. CaptureTypeOK'
    BY <1>0, <2>1 DEF CaptureTypeOK, Places, Sources
  <2>4. SessionTypeOK'
    BY <1>0, <1>1, <2>2 DEF SessionTypeOK, Phases, Sources, timeVars
  <2>5. OrderInv'
    <3>1. \A s \in Sources : s > cur => at'[s] = "none"
      BY <1>0, <1>1, <2>1 DEF OrderInv, CaptureTypeOK, Sources
    <3> QED BY <1>0, <1>1, <2>1, <2>2, <3>1 DEF OrderInv, Running, Stopping, Stopped, Sources
  <2>6. RefusalInv'
    <3>1. ~lost[cur] \/ excused[cur]
      BY <1>0, <1>1, <2>1 DEF RefusalInv
    <3>2. \A s \in Sources : s # cur => at'[s] = at[s] /\ result'[s] = result[s]
      BY <1>0, <2>1 DEF CaptureTypeOK
    <3> QED BY <1>0, <1>1, <2>1, <2>2, <3>1, <3>2 DEF RefusalInv, Stopping, Stopped, trackVars, Sources
  <2>7. EndInv'
    BY <2>2 DEF EndInv
  <2>8. ChainInv'
    BY <1>0, <1>3, <2>2 DEF SessionTypeOK
  <2> QED BY <1>2, <2>3, <2>4, <2>5, <2>6, <2>7, <2>8, TypesAre DEF IInv, TypeOK, SessionTypeOK
<1>5. CASE StartSource /\ ~LaunchThread(cur)
  <2>1. EndWith(Started) /\ failure' = TRUE /\ UNCHANGED captureVars /\ phase = "starting"
    BY <1>5 DEF StartSource
  <2> QED BY <1>1, <1>2, <1>3, <2>1, EndingKeeps DEF Running, trackVars
<1>6. CASE AwaitStartup /\ startup[cur] /\ result[cur] = "ok"
  <2>1. /\ phase = "awaiting" /\ cur' = cur + 1
        /\ phase' = IF cur = NSources THEN "recording" ELSE "starting"
        /\ UNCHANGED <<toStop, failed, failure, drained, captureVars>>
    BY <1>6 DEF AwaitStartup, To
  <2>3. CaptureTypeOK'
    BY <1>0, <2>1 DEF CaptureTypeOK, captureVars, Sources
  <2>4. SessionTypeOK'
    BY <1>0, <1>1, <2>1 DEF SessionTypeOK, Phases, Sources, timeVars
  <2>5. OrderInv'
    BY <1>0, <1>1, <2>1 DEF OrderInv, Running, Stopping, Stopped, Sources, captureVars
  <2>6. RefusalInv'
    BY <1>0, <1>1, <2>1 DEF RefusalInv, Stopping, Stopped, trackVars, captureVars, Sources
  <2>7. EndInv'
    BY <2>1 DEF EndInv
  <2>8. ChainInv'
    BY <1>0, <1>3, <2>1 DEF SessionTypeOK
  <2> QED BY <1>2, <2>3, <2>4, <2>5, <2>6, <2>7, <2>8, TypesAre DEF IInv, TypeOK, SessionTypeOK
<1>7. CASE AwaitStartup /\ ~(startup[cur] /\ result[cur] = "ok")
  <2>1. EndWith(<<cur>> \o Started) /\ failure' = TRUE /\ UNCHANGED captureVars /\ phase = "awaiting"
    BY <1>7 DEF AwaitStartup
  <2>2. cur \in 1..(NSources + 1)
    BY <1>0 DEF SessionTypeOK
  <2>3. \A s \in Sources : at[s] # "none" => s <= cur
    BY <1>0, <2>2 DEF OrderInv, Sources
  <2>4. \A s \in Sources : at[s] # "none" =>
          \E i \in 1..Len(<<cur>> \o Started) : (<<cur>> \o Started)[i] = s
    BY <1>1, <2>2, <2>3, StartedIs
  <2>5. <<cur>> \o Started \in Seq(Sources)
    BY <1>1, <2>2, StartedIs
  <2> HIDE DEF Started
  <2> QED BY <1>1, <1>2, <1>3, <2>1, <2>4, <2>5, OrderKept DEF Running, trackVars
<1> QED BY <1>4, <1>5, <1>6, <1>7

(* A tick, up to the end of the recording.                                 *)
LEMMA Ticks == IInv /\ (TickFills \/ TickDrains \/ TickChecks \/ EndRecording) => IInv'
<1> SUFFICES ASSUME IInv, TickFills \/ TickDrains \/ TickChecks \/ EndRecording PROVE IInv'
  OBVIOUS
<1>0. /\ CaptureTypeOK /\ TracksTypeOK /\ SessionTypeOK
      /\ ChainInv /\ OrderInv /\ RefusalInv /\ EndInv
      /\ now \in Nat /\ Lag \in Nat /\ TickFill \in Nat
  BY TypesAre, Constants DEF IInv, SessionTypeOK
<1>1. /\ phase \in {"recording", "ticking", "checking"} /\ UNCHANGED <<captureVars, timeVars>>
      /\ ~failure /\ ~failed /\ toStop = <<>> /\ cur = NSources + 1
      /\ (\A s \in Sources : ~stopEvent[s])
  BY <1>0 DEF TickFills, TickDrains, TickChecks, EndRecording, OrderInv, Running
<1>2. failure' \in BOOLEAN
  BY <1>0 DEF TickFills, TickDrains, TickChecks, EndRecording, SessionTypeOK
<1>3. TracksTypeOK' /\ ChainInv' /\ \A t \in Tracks : lost'[t] => lost[t] \/ failure'
  <2>1. CASE TickFills
    <3>1. TickTarget \in Nat
      BY <1>0 DEF TickTarget, Larger
    <3> HIDE DEF TickTarget
    <3>2. FillContinuityTo(TickTarget, TickFill)
      BY <2>1 DEF TickFills
    <3> QED BY <1>0, <1>1, <3>1, <3>2, FillKeeps
  <2>2. CASE TickDrains
    <3>1. Drainable(Budget) \in Nat
      <4>1. Cardinality(Queued) \in Nat /\ Budget \in Nat
        BY <1>0, QueuedIsFinite, FS_CardinalityType, Constants
      <4> QED BY <4>1, SmallerIs DEF Drainable
    <3>2. CASE Drain(Drainable(Budget), TRUE)
      BY <1>0, <1>1, <3>1, <3>2, DrainKeeps
    <3>3. CASE ~Drain(Drainable(Budget), TRUE)
      <4>1. PICK n \in 1..Drainable(Budget) : Drain(n, FALSE) /\ failure' = TRUE
        BY <2>2, <3>3 DEF TickDrains
      <4>2. n \in Nat
        BY <3>1
      <4> QED BY <1>0, <1>1, <4>1, <4>2, DrainKeeps
    <3> QED BY <3>2, <3>3
  <2>3. CASE TickChecks \/ EndRecording
    <3>1. UNCHANGED trackVars
      BY <2>3 DEF TickChecks, EndRecording
    <3>2. TracksTypeOK'
      BY <1>0, <3>1 DEF TracksTypeOK, trackVars, Tracks
    <3>3. ChainInv'
      BY <1>0, <1>1, <3>1 DEF ChainInv, trackVars, Tracks
    <3> QED BY <3>1, <3>2, <3>3 DEF trackVars
  <2> QED BY <2>1, <2>2, <2>3
<1>4. CASE EndWith(Started)
  BY <1>1, <1>2, <1>3, <1>4, EndingKeeps DEF Running
<1>5. CASE ~EndWith(Started)
  <2>1. /\ phase' \in {"recording", "ticking", "checking"}
        /\ UNCHANGED <<cur, toStop, failed, failure, drained>>
    BY <1>5 DEF TickFills, TickDrains, TickChecks, EndRecording, To
  <2>2. CaptureTypeOK'
    BY <1>0, <1>1 DEF CaptureTypeOK, captureVars, Sources
  <2>3. SessionTypeOK'
    BY <1>0, <1>1, <2>1 DEF SessionTypeOK, Phases, Sources, timeVars
  <2>4. OrderInv'
    BY <1>0, <1>1, <2>1 DEF OrderInv, Running, Stopping, Stopped, Sources, captureVars
  <2>5. RefusalInv'
    <3>1. \A s \in Sources : lost'[s] => lost[s]
      BY <1>1, <1>3, <2>1, Constants
    <3> QED BY <1>0, <1>1, <2>1, <3>1 DEF RefusalInv, Stopping, Stopped, captureVars, Sources
  <2>6. EndInv'
    BY <2>1 DEF EndInv
  <2> QED BY <1>3, <2>2, <2>3, <2>4, <2>5, <2>6, TypesAre DEF IInv, TypeOK, SessionTypeOK
<1> QED BY <1>4, <1>5

(* The sources are stopped in turn.                                        *)
LEMMA Asks == IInv /\ AskToStop => IInv'
<1> SUFFICES ASSUME IInv, AskToStop PROVE IInv'
  OBVIOUS
<1>0. /\ CaptureTypeOK /\ TracksTypeOK /\ SessionTypeOK
      /\ ChainInv /\ OrderInv /\ RefusalInv /\ EndInv
  BY TypesAre DEF IInv
<1>1. /\ phase = "asking" /\ phase' = "joining" /\ toStop # <<>>
      /\ stopEvent' = [stopEvent EXCEPT ![Head(toStop)] = TRUE]
      /\ UNCHANGED <<at, result, verdict, running, startup, excused>>
      /\ UNCHANGED <<trackVars, timeVars, cur, toStop, failed, failure, drained>>
  BY <1>0 DEF AskToStop, To, RequestStop, OrderInv, Stopping
<1>2. Head(toStop) \in Sources
  BY <1>0, <1>1 DEF SessionTypeOK
<1>3. CaptureTypeOK'
  BY <1>0, <1>1, <1>2 DEF CaptureTypeOK, Sources
<1>4. TracksTypeOK' /\ ChainInv'
  BY <1>0, <1>1 DEF TracksTypeOK, ChainInv, trackVars, Tracks
<1>5. SessionTypeOK'
  BY <1>0, <1>1 DEF SessionTypeOK, Phases, Sources, timeVars
<1>6. OrderInv'
  <2>1. stopEvent'[Head(toStop)]
    BY <1>0, <1>1, <1>2 DEF CaptureTypeOK
  <2> QED BY <1>0, <1>1, <2>1 DEF OrderInv, Running, Stopping, Stopped, Sources, Alive
<1>7. RefusalInv' /\ EndInv'
  BY <1>0, <1>1 DEF RefusalInv, EndInv, Stopping, Stopped, Sources, trackVars
<1> QED BY <1>3, <1>4, <1>5, <1>6, <1>7, TypesAre DEF IInv, TypeOK, SessionTypeOK

(* Nothing but the head of a sequence is missing from its tail.            *)
LEMMA TailKeeps ==
  ASSUME NEW q \in Seq(Sources), q # <<>>
  PROVE  /\ Tail(q) \in Seq(Sources) /\ Len(Tail(q)) = Len(q) - 1 /\ Head(q) \in Sources
         /\ (Tail(q) = <<>>) <=> (Len(q) = 1)
         /\ \A s \in Sources : (\E i \in 1..Len(q) : q[i] = s) /\ s # Head(q) =>
              \E i \in 1..Len(Tail(q)) : Tail(q)[i] = s
<1>1. Tail(q) \in Seq(Sources) /\ Len(Tail(q)) = Len(q) - 1 /\ Head(q) \in Sources /\ Head(q) = q[1]
  OBVIOUS
<1>2. \A i \in 1..Len(Tail(q)) : Tail(q)[i] = q[i + 1]
  OBVIOUS
<1>3. ASSUME NEW s \in Sources, NEW i \in 1..Len(q), q[i] = s, s # Head(q)
      PROVE  \E j \in 1..Len(Tail(q)) : Tail(q)[j] = s
  <2>1. i - 1 \in 1..Len(Tail(q)) /\ Tail(q)[i - 1] = q[i]
    BY <1>1, <1>2, <1>3
  <2> QED BY <1>3, <2>1
<1>4. (Tail(q) = <<>>) <=> (Len(q) = 1)
  BY <1>1
<1> QED BY <1>1, <1>3, <1>4

LEMMA Collects == IInv /\ CollectResult => IInv'
<1> SUFFICES ASSUME IInv, CollectResult PROVE IInv'
  OBVIOUS
<1> DEFINE h == Head(toStop)
<1>0. /\ CaptureTypeOK /\ TracksTypeOK /\ SessionTypeOK
      /\ ChainInv /\ OrderInv /\ RefusalInv /\ EndInv
  BY TypesAre DEF IInv
<1>1. /\ phase = "joining" /\ toStop # <<>> /\ toStop \in Seq(Sources) /\ ~Alive(h)
      /\ running' = [running EXCEPT ![h] = FALSE]
      /\ UNCHANGED <<at, result, verdict, stopEvent, startup, excused>>
      /\ toStop' = Tail(toStop)
      /\ phase' = IF Len(toStop) = 1 THEN "filling" ELSE "asking"
      /\ UNCHANGED <<trackVars, timeVars, cur, failure, drained>>
  BY <1>0 DEF CollectResult, Joined, AfterJoin, To, OrderInv, Stopping, SessionTypeOK
<1>2. failed' = (failed \/ (h # cur /\ result[h] = "fault"))
  BY Zenon DEF CollectResult
<1>3. failed' \in BOOLEAN /\ (failed => failed') /\ (~failed' => h = cur \/ result[h] # "fault")
  <2>1. CASE failed \/ (h # cur /\ result[h] = "fault")
    BY <1>2, <2>1
  <2>2. CASE ~(failed \/ (h # cur /\ result[h] = "fault"))
    BY <1>2, <2>2
  <2> QED BY <2>1, <2>2
<1>4. /\ Tail(toStop) \in Seq(Sources) /\ h \in Sources
      /\ (Tail(toStop) = <<>>) <=> (Len(toStop) = 1)
      /\ \A s \in Sources : (\E i \in 1..Len(toStop) : toStop[i] = s) /\ s # h =>
           \E i \in 1..Len(Tail(toStop)) : Tail(toStop)[i] = s
  BY <1>1, TailKeeps
<1> HIDE DEF h
<1>5. CaptureTypeOK'
  BY <1>0, <1>1, <1>4 DEF CaptureTypeOK, Sources
<1>6. TracksTypeOK' /\ ChainInv'
  BY <1>0, <1>1 DEF TracksTypeOK, ChainInv, trackVars, Tracks
<1>7. SessionTypeOK'
  BY <1>0, <1>1, <1>3, <1>4 DEF SessionTypeOK, Phases, Sources, timeVars
<1>8. OrderInv'
  <2>1. \A s \in Sources : Alive(s)' => \E i \in 1..Len(toStop') : toStop'[i] = s
    <3> SUFFICES ASSUME NEW s \in Sources, Alive(s)'
                 PROVE  \E i \in 1..Len(toStop') : toStop'[i] = s
      OBVIOUS
    <3>1. Alive(s) /\ s # h
      BY <1>1 DEF Alive
    <3>2. \E i \in 1..Len(toStop) : toStop[i] = s
      BY <1>0, <1>1, <3>1 DEF OrderInv, Stopping
    <3> QED BY <1>1, <1>4, <3>1, <3>2
  <2> QED BY <1>0, <1>1, <1>4, <2>1 DEF OrderInv, Running, Stopping, Stopped, Sources
<1>9. RefusalInv'
  <2>1. ASSUME ~failure, ~failed', NEW s \in Sources
        PROVE  (\E i \in 1..Len(toStop') : toStop'[i] = s) \/ result'[s] = "ok"
    <3>1. cur = NSources + 1 /\ ~failed
      BY <1>0, <1>1, <1>3, <2>1 DEF OrderInv, Running
    <3>2. (\E i \in 1..Len(toStop) : toStop[i] = s) \/ result[s] = "ok"
      BY <1>0, <1>1, <2>1, <3>1 DEF RefusalInv, Stopping
    <3>3. CASE s = h
      <4>1. h # cur
        BY <1>4, <3>1, Constants DEF Sources
      <4> QED BY <1>0, <1>1, <1>3, <1>4, <2>1, <3>3, <4>1 DEF CaptureTypeOK
    <3>4. CASE s # h
      BY <1>1, <1>4, <3>2, <3>4
    <3> QED BY <3>3, <3>4
  <2> QED BY <1>0, <1>1, <2>1 DEF RefusalInv, Sources, trackVars
<1>10. EndInv'
  BY <1>1 DEF EndInv
<1> QED BY <1>5, <1>6, <1>7, <1>8, <1>9, <1>10, TypesAre DEF IInv, TypeOK, SessionTypeOK

(* The end: silence, what is still queued, the encoders.                   *)
LEMMA Finishes == IInv /\ (FinalFills \/ DrainQueuedBlocks \/ FlushEncoders \/ Destroy) => IInv'
<1> SUFFICES ASSUME IInv, FinalFills \/ DrainQueuedBlocks \/ FlushEncoders \/ Destroy PROVE IInv'
  OBVIOUS
<1>0. /\ CaptureTypeOK /\ TracksTypeOK /\ SessionTypeOK
      /\ ChainInv /\ OrderInv /\ RefusalInv /\ EndInv
      /\ now \in Nat /\ FinalFill \in Nat
  BY TypesAre, Constants DEF IInv, SessionTypeOK
<1>1. /\ phase \in {"filling", "draining", "flushing", "ended"}
      /\ phase' \in {"draining", "flushing", "ended", "gone"}
      /\ UNCHANGED <<captureVars, timeVars, cur, toStop, failed>>
  BY DEF FinalFills, DrainQueuedBlocks, FlushEncoders, Destroy, To
<1>2. CaptureTypeOK'
  BY <1>0, <1>1 DEF CaptureTypeOK, captureVars, Sources
<1>3. ASSUME failure => failure', failure' \in BOOLEAN, drained' \in BOOLEAN,
             TracksTypeOK', ChainInv', \A t \in Tracks : lost'[t] => lost[t] \/ failure', EndInv'
      PROVE  IInv'
  <2>1. SessionTypeOK'
    BY <1>0, <1>1, <1>3 DEF SessionTypeOK, Phases, Sources, timeVars
  <2>2. OrderInv'
    BY <1>0, <1>1, <1>3 DEF OrderInv, Running, Stopping, Stopped, Sources, captureVars, Alive
  <2>3. RefusalInv'
    <3>1. \A s \in Sources : lost'[s] => lost[s] \/ failure'
      BY <1>3, Constants
    <3> QED BY <1>0, <1>1, <1>3, <3>1 DEF RefusalInv, Stopping, Stopped, captureVars, Sources
  <2> QED BY <1>2, <1>3, <2>1, <2>2, <2>3, TypesAre DEF IInv, TypeOK, SessionTypeOK
<1>4. ASSUME DrainAll, failure => failure', failure' \in BOOLEAN, ~drained' => failure'
      PROVE  /\ drained' \in BOOLEAN /\ TracksTypeOK' /\ ChainInv'
             /\ \A t \in Tracks : lost'[t] => lost[t] \/ failure'
             /\ UNCHANGED next
             /\ drained' => \A t \in Tracks : queue'[t] = <<>>
  <2> DEFINE c == Cardinality(Queued)
  <2>1. c \in Nat /\ Drainable(c) = c
    BY <1>0, QueuedIsFinite, FS_CardinalityType DEF Drainable, Smaller
  <2>2. UNCHANGED next
    BY <1>4 DEF DrainAll, Drain
  <2>3. CASE Drain(c, TRUE) /\ drained'
    BY <1>0, <1>4, <2>1, <2>2, <2>3, DrainKeeps, Zenon
  <2>4. ASSUME NEW n \in 1..c, Drain(n, FALSE), drained' = FALSE
        PROVE  /\ drained' \in BOOLEAN /\ TracksTypeOK' /\ ChainInv' /\ failure'
    <3>1. n \in Nat
      BY <2>1
    <3> QED BY <1>0, <1>4, <2>4, <3>1, DrainKeeps
  <2> QED BY <1>4, <2>1, <2>2, <2>3, <2>4 DEF DrainAll
<1>5. CASE FinalFills
  <2>1. CASE failed
    <3>1. /\ phase' = "draining" /\ failure' = TRUE /\ UNCHANGED <<trackVars, drained>>
      BY <1>5, <2>1 DEF FinalFills, To
    <3>2. TracksTypeOK' /\ ChainInv' /\ EndInv'
      BY <1>0, <3>1 DEF TracksTypeOK, ChainInv, EndInv, trackVars, Tracks
    <3> QED BY <1>0, <1>3, <3>1, <3>2 DEF SessionTypeOK, trackVars
  <2>2. CASE ~failed
    <3>1. /\ phase' = "draining" /\ UNCHANGED drained /\ FillContinuityTo(now, FinalFill)
          /\ failure' = (failure \/ ~FillComplete(now, FinalFill))
      BY <1>5, <2>2, Zenon DEF FinalFills, To
    <3>2. (failure => failure') /\ failure' \in BOOLEAN /\ (~failure' => FillComplete(now, FinalFill))
      <4>1. CASE failure \/ ~FillComplete(now, FinalFill)
        BY <3>1, <4>1
      <4>2. CASE ~(failure \/ ~FillComplete(now, FinalFill))
        BY <3>1, <4>2
      <4> QED BY <4>1, <4>2
    <3>3. /\ TracksTypeOK' /\ ChainInv' /\ UNCHANGED lost
          /\ FillComplete(now, FinalFill) => \A t \in Tracks : now <= next'[t] + Tolerance
      BY <1>0, <3>1, <3>2, FillKeeps
    <3>4. EndInv'
      BY <1>1, <2>2, <3>1, <3>2, <3>3 DEF EndInv, timeVars, Tracks
    <3> QED BY <1>0, <1>3, <3>1, <3>2, <3>3, <3>4 DEF SessionTypeOK
  <2> QED BY <2>1, <2>2
<1>6. CASE DrainQueuedBlocks
  <2>1. /\ phase = "draining" /\ phase' = "flushing" /\ DrainAll
        /\ failure' = (failure \/ ~drained')
    BY <1>6, Zenon DEF DrainQueuedBlocks, To
  <2>2. (failure => failure') /\ failure' \in BOOLEAN /\ (~drained' => failure')
    <3>1. CASE failure \/ ~drained'
      BY <2>1, <3>1
    <3>2. CASE ~(failure \/ ~drained')
      BY <2>1, <3>2
    <3> QED BY <3>1, <3>2
  <2>3. EndInv'
    BY <1>0, <1>1, <1>4, <2>1, <2>2 DEF EndInv, timeVars, Tracks
  <2> QED BY <1>3, <1>4, <2>1, <2>2, <2>3
<1>7. CASE FlushEncoders
  <2>1. /\ phase = "flushing" /\ phase' = "ended" /\ UNCHANGED <<trackVars, drained>>
        /\ \E flushed \in BOOLEAN : failure' = (failure \/ ~flushed)
    BY <1>7 DEF FlushEncoders, To
  <2>2. (failure => failure') /\ failure' \in BOOLEAN
    BY <1>0, <2>1 DEF SessionTypeOK
  <2>3. TracksTypeOK' /\ ChainInv' /\ EndInv'
    BY <1>0, <1>1, <2>1, <2>2 DEF TracksTypeOK, ChainInv, EndInv, trackVars, timeVars, Tracks
  <2> QED BY <1>0, <1>3, <2>1, <2>2, <2>3 DEF SessionTypeOK, trackVars
<1>8. CASE Destroy
  <2>1. phase = "ended" /\ phase' = "gone" /\ UNCHANGED failure
    BY <1>8 DEF Destroy, To
  <2>2. CASE drained
    <3>1. UNCHANGED <<trackVars, drained>>
      BY <1>8, <2>2 DEF Destroy
    <3>2. TracksTypeOK' /\ ChainInv' /\ EndInv'
      BY <1>0, <1>1, <2>1, <3>1 DEF TracksTypeOK, ChainInv, EndInv, trackVars, timeVars, Tracks
    <3> QED BY <1>0, <1>3, <2>1, <3>1, <3>2 DEF SessionTypeOK, trackVars
  <2>3. CASE ~drained
    <3>1. DrainAll /\ failure /\ failure'
      BY <1>0, <1>8, <2>1, <2>3 DEF Destroy, EndInv
    <3>2. EndInv'
      BY <2>1, <3>1 DEF EndInv
    <3> QED BY <1>0, <1>3, <1>4, <2>1, <3>1, <3>2 DEF SessionTypeOK
  <2> QED BY <2>2, <2>3
<1> QED BY <1>5, <1>6, <1>7, <1>8

-----------------------------------------------------------------------------
(* The threads and the clock.                                              *)

LEMMA Clock == IInv /\ ClockAdvances => IInv'
<1> SUFFICES ASSUME IInv, ClockAdvances PROVE IInv'
  OBVIOUS
<1>0. /\ CaptureTypeOK /\ TracksTypeOK /\ SessionTypeOK
      /\ ChainInv /\ OrderInv /\ RefusalInv /\ EndInv
      /\ now \in Nat
  BY TypesAre, Constants DEF IInv, SessionTypeOK
<1>1. PICK i \in Instants : now < i /\ now' = i
  BY DEF ClockAdvances
<1>2. /\ UNCHANGED <<captureVars, trackVars, workerVars, taken>>
      /\ phase \notin {"draining", "flushing", "ended", "gone"}
  BY DEF ClockAdvances, ClockUsed
<1>3. SessionTypeOK'
  <2>1. i \in Nat
    BY <1>1, CaptureAssumption
  <2>2. 0..now \subseteq 0..now'
    BY <1>0, <1>1, <2>1
  <2>3. taken' \in [Sources -> 0..now']
    BY <1>0, <1>2, <2>2 DEF SessionTypeOK
  <2> QED BY <1>0, <1>1, <1>2, <2>3 DEF SessionTypeOK, workerVars, Sources
<1>4. CaptureTypeOK' /\ TracksTypeOK'
  BY <1>0, <1>2 DEF CaptureTypeOK, TracksTypeOK, captureVars, trackVars, Sources, Tracks
<1>5. ChainInv'
  BY <1>0, <1>2 DEF ChainInv, trackVars, workerVars, Tracks
<1>6. OrderInv'
  BY <1>0, <1>2 DEF OrderInv, captureVars, workerVars, Running, Stopping, Stopped, Sources, Alive
<1>7. RefusalInv' /\ EndInv'
  BY <1>0, <1>2 DEF RefusalInv, EndInv, captureVars, trackVars, workerVars, Stopping, Stopped, Sources
<1> QED BY <1>3, <1>4, <1>5, <1>6, <1>7, TypesAre DEF IInv, TypeOK, SessionTypeOK

(* A thread that moves, and does not come alive by it, keeps its place in  *)
(* the order of the session.                                               *)
LEMMA OrderOfThreads ==
  ASSUME OrderInv, CaptureTypeOK, UNCHANGED workerVars, UNCHANGED stopEvent,
         NEW s \in Sources, Alive(s), \A r \in Sources : r # s => at'[r] = at[r]
  PROVE  OrderInv'
<1>1. at[s] # "none"
  BY DEF Alive
<1>2. \A r \in Sources : r > cur \/ (r = cur /\ phase = "starting") => at'[r] = "none"
  BY <1>1 DEF OrderInv
<1>3. \A r \in Sources : Alive(r)' => Alive(r)
  BY DEF Alive
<1> QED BY <1>2, <1>3 DEF OrderInv, workerVars, Running, Stopping, Stopped, Sources

LEMMA Threads == ASSUME IInv, NEW s \in Sources, Thread(s) PROVE IInv'
<1>0. /\ CaptureTypeOK /\ TracksTypeOK /\ SessionTypeOK
      /\ ChainInv /\ OrderInv /\ RefusalInv /\ EndInv
  BY TypesAre DEF IInv
<1>1. ThreadStep(s) /\ UNCHANGED <<trackVars, workerVars, timeVars>>
  BY DEF Thread
<1>2. /\ CaptureTypeOK' /\ UNCHANGED stopEvent
      /\ Alive(s) /\ at'[s] # "none"
      /\ Follows(at[s], at'[s], stopEvent[s])
      /\ at[s] = "refused" => (at'[s] = "closing" /\ verdict'[s] = "fault") \/ excused'[s]
      /\ at[s] = "closing" => result'[s] = verdict[s]
      /\ at[s] = "clearing" => result'[s] = result[s]
      /\ excused[s] => excused'[s]
      /\ \A r \in Sources : r # s => at'[r] = at[r] /\ result'[r] = result[r]
                                     /\ verdict'[r] = verdict[r] /\ excused'[r] = excused[r]
  BY <1>0, <1>1, ThreadMoves, MovedIs
<1>3. TracksTypeOK' /\ SessionTypeOK' /\ ChainInv' /\ EndInv'
  BY <1>0, <1>1 DEF TracksTypeOK, SessionTypeOK, ChainInv, EndInv, trackVars, workerVars, timeVars,
    Tracks, Sources
<1>4. OrderInv'
  BY <1>0, <1>1, <1>2, OrderOfThreads
<1>5. RefusalInv'
  <2>1. ASSUME lost[s], ~failure
        PROVE  \/ excused'[s] \/ at'[s] = "refused"
               \/ at'[s] = "closing" /\ verdict'[s] = "fault"
               \/ at'[s] \in {"clearing", "ended"} /\ result'[s] = "fault"
    <3>1. \/ excused[s] \/ at[s] = "refused"
          \/ at[s] = "closing" /\ verdict[s] = "fault"
          \/ at[s] \in {"clearing", "ended"} /\ result[s] = "fault"
      BY <1>0, <2>1 DEF RefusalInv
    <3> QED BY <1>2, <3>1 DEF Follows
  <2>2. ASSUME phase \in Stopping \cup Stopped PROVE \E i \in 1..Len(toStop) : toStop[i] = s
    BY <1>0, <1>2, <2>2 DEF OrderInv
  <2> QED BY <1>0, <1>1, <1>2, <2>1, <2>2 DEF RefusalInv, trackVars, workerVars, Stopping, Stopped, Sources
<1> QED BY <1>2, <1>3, <1>4, <1>5, TypesAre DEF IInv, TypeOK, SessionTypeOK

LEMMA Delivers == ASSUME IInv, NEW s \in Sources, Deliver(s) PROVE IInv'
<1>0. /\ CaptureTypeOK /\ TracksTypeOK /\ SessionTypeOK
      /\ ChainInv /\ OrderInv /\ RefusalInv /\ EndInv
      /\ now \in Nat /\ Packet \in Nat /\ s \in Tracks
  BY TypesAre, Constants DEF IInv, SessionTypeOK
<1>1. /\ at[s] \in {"capturing", "draining"} /\ UNCHANGED <<workerVars, now>>
  BY DEF Deliver, Delivering
<1>2. PICK pts \in {taken[s], now - Packet}, error \in BOOLEAN, refused \in BOOLEAN :
        /\ taken[s] <= pts /\ pts + Packet <= now
        /\ taken' = [taken EXCEPT ![s] = pts + Packet]
        /\ OnCapturedPcm(s, pts, error, refused)
        /\ IF refused THEN SinkRefuses(s) ELSE UNCHANGED captureVars
  BY DEF Deliver
<1>3. pts \in Nat /\ pts + Packet \in 0..now
  BY <1>0, <1>2 DEF SessionTypeOK
<1>4. /\ TracksTypeOK' /\ ChainInv'
      /\ \A t \in Tracks : lost'[t] => lost[t] \/ (t = s /\ refused)
  BY <1>0, <1>1, <1>2, <1>3, CapturedKeeps DEF workerVars
<1>5. SessionTypeOK'
  BY <1>0, <1>1, <1>2, <1>3 DEF SessionTypeOK, workerVars, Sources
<1>6. /\ CaptureTypeOK' /\ UNCHANGED <<result, verdict, running, stopEvent, startup, excused>>
      /\ at'[s] = IF refused THEN "refused" ELSE at[s]
      /\ \A r \in Sources : r # s => at'[r] = at[r]
  <2>1. CASE refused
    BY <1>0, <1>2, <2>1 DEF SinkRefuses, CaptureTypeOK, Places, Sources
  <2>2. CASE ~refused
    BY <1>0, <1>2, <2>2 DEF captureVars, CaptureTypeOK, Sources
  <2> QED BY <2>1, <2>2
<1>7. Alive(s)
  BY <1>1 DEF Alive
<1>8. OrderInv'
  BY <1>0, <1>1, <1>6, <1>7, OrderOfThreads
<1>9. phase \notin Stopped
  BY <1>0, <1>7 DEF OrderInv, SessionTypeOK
<1>10. RefusalInv'
  <2>1. \A r \in Sources : lost'[r] => lost[r] \/ (r = s /\ refused)
    BY <1>4, Constants
  <2>2. lost'[s] /\ ~failure => excused'[s] \/ at'[s] = "refused"
    <3>1. CASE refused
      BY <1>6, <3>1
    <3>2. CASE ~refused
      BY <1>0, <1>1, <1>6, <2>1, <3>2 DEF RefusalInv
    <3> QED BY <3>1, <3>2
  <2> QED BY <1>0, <1>1, <1>6, <2>1, <2>2 DEF RefusalInv, workerVars, Stopping, Stopped, Sources
<1>11. EndInv'
  BY <1>1, <1>9 DEF EndInv, workerVars, Stopped
<1> QED BY <1>4, <1>5, <1>6, <1>8, <1>10, <1>11, TypesAre DEF IInv, TypeOK, SessionTypeOK

-----------------------------------------------------------------------------
(* The theorems.                                                           *)

LEMMA InitEstablishes == Init => IInv
<1> SUFFICES ASSUME Init PROVE IInv
  OBVIOUS
<1>0. NSources \in Nat \ {0} /\ Capacity \in Nat
  BY Constants, TracksAssumption
<1>1. CaptureTypeOK
  BY DEF Init, CaptureInit, CaptureTypeOK, Places
<1>2. TracksTypeOK /\ ChainInv
  <2>1. \A t \in Tracks : queue[t] = <<>> /\ encoded[t] = 0 /\ next[t] = 0 /\ ~lost[t]
    BY DEF Init, TracksInit
  <2>2. next \in [Tracks -> Nat] /\ encoded \in [Tracks -> Nat] /\ lost \in [Tracks -> BOOLEAN]
        /\ queue \in [Tracks -> Seq([pts : Nat, end : Nat])]
    BY DEF Init, TracksInit
  <2> QED BY <1>0, <2>1, <2>2 DEF TracksTypeOK, ChainInv, Abut, EndOf
<1>3. SessionTypeOK
  <2>1. cur \in 1..(NSources + 1) /\ toStop \in Seq(Sources)
    BY <1>0 DEF Init
  <2>2. taken \in [Sources -> 0..now]
    BY DEF Init
  <2> QED BY <2>1, <2>2 DEF Init, SessionTypeOK, Phases
<1>4. OrderInv /\ RefusalInv /\ EndInv
  <2>1. \A s \in Sources : at[s] = "none" /\ ~stopEvent[s] /\ ~lost[s]
    BY Constants DEF Init, CaptureInit, TracksInit
  <2> QED BY <1>0, <2>1 DEF Init, OrderInv, RefusalInv, EndInv, Running, Stopping, Stopped
<1> QED BY <1>1, <1>2, <1>3, <1>4, TypesAre DEF IInv, TypeOK, SessionTypeOK

LEMMA StepKeeps == IInv /\ [Next]_vars => IInv'
<1> SUFFICES ASSUME IInv, [Next]_vars PROVE IInv'
  OBVIOUS
<1>1. CASE UNCHANGED vars
  <2>1. CaptureTypeOK' /\ TracksTypeOK' /\ SessionTypeOK'
    BY <1>1, TypesAre DEF IInv, vars, CaptureTypeOK, TracksTypeOK, SessionTypeOK, captureVars,
      trackVars, workerVars, timeVars, Sources, Tracks
  <2>2. ChainInv' /\ OrderInv' /\ RefusalInv' /\ EndInv'
    BY <1>1 DEF IInv, vars, ChainInv, OrderInv, RefusalInv, EndInv, captureVars,
      trackVars, workerVars, timeVars, Running, Stopping, Stopped, Sources, Tracks, Alive
  <2> QED BY <2>1, <2>2, TypesAre DEF IInv, TypeOK, SessionTypeOK
<1>2. CASE Worker
  BY <1>2, Starts, Ticks, Asks, Collects, Finishes DEF Worker
<1>3. CASE ClockAdvances
  BY <1>3, Clock
<1>4. ASSUME NEW s \in Sources, Deliver(s) \/ Thread(s) PROVE IInv'
  BY <1>4, Delivers, Threads
<1> QED BY <1>1, <1>2, <1>3, <1>4 DEF Next

(* The inductive invariant holds in every state of every behaviour.        *)
THEOREM Invariance == Spec => []IInv
BY InitEstablishes, StepKeeps, PTL DEF Spec

(* Every variable of the session, its tracks and its threads keeps its     *)
(* type; no queue ever holds more blocks than its capacity.                *)
THEOREM TypeCorrect == Spec => []TypeOK
<1>1. IInv => TypeOK
  BY DEF IInv
<1> QED BY <1>1, Invariance, PTL

(* Whatever the devices deliver - gaps, late packets, stamps in error -    *)
(* and whenever silence is filled in or blocks are drained, the blocks of  *)
(* a track abut, from what its encoder has taken to the end of its queue,  *)
(* as long as no block of it was refused.                                  *)
THEOREM Continuity == Spec => []TrackIsContinuous
<1>1. IInv => TrackIsContinuous
  BY DEF IInv, ChainInv, Abut, TrackIsContinuous
<1> QED BY <1>1, Invariance, PTL

(* A session that ends without a failure has joined all its threads, has   *)
(* encoded its tracks up to the moment of the stop, and a packet that was  *)
(* refused is one whose refusal a stop request or the loss of the device   *)
(* hid.                                                                    *)
THEOREM CompleteOrFailed == Spec => []NothingLostUnnoticed
<1>1. ASSUME IInv PROVE NothingLostUnnoticed
  <2> SUFFICES ASSUME phase \in {"ended", "gone"}, ~failure, NEW t \in Tracks
               PROVE  /\ ~Alive(t) /\ queue[t] = <<>>
                      /\ encoded[t] + Tolerance >= now
                      /\ lost[t] => excused[t]
    BY DEF NothingLostUnnoticed
  <2>1. /\ CaptureTypeOK /\ TracksTypeOK /\ SessionTypeOK
        /\ ChainInv /\ OrderInv /\ RefusalInv /\ EndInv /\ t \in Sources
    BY <1>1, TypesAre, Constants DEF IInv
  <2>2. toStop = <<>> /\ Len(toStop) = 0
    BY <2>1 DEF OrderInv, Stopped
  <2>3. ~Alive(t)
    BY <2>1, <2>2 DEF OrderInv, Stopped
  <2>4. queue[t] = <<>> /\ now <= next[t] + Tolerance /\ ~failed
    BY <2>1 DEF EndInv
  <2>5. next[t] = encoded[t]
    BY <2>1, <2>4 DEF ChainInv, EndOf
  <2>6. result[t] = "ok"
    BY <2>1, <2>2, <2>4 DEF RefusalInv, Stopped
  <2>7. lost[t] => excused[t]
    BY <2>1, <2>3, <2>6 DEF RefusalInv, Alive
  <2>8. now \in Nat /\ next[t] \in Nat
    BY <2>1, Constants DEF TracksTypeOK, SessionTypeOK
  <2> QED BY <2>3, <2>4, <2>5, <2>7, <2>8, TracksAssumption
<1> QED BY <1>1, Invariance, PTL

(* The recorder waits only for a thread it has asked to stop, and such a   *)
(* thread never turns back: each of its moves brings it nearer its end.    *)
THEOREM StopsAreDecisive == Spec => StopIsDecisive
<1>1. IInv /\ [Next]_vars =>
        [/\ phase = "joining" => stopEvent[Head(toStop)]
         /\ \A s \in Sources :
              (stopEvent[s] /\ at'[s] # at[s]) => Rank(at'[s]) < Rank(at[s])]_vars
  <2> SUFFICES ASSUME IInv, Next, NEW s \in Sources, stopEvent[s], at'[s] # at[s]
               PROVE  Rank(at'[s]) < Rank(at[s])
    BY DEF IInv, OrderInv
  <2>0. CaptureTypeOK /\ OrderInv /\ SessionTypeOK
    BY TypesAre DEF IInv
  <2>1. PICK r \in Sources : Thread(r) \/ Deliver(r)
    <3>1. CASE Worker
      <4>1. UNCHANGED at \/ (StartSource /\ LaunchThread(cur))
        BY <3>1 DEF Worker, StartSource, AwaitStartup, TickFills, TickDrains, TickChecks, EndRecording,
          AskToStop, RequestStop, CollectResult, AfterJoin, FinalFills, DrainQueuedBlocks,
          FlushEncoders, Destroy, captureVars
      <4>2. phase = "starting"
        BY <4>1 DEF StartSource
      <4>3. ~stopEvent[s]
        BY <2>0, <4>2 DEF OrderInv, Running
      <4> QED BY <4>3
    <3>2. CASE ClockAdvances
      BY <3>2 DEF ClockAdvances, captureVars
    <3> QED BY <3>1, <3>2 DEF Next
  <2>2. CASE Thread(r)
    <3>1. s = r /\ Follows(at[s], at'[s], stopEvent[s])
      BY <2>0, <2>2, ThreadMoves, MovedIs DEF Thread
    <3>2. stopEvent[s] = TRUE
      BY <2>0 DEF CaptureTypeOK
    <3> QED BY <3>1, <3>2, FollowsDown
  <2>3. CASE Deliver(r)
    <3>1. at[r] \in {"capturing", "draining"} /\ at' \in {at, [at EXCEPT ![r] = "refused"]}
      BY <2>3 DEF Deliver, Delivering, SinkRefuses, captureVars
    <3>2. s = r /\ at'[s] = "refused"
      BY <2>0, <3>1 DEF CaptureTypeOK
    <3> QED BY <3>1, <3>2 DEF Rank
  <2> QED BY <2>1, <2>2, <2>3
<1> QED BY <1>1, Invariance, PTL DEF Spec, StopIsDecisive

=============================================================================
