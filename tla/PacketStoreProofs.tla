-------------------------- MODULE PacketStoreProofs --------------------------
(***************************************************************************)
(* Proofs about PacketStore, for any threads, sizes, limits and bound.     *)
(***************************************************************************)
EXTENDS PacketStore, FiniteSetTheorems, WellFoundedInduction, TLAPS

(* The packets the writer thread has taken off the queue so far.           *)
Taken == Len(accepted) - queuedPackets

(* The queue holds the packets not yet taken, each once and in order.      *)
QueueInv ==
  /\ queuedPackets <= Len(accepted)
  /\ \A i \in DOMAIN work : work[i].kind = "packet" =>
       work[i].packet \in Taken + 1..Len(accepted)
  /\ \A i, j \in DOMAIN work :
       i < j /\ work[i].kind = "packet" /\ work[j].kind = "packet"
         => work[i].packet < work[j].packet
  /\ \A k \in Taken + 1..Len(accepted) :
       \E i \in DOMAIN work : work[i].kind = "packet" /\ work[i].packet = k

(* What the writer holds fits the place it is at.                          *)
HandInv ==
  /\ hand.kind = "none" <=> wpc \in {"wait", "exited"}
  /\ wpc \in {"packet", "publish"} => hand.kind = "packet" /\ hand.packet = Taken
  /\ wpc \in {"barrier", "complete"} => hand.kind \in {"flush", "close"}
  /\ wpc = "closeStream" => hand.kind = "close"
  /\ wpc = "publish" => ~ioFailed

(* Stream, file and index each hold a prefix of what the writer has taken; *)
(* while the file is healthy they lag only by the packet in hand.          *)
FileInv ==
  /\ visible <= 2 * written + 1 /\ (~ioFailed => visible <= 2 * written)
  /\ written <= Taken
  /\ ~ioFailed => written = Taken - (IF wpc = "packet" THEN 1 ELSE 0)
  /\ Len(persisted) <= written - (IF wpc = "publish" THEN 1 ELSE 0)
  /\ ~ioFailed => Len(persisted) = written - (IF wpc = "publish" THEN 1 ELSE 0)
  /\ IndexInAcceptedOrder
  /\ BoundaryPacketsSurviveCrash
  /\ wpc = "publish" /\ accepted[hand.packet].boundary => hand.packet <= Recovered

(* A fault stops acceptance, and so does the call of Close.                *)
FaultInv == (ioFailed => fault) /\ (closing \/ fault => ~accepting)

(* One thread closes at a time, until the writer thread is joined.         *)
CloserInv ==
  /\ closer # None => closing /\ ~joined /\ pc[closer] \in {"pushClose", "join"}
  /\ \A t \in Threads : pc[t] \in {"pushClose", "join"} => closer = t
  /\ closer = None /\ ~joined => ~closing
  /\ joined => wpc = "exited"

(* The writer has no close item to find yet.                               *)
CloseNotSeen ==
  /\ ~closeWhenDrained /\ wpc # "exited" /\ hand.kind # "close"
  /\ \A i \in DOMAIN work : work[i].kind # "close"

(* There is at most one close item, behind everything else.                *)
CloseItemInv ==
  /\ ~closing => CloseNotSeen
  /\ \A t \in Threads : pc[t] = "pushClose" => CloseNotSeen
  /\ \A i \in DOMAIN work : work[i].kind = "close" => i = Len(work)
  /\ wpc = "exited" \/ hand.kind = "close" => work = <<>>
  /\ ~open <=> wpc = "exited" \/ (wpc = "complete" /\ hand.kind = "close")

(* The thread named by a close item waits for it.                          *)
CloseWaitInv ==
  /\ \A i \in DOMAIN work : work[i].kind = "close" /\ work[i].waiter \in Threads
       => pc[work[i].waiter] = "join"
  /\ hand.kind = "close" /\ hand.waiter \in Threads => pc[hand.waiter] = "join"

(* A healthy file is complete once the final flush is done.                *)
Sealed == wpc \in {"closeStream", "exited"} \/ (wpc = "complete" /\ hand.kind = "close")
SealInv ==
  /\ Sealed /\ ~ioFailed => visible = 2 * Len(accepted)
  /\ \A t \in Threads : result[t] = "closed" =>
       wpc = "exited" /\ visible = 2 * Len(accepted)

(* Each flush barrier belongs to one waiting call.                         *)
WaitInv ==
  /\ \A i \in DOMAIN work : work[i].kind = "flush" =>
       /\ work[i].waiter \in Threads
       /\ pc[work[i].waiter] = "barrier" /\ completion[work[i].waiter] = "pending"
  /\ hand.kind = "flush" =>
       /\ hand.waiter \in Threads
       /\ pc[hand.waiter] = "barrier" /\ completion[hand.waiter] = "pending"
       /\ \A i \in DOMAIN work : work[i].kind = "flush" => work[i].waiter # hand.waiter
  /\ \A i, j \in DOMAIN work :
       i # j /\ work[i].kind = "flush" /\ work[j].kind = "flush"
         => work[i].waiter # work[j].waiter

(* The packets marked when a barrier was queued are before it in the queue *)
(* and, once the writer holds it, taken.                                   *)
MarkInv ==
  /\ \A t \in Threads : mark[t] <= Len(accepted)
  /\ \A i, j \in DOMAIN work :
       i < j /\ work[i].kind = "flush" /\ work[j].kind = "packet"
         => mark[work[i].waiter] < work[j].packet
  /\ hand.kind = "flush" => mark[hand.waiter] <= Taken

(* What thread t's barrier promises holds of the file and the index.       *)
Covered(t) == mark[t] <= Recovered /\ mark[t] <= Len(persisted)

CoverInv ==
  /\ wpc = "complete" /\ hand.kind = "flush" /\ streamOk => Covered(hand.waiter)
  /\ \A t \in Threads :
       /\ pc[t] = "barrier" /\ completion[t] = "ok" => Covered(t)
       /\ pc[t] = "index" => Covered(t)
       /\ result[t] = "snapshot" => mark[t] <= Recovered /\ mark[t] <= Len(snapshot[t])

IInv == TypeOK /\ QueueInv /\ HandInv /\ FileInv /\ FaultInv /\ CloserInv
          /\ CloseItemInv /\ CloseWaitInv /\ SealInv /\ WaitInv /\ MarkInv /\ CoverInv
-----------------------------------------------------------------------------
(* Sequences.                                                              *)

LEMMA AppendFacts ==
  ASSUME NEW S, NEW s \in Seq(S), NEW e \in S
  PROVE  /\ Append(s, e) \in Seq(S)
         /\ DOMAIN s = 1..Len(s)
         /\ Len(s) \in Nat /\ Len(Append(s, e)) = Len(s) + 1
         /\ DOMAIN Append(s, e) = 1..Len(s) + 1
         /\ \A i \in 1..Len(s) : Append(s, e)[i] = s[i]
         /\ Append(s, e)[Len(s) + 1] = e
  OBVIOUS

LEMMA TailFacts ==
  ASSUME NEW S, NEW s \in Seq(S), s # <<>>
  PROVE  /\ Head(s) = s[1] /\ Head(s) \in S
         /\ Len(s) \in Nat \ {0} /\ DOMAIN s = 1..Len(s)
         /\ Tail(s) \in Seq(S) /\ Len(Tail(s)) = Len(s) - 1
         /\ DOMAIN Tail(s) = 1..Len(s) - 1
         /\ \A i \in 1..Len(s) - 1 : Tail(s)[i] = s[i + 1]
  OBVIOUS

(* What a call that queues item x, and the writer that takes the oldest    *)
(* item, do to the queue.                                                  *)
Queues(x) ==
  /\ x \in Items
  /\ DOMAIN work = 1..Len(work) /\ DOMAIN work' = 1..Len(work) + 1
  /\ Len(work) \in Nat /\ Len(work') = Len(work) + 1
  /\ \A i \in 1..Len(work) : work'[i] = work[i]
  /\ work'[Len(work) + 1] = x

Takes(x) ==
  /\ x \in Items /\ x = work[1] /\ hand' = x
  /\ DOMAIN work = 1..Len(work) /\ DOMAIN work' = 1..Len(work) - 1
  /\ Len(work) \in Nat \ {0} /\ Len(work') = Len(work) - 1
  /\ \A i \in 1..Len(work) - 1 : work'[i] = work[i + 1]

LEMMA QueuesPacket ==
  ASSUME TypeOK, NEW t \in Threads, NEW p \in Packet, AppendAccepted(t, p)
  PROVE  Queues(PacketItem(Len(accepted) + 1))
<1>1. PacketItem(Len(accepted) + 1) \in Items
  BY DEF TypeOK, Items, WorkItem, PacketItem
<1> QED BY <1>1, AppendFacts DEF TypeOK, AppendAccepted, Queues

LEMMA QueuesFlush ==
  ASSUME TypeOK, NEW t \in Threads, SnapshotQueueBarrier(t)
  PROVE  Queues(FlushItem(t))
<1>1. FlushItem(t) \in Items
  BY DEF Items, WorkItem, FlushItem
<1> QED BY <1>1, AppendFacts DEF TypeOK, SnapshotQueueBarrier, Queues

LEMMA QueuesClose ==
  ASSUME TypeOK, NEW t \in Threads, CloseEnqueue(t)
  PROVE  Queues(CloseItem(t))
<1>1. CloseItem(t) \in Items
  BY DEF Items, WorkItem, CloseItem
<1> QED BY <1>1, AppendFacts DEF TypeOK, CloseEnqueue, Queues

LEMMA TakesHead ==
  ASSUME TypeOK, NEW kinds, TakeItem(kinds)
  PROVE  Takes(Head(work)) /\ hand'.kind \in kinds
BY TailFacts DEF TypeOK, TakeItem, Takes

(* The packet taken is the oldest of those not yet taken.                  *)
LEMMA TakesNextPacket ==
  ASSUME TypeOK, QueueInv, WriterTakePacket
  PROVE  /\ Takes(Head(work)) /\ work[1].kind = "packet" /\ work[1].packet = Taken + 1
         /\ Taken' = Taken + 1 /\ accepted' = accepted
<1>1. Takes(Head(work)) /\ work[1].kind = "packet"
  BY TakesHead DEF WriterTakePacket, TakeItem, Takes
<1>2. /\ queuedPackets' = queuedPackets - 1 /\ accepted' = accepted
      /\ Len(accepted) \in Nat /\ queuedPackets \in Nat
  BY DEF TypeOK, WriterTakePacket
<1>3. 1 \in DOMAIN work /\ work[1].packet \in Taken + 1..Len(accepted)
  BY <1>1 DEF QueueInv, Takes
<1>4. PICK i \in DOMAIN work : work[i].kind = "packet" /\ work[i].packet = Taken + 1
  <2>1. Taken + 1 \in Taken + 1..Len(accepted)
    BY <1>2, <1>3 DEF Taken
  <2> QED BY <2>1 DEF QueueInv
<1>5. ASSUME i # 1 PROVE work[1].packet < work[i].packet
  <2>1. 1 < i
    BY <1>1, <1>5 DEF Takes
  <2> QED BY <1>1, <1>3, <1>4, <2>1 DEF QueueInv
<1> QED BY <1>1, <1>2, <1>3, <1>4, <1>5 DEF Taken

LEMMA EmptyQueue ==
  ASSUME TypeOK, QueueInv, work = <<>>
  PROVE  Taken = Len(accepted)
<1>1. Len(accepted) \in Nat /\ queuedPackets \in Nat
  BY DEF TypeOK
<1>2. ASSUME Taken < Len(accepted) PROVE FALSE
  <2>1. Len(accepted) \in Taken + 1..Len(accepted)
    BY <1>1, <1>2 DEF Taken
  <2>2. DOMAIN work = {}
    OBVIOUS
  <2> QED BY <2>1, <2>2 DEF QueueInv
<1> QED BY <1>1, <1>2 DEF QueueInv, Taken

(* A barrier at the end of the queue does not disturb the packets in it.   *)
LEMMA QueueBarrierKept ==
  ASSUME TypeOK, QueueInv, NEW x, Queues(x), x.kind # "packet",
         UNCHANGED <<accepted, queuedPackets>>
  PROVE  QueueInv'
<1>1. \A i \in DOMAIN work' :
        work'[i].kind = "packet" => i \in DOMAIN work /\ work'[i] = work[i]
  BY DEF Queues
<1>2. Taken' = Taken /\ Len(accepted') = Len(accepted)
  BY DEF Taken
<1>3. ASSUME NEW k \in Taken + 1..Len(accepted)
      PROVE  \E i \in DOMAIN work' : work'[i].kind = "packet" /\ work'[i].packet = k
  <2>1. PICK i \in DOMAIN work : work[i].kind = "packet" /\ work[i].packet = k
    BY <1>3 DEF QueueInv
  <2>2. i \in DOMAIN work' /\ work'[i] = work[i]
    BY DEF Queues
  <2> QED BY <2>1, <2>2
<1> QED BY <1>1, <1>2, <1>3 DEF QueueInv
-----------------------------------------------------------------------------
(* The file.                                                               *)

LEMMA HalfIsNatural ==
  ASSUME NEW x \in Nat
  PROVE  x \div 2 \in Nat
OBVIOUS

LEMMA HalfGrows ==
  ASSUME NEW x \in Nat, NEW y \in Nat, x <= y
  PROVE  x \div 2 \in Nat /\ x \div 2 <= y \div 2 /\ (2 * x) \div 2 = x
OBVIOUS

LEMMA RecoveredGrows ==
  ASSUME TypeOK, visible' \in Nat, visible <= visible'
  PROVE  Recovered \in Nat /\ Recovered' \in Nat /\ Recovered <= Recovered'
<1>1. visible \in Nat
  BY DEF TypeOK
<1>2. visible \div 2 \in Nat /\ visible \div 2 <= visible' \div 2
  BY <1>1, HalfGrows
<1>3. visible' \div 2 \in Nat
  BY HalfIsNatural
<1> QED BY <1>2, <1>3 DEF Recovered

(* As long as the index is untouched, more of the stream reaching the file *)
(* keeps what is said of the two.                                          *)
LEMMA PrefixKept ==
  ASSUME TypeOK, FileInv, UNCHANGED <<accepted, persisted>>,
         visible' \in Nat, visible <= visible'
  PROVE  IndexInAcceptedOrder' /\ BoundaryPacketsSurviveCrash'
<1>1. IndexInAcceptedOrder'
  BY DEF FileInv, IndexInAcceptedOrder
<1>2. \A i \in DOMAIN persisted : persisted[i] \in Nat
  BY DEF TypeOK
<1> QED BY <1>1, <1>2, RecoveredGrows DEF FileInv, BoundaryPacketsSurviveCrash

(* The writer fails at the file: it may have added to the stream, not to   *)
(* the index.                                                              *)
LEMMA FileFailed ==
  ASSUME TypeOK, FileInv, UNCHANGED <<accepted, persisted>>, Taken' = Taken,
         visible' \in Nat, visible <= visible', visible' <= 2 * written' + 1,
         wpc # "publish", wpc' # "publish", ioFailed',
         written' \in Nat, written <= written', written' <= Taken
  PROVE  FileInv'
<1>1. visible' <= 2 * written' + 1 /\ (~ioFailed' => visible' <= 2 * written')
  OBVIOUS
<1>2. written' <= Taken' /\ (~ioFailed => written = Taken - (IF wpc = "packet" THEN 1 ELSE 0))'
  OBVIOUS
<1>3. (~ioFailed => Len(persisted) = written - (IF wpc = "publish" THEN 1 ELSE 0))'
  OBVIOUS
<1>4. (Len(persisted) <= written - (IF wpc = "publish" THEN 1 ELSE 0))'
  BY DEF FileInv, TypeOK
<1>5. (wpc = "publish" /\ accepted[hand.packet].boundary => hand.packet <= Recovered)'
  OBVIOUS
<1> QED BY <1>1, <1>2, <1>3, <1>4, <1>5, PrefixKept DEF FileInv
LEMMA HalfBounded ==
  ASSUME NEW v \in Nat, NEW w \in Nat, NEW q \in Nat, NEW n \in Nat,
         v <= 2 * w + 1, w <= n - q
  PROVE  v \div 2 <= n
OBVIOUS

-----------------------------------------------------------------------------
(* The steps.                                                               *)

(* Every step keeps TypeOK: types.                                          *)
LEMMA TypeOKStep ==
  ASSUME TypeOK, QueueInv, HandInv, [Next]_vars
  PROVE  TypeOK'
<1> USE SizesAssumption, LimitsAssumption, NoneAssumption
<1> USE DEF queueVars, statusVars, faultVars, fileVars, writerVars, exportVars,
             callVars
<1>1. ASSUME NEW t \in Threads, NEW p \in Packet, AppendAccepted(t, p) PROVE TypeOK'
  BY <1>1 DEF TypeOK, QueueInv, HandInv, Taken, WriterLocations, CallLocations,
      Items, Packet, WorkItem, PacketItem, FlushItem, CloseItem, NoItem,
      AppendAccepted, Return
<1>2. ASSUME NEW t \in Threads, NEW p \in Packet, AppendOverflow(t, p) PROVE TypeOK'
  BY <1>2 DEF TypeOK, QueueInv, HandInv, Taken, WriterLocations, CallLocations,
      Items, Packet, WorkItem, PacketItem, FlushItem, CloseItem, NoItem,
      AppendOverflow, LatchFault, Return
<1>3. ASSUME NEW t \in Threads, AppendRefused(t) PROVE TypeOK'
  BY <1>3 DEF TypeOK, QueueInv, HandInv, Taken, WriterLocations, CallLocations,
      Items, Packet, WorkItem, PacketItem, FlushItem, CloseItem, NoItem,
      AppendRefused, Return
<1>4. ASSUME NEW t \in Threads, OutOfMemory(t) PROVE TypeOK'
  <2> USE <1>4 DEF OutOfMemory, LatchFault, Return
  <2>1. visible' \in Nat /\ written' \in Nat
    BY DEF TypeOK
  <2>2. fault' \in BOOLEAN /\ ioFailed' \in BOOLEAN /\ accepting' \in BOOLEAN
    BY DEF TypeOK
  <2> QED BY <2>1, <2>2 DEF TypeOK, WriterLocations, CallLocations, Items
<1>5. ASSUME NEW t \in Threads, SnapshotQueueBarrier(t) PROVE TypeOK'
  BY <1>5 DEF TypeOK, QueueInv, HandInv, Taken, WriterLocations, CallLocations,
      Items, Packet, WorkItem, PacketItem, FlushItem, CloseItem, NoItem,
      SnapshotQueueBarrier, OpenSnapshot, Begin
<1>6. ASSUME NEW t \in Threads, SnapshotAfterClose(t) PROVE TypeOK'
  BY <1>6 DEF TypeOK, QueueInv, HandInv, Taken, WriterLocations, CallLocations,
      Items, Packet, WorkItem, PacketItem, FlushItem, CloseItem, NoItem,
      SnapshotAfterClose, OpenSnapshot, Begin
<1>7. ASSUME NEW t \in Threads, SnapshotRefused(t) PROVE TypeOK'
  BY <1>7 DEF TypeOK, QueueInv, HandInv, Taken, WriterLocations, CallLocations,
      Items, Packet, WorkItem, PacketItem, FlushItem, CloseItem, NoItem,
      SnapshotRefused, OpenSnapshot, Return
<1>8. ASSUME NEW t \in Threads, CloseBegin(t) PROVE TypeOK'
  BY <1>8 DEF TypeOK, QueueInv, HandInv, Taken, WriterLocations, CallLocations,
      Items, Packet, WorkItem, PacketItem, FlushItem, CloseItem, NoItem,
      CloseBegin, Begin
<1>9. ASSUME NEW t \in Threads, CloseAgain(t) PROVE TypeOK'
  <2>1. result' \in [Threads -> {"none", "appended", "failed", "snapshot", "closed"}]
    BY <1>9 DEF TypeOK, CloseAgain, Return
  <2> QED BY <1>9, <2>1 DEF TypeOK, CallLocations, CloseAgain, Return
<1>10. ASSUME NEW t \in Threads, SnapshotBarrierDone(t) PROVE TypeOK'
  BY <1>10 DEF TypeOK, QueueInv, HandInv, Taken, WriterLocations,
      CallLocations, Items, Packet, WorkItem, PacketItem, FlushItem, CloseItem,
      NoItem, SnapshotBarrierDone, Begin
<1>11. ASSUME NEW t \in Threads, SnapshotBarrierFailed(t) PROVE TypeOK'
  BY <1>11 DEF TypeOK, QueueInv, HandInv, Taken, WriterLocations,
      CallLocations, Items, Packet, WorkItem, PacketItem, FlushItem, CloseItem,
      NoItem, SnapshotBarrierFailed, Return
<1>12. ASSUME NEW t \in Threads, SnapshotTakeIndex(t) PROVE TypeOK'
  BY <1>12 DEF TypeOK, QueueInv, HandInv, Taken, WriterLocations,
      CallLocations, Items, Packet, WorkItem, PacketItem, FlushItem, CloseItem,
      NoItem, SnapshotTakeIndex, Return
<1>13. ASSUME NEW t \in Threads, CloseEnqueue(t) PROVE TypeOK'
  BY <1>13 DEF TypeOK, QueueInv, HandInv, Taken, WriterLocations,
      CallLocations, Items, Packet, WorkItem, PacketItem, FlushItem, CloseItem,
      NoItem, CloseEnqueue, Begin
<1>14. ASSUME NEW t \in Threads, CloseOutOfMemory(t) PROVE TypeOK'
  BY <1>14 DEF TypeOK, QueueInv, HandInv, Taken, WriterLocations,
      CallLocations, Items, Packet, WorkItem, PacketItem, FlushItem, CloseItem,
      NoItem, CloseOutOfMemory, LatchFault, Begin
<1>15. ASSUME NEW t \in Threads, CloseJoin(t) PROVE TypeOK'
  BY <1>15 DEF TypeOK, QueueInv, HandInv, Taken, WriterLocations,
      CallLocations, Items, Packet, WorkItem, PacketItem, FlushItem, CloseItem,
      NoItem, CloseJoin, Return
<1>16. ASSUME WriterTakePacket PROVE TypeOK'
  <2>1. work' \in Seq(Items) /\ hand' \in Items
    BY <1>16 DEF TypeOK, TakeItem, WriterTakePacket
  <2>2. Head(work).packet \in Taken + 1..Len(accepted)
    BY <1>16 DEF TypeOK, QueueInv, TakeItem, WriterTakePacket
  <2>3. queuedPackets' \in Nat /\ queuedBytes' \in Int
    BY <1>16, <2>2, SizesAssumption DEF TypeOK, Packet, Taken, QueueInv,
      WriterTakePacket
  <2> QED BY <1>16, <2>1, <2>3 DEF TypeOK, WriterLocations, WriterTakePacket,
      Goto
<1>17. ASSUME WriterTakeBarrier PROVE TypeOK'
  <2>1. work' \in Seq(Items) /\ hand' \in Items
    BY <1>17 DEF TypeOK, TakeItem, WriterTakeBarrier
  <2> QED BY <1>17, <2>1 DEF TypeOK, WriterLocations, WriterTakeBarrier, Goto
<1>18. ASSUME WriterDrained PROVE TypeOK'
  BY <1>18 DEF TypeOK, QueueInv, HandInv, Taken, WriterLocations,
      CallLocations, Items, Packet, WorkItem, PacketItem, FlushItem, CloseItem,
      NoItem, WriterDrained, Goto
<1>19. ASSUME WriterSkip PROVE TypeOK'
  BY <1>19 DEF TypeOK, QueueInv, HandInv, Taken, WriterLocations,
      CallLocations, Items, Packet, WorkItem, PacketItem, FlushItem, CloseItem,
      NoItem, WriterSkip, NextItem, Goto
<1>20. ASSUME WriterWrite PROVE TypeOK'
  BY <1>20 DEF TypeOK, QueueInv, HandInv, Taken, WriterLocations,
      CallLocations, Items, Packet, WorkItem, PacketItem, FlushItem, CloseItem,
      NoItem, WriterWrite, PutInStream, VisibleAfterWrite, Goto
<1>21. ASSUME WriterWriteFails PROVE TypeOK'
  <2> USE <1>21 DEF WriterWriteFails, LatchFault, NextItem, Goto
  <2>1. visible' \in Nat /\ written' \in Nat
    BY DEF TypeOK
  <2>2. fault' \in BOOLEAN /\ ioFailed' \in BOOLEAN /\ accepting' \in BOOLEAN
    BY DEF TypeOK
  <2> QED BY <2>1, <2>2 DEF TypeOK, WriterLocations, CallLocations, Items
<1>22. ASSUME WriterBoundaryFails PROVE TypeOK'
  <2> USE <1>22 DEF WriterBoundaryFails, LatchFault, NextItem, Goto
  <2>1. visible' \in Nat /\ written' \in Nat
    BY DEF TypeOK
  <2>2. fault' \in BOOLEAN /\ ioFailed' \in BOOLEAN /\ accepting' \in BOOLEAN
    BY DEF TypeOK
  <2> QED BY <2>1, <2>2 DEF TypeOK, WriterLocations, CallLocations, Items
<1>23. ASSUME WriterPublish PROVE TypeOK'
  BY <1>23 DEF TypeOK, QueueInv, HandInv, Taken, WriterLocations,
      CallLocations, Items, Packet, WorkItem, PacketItem, FlushItem, CloseItem,
      NoItem, WriterPublish, NextItem, Goto
<1>24. ASSUME WriterFlush PROVE TypeOK'
  BY <1>24 DEF TypeOK, QueueInv, HandInv, Taken, WriterLocations,
      CallLocations, Items, Packet, WorkItem, PacketItem, FlushItem, CloseItem,
      NoItem, WriterFlush, AfterFlush, Goto
<1>25. ASSUME WriterFlushFails PROVE TypeOK'
  <2> USE <1>25 DEF WriterFlushFails, AfterFlush, LatchFault, Goto
  <2>1. visible' \in Nat /\ written' \in Nat
    BY DEF TypeOK
  <2>2. fault' \in BOOLEAN /\ ioFailed' \in BOOLEAN /\ accepting' \in BOOLEAN
    BY DEF TypeOK
  <2> QED BY <2>1, <2>2 DEF TypeOK, WriterLocations, CallLocations, Items
<1>26. ASSUME WriterFlushSkipped PROVE TypeOK'
  BY <1>26 DEF TypeOK, QueueInv, HandInv, Taken, WriterLocations,
      CallLocations, Items, Packet, WorkItem, PacketItem, FlushItem, CloseItem,
      NoItem, WriterFlushSkipped, AfterFlush, Goto
<1>27. ASSUME WriterCloseStream PROVE TypeOK'
  <2>1. visible' \in Nat
    BY <1>27 DEF TypeOK, WriterCloseStream, CloseFile
  <2> QED BY <1>27, <2>1 DEF TypeOK, WriterLocations, WriterCloseStream,
      CloseFile, Goto
<1>28. ASSUME WriterCloseFails PROVE TypeOK'
  <2> USE <1>28 DEF WriterCloseFails, CloseFile, LatchFault, Goto
  <2>1. visible' \in Nat /\ written' \in Nat
    BY DEF TypeOK
  <2>2. fault' \in BOOLEAN /\ ioFailed' \in BOOLEAN /\ accepting' \in BOOLEAN
    BY DEF TypeOK
  <2> QED BY <2>1, <2>2 DEF TypeOK, WriterLocations, CallLocations, Items
<1>29. ASSUME WriterComplete PROVE TypeOK'
  BY <1>29 DEF TypeOK, QueueInv, HandInv, Taken, WriterLocations,
      CallLocations, Items, Packet, WorkItem, PacketItem, FlushItem, CloseItem,
      NoItem, WriterComplete, Goto
<1>30. CASE UNCHANGED vars
  BY <1>30 DEF TypeOK, QueueInv, HandInv, Taken, WriterLocations,
      CallLocations, Items, Packet, WorkItem, PacketItem, FlushItem, CloseItem,
      NoItem, vars
<1> QED BY <1>1, <1>2, <1>3, <1>4, <1>5, <1>6, <1>7, <1>8, <1>9, <1>10,
     <1>11, <1>12, <1>13, <1>14, <1>15, <1>16, <1>17, <1>18, <1>19, <1>20,
     <1>21, <1>22, <1>23, <1>24, <1>25, <1>26, <1>27, <1>28, <1>29, <1>30 DEF
     Next, Writer, Call, Proceed

(* Every step keeps QueueInv: the queue.                                    *)
LEMMA QueueInvStep ==
  ASSUME TypeOK, QueueInv, [Next]_vars
  PROVE  QueueInv'
<1> USE SizesAssumption, LimitsAssumption, NoneAssumption
<1> USE DEF queueVars, statusVars, faultVars, fileVars, writerVars, exportVars,
             callVars
<1>1. ASSUME NEW t \in Threads, NEW p \in Packet, AppendAccepted(t, p) PROVE QueueInv'
  <2> DEFINE n == Len(accepted) + 1
  <2>1. Queues(PacketItem(n))
    BY <1>1, QueuesPacket
  <2>2. Taken' = Taken /\ Len(accepted') = n /\ n \in Nat /\ Taken \in Int /\ queuedPackets' <= n
    <3>1. accepted \in Seq(Packet) /\ queuedPackets \in Nat /\ queuedPackets <= Len(accepted)
      BY DEF TypeOK, QueueInv
    <3>2. Len(accepted) \in Nat /\ Len(accepted') = n
      BY <1>1, <3>1, AppendFacts DEF AppendAccepted
    <3>3. queuedPackets' = queuedPackets + 1
      BY <1>1 DEF AppendAccepted
    <3> QED BY <3>1, <3>2, <3>3 DEF Taken
  <2>3. \A i \in DOMAIN work' : (i \in DOMAIN work /\ work'[i] = work[i])
                                   \/ (i = Len(work) + 1 /\ work'[i] = PacketItem(n))
    BY <2>1 DEF Queues
  <2>4. Taken + 1 <= n
    BY <2>2 DEF Taken, TypeOK
  <2>5. \A i \in DOMAIN work' : work'[i].kind = "packet" => work'[i].packet \in Taken + 1..n
    BY <2>2, <2>3, <2>4 DEF QueueInv, PacketItem, WorkItem
  <2>6. \A i, j \in DOMAIN work' :
          i < j /\ work'[i].kind = "packet" /\ work'[j].kind = "packet"
            => work'[i].packet < work'[j].packet
    BY <2>1, <2>2, <2>3 DEF QueueInv, PacketItem, WorkItem, Queues
  <2>7. ASSUME NEW k \in Taken + 1..n
        PROVE  \E i \in DOMAIN work' : work'[i].kind = "packet" /\ work'[i].packet = k
    <3>1. CASE k = n
      BY <2>1, <3>1 DEF Queues, PacketItem, WorkItem
    <3>2. CASE k # n
      <4>1. PICK i \in DOMAIN work : work[i].kind = "packet" /\ work[i].packet = k
        BY <2>2, <2>7, <3>2 DEF QueueInv
      <4>2. i \in DOMAIN work' /\ work'[i] = work[i]
        BY <2>1 DEF Queues
      <4> QED BY <4>1, <4>2
    <3> QED BY <3>1, <3>2
  <2> QED BY <2>2, <2>5, <2>6, <2>7 DEF QueueInv
<1>2. ASSUME NEW t \in Threads, NEW p \in Packet, AppendOverflow(t, p) PROVE QueueInv'
  BY <1>2 DEF TypeOK, QueueInv, Taken, Items, Packet, WorkItem, PacketItem,
      FlushItem, CloseItem, NoItem, AppendOverflow, LatchFault, Return
<1>3. ASSUME NEW t \in Threads, AppendRefused(t) PROVE QueueInv'
  BY <1>3 DEF TypeOK, QueueInv, Taken, Items, Packet, WorkItem, PacketItem,
      FlushItem, CloseItem, NoItem, AppendRefused, Return
<1>4. ASSUME NEW t \in Threads, OutOfMemory(t) PROVE QueueInv'
  BY <1>4 DEF TypeOK, QueueInv, Taken, Items, Packet, WorkItem, PacketItem,
      FlushItem, CloseItem, NoItem, OutOfMemory, LatchFault, Return
<1>5. ASSUME NEW t \in Threads, SnapshotQueueBarrier(t) PROVE QueueInv'
  <2>1. Queues(FlushItem(t)) /\ FlushItem(t).kind # "packet"
    BY <1>5, QueuesFlush DEF FlushItem, WorkItem
  <2>2. UNCHANGED <<accepted, queuedPackets>>
    BY <1>5 DEF SnapshotQueueBarrier
  <2> QED BY <2>1, <2>2, QueueBarrierKept
<1>6. ASSUME NEW t \in Threads, SnapshotAfterClose(t) PROVE QueueInv'
  BY <1>6 DEF TypeOK, QueueInv, Taken, Items, Packet, WorkItem, PacketItem,
      FlushItem, CloseItem, NoItem, SnapshotAfterClose, OpenSnapshot, Begin
<1>7. ASSUME NEW t \in Threads, SnapshotRefused(t) PROVE QueueInv'
  BY <1>7 DEF TypeOK, QueueInv, Taken, Items, Packet, WorkItem, PacketItem,
      FlushItem, CloseItem, NoItem, SnapshotRefused, OpenSnapshot, Return
<1>8. ASSUME NEW t \in Threads, CloseBegin(t) PROVE QueueInv'
  BY <1>8 DEF TypeOK, QueueInv, Taken, Items, Packet, WorkItem, PacketItem,
      FlushItem, CloseItem, NoItem, CloseBegin, Begin
<1>9. ASSUME NEW t \in Threads, CloseAgain(t) PROVE QueueInv'
  BY <1>9 DEF TypeOK, QueueInv, Taken, Items, Packet, WorkItem, PacketItem,
      FlushItem, CloseItem, NoItem, CloseAgain, Return
<1>10. ASSUME NEW t \in Threads, SnapshotBarrierDone(t) PROVE QueueInv'
  BY <1>10 DEF TypeOK, QueueInv, Taken, Items, Packet, WorkItem, PacketItem,
      FlushItem, CloseItem, NoItem, SnapshotBarrierDone, Begin
<1>11. ASSUME NEW t \in Threads, SnapshotBarrierFailed(t) PROVE QueueInv'
  BY <1>11 DEF TypeOK, QueueInv, Taken, Items, Packet, WorkItem, PacketItem,
      FlushItem, CloseItem, NoItem, SnapshotBarrierFailed, Return
<1>12. ASSUME NEW t \in Threads, SnapshotTakeIndex(t) PROVE QueueInv'
  BY <1>12 DEF TypeOK, QueueInv, Taken, Items, Packet, WorkItem, PacketItem,
      FlushItem, CloseItem, NoItem, SnapshotTakeIndex, Return
<1>13. ASSUME NEW t \in Threads, CloseEnqueue(t) PROVE QueueInv'
  <2>1. Queues(CloseItem(t)) /\ CloseItem(t).kind # "packet"
    BY <1>13, QueuesClose DEF CloseItem, WorkItem
  <2>2. UNCHANGED <<accepted, queuedPackets>>
    BY <1>13 DEF CloseEnqueue
  <2> QED BY <2>1, <2>2, QueueBarrierKept
<1>14. ASSUME NEW t \in Threads, CloseOutOfMemory(t) PROVE QueueInv'
  BY <1>14 DEF TypeOK, QueueInv, Taken, Items, Packet, WorkItem, PacketItem,
      FlushItem, CloseItem, NoItem, CloseOutOfMemory, LatchFault, Begin
<1>15. ASSUME NEW t \in Threads, CloseJoin(t) PROVE QueueInv'
  BY <1>15 DEF TypeOK, QueueInv, Taken, Items, Packet, WorkItem, PacketItem,
      FlushItem, CloseItem, NoItem, CloseJoin, Return
<1>16. ASSUME WriterTakePacket PROVE QueueInv'
  <2>1. Takes(Head(work)) /\ work[1].kind = "packet" /\ work[1].packet = Taken + 1
    BY <1>16, TakesNextPacket
  <2>2. /\ queuedPackets' = queuedPackets - 1 /\ accepted' = accepted
        /\ Len(accepted) \in Nat /\ queuedPackets \in Nat
    BY <1>16 DEF TypeOK, WriterTakePacket
  <2>4. \A i \in DOMAIN work' : i + 1 \in DOMAIN work /\ i \in Nat /\ work'[i] = work[i + 1]
    BY <2>1 DEF Takes
  <2>5. Taken' = Taken + 1 /\ Taken \in Int /\ queuedPackets' <= Len(accepted')
    BY <2>2 DEF Taken, QueueInv
  <2>6. \A i \in DOMAIN work' : work'[i].kind = "packet" => work'[i].packet > Taken + 1
    BY <2>1, <2>4 DEF QueueInv, Takes
  <2>7. ASSUME NEW k \in Taken' + 1..Len(accepted')
        PROVE  \E i \in DOMAIN work' : work'[i].kind = "packet" /\ work'[i].packet = k
    <3>1. PICK i \in DOMAIN work : work[i].kind = "packet" /\ work[i].packet = k
      BY <2>2, <2>5, <2>7 DEF QueueInv
    <3>2. i # 1
      BY <2>1, <2>5, <2>7, <3>1
    <3>3. i - 1 \in DOMAIN work' /\ work'[i - 1] = work[i]
      BY <2>1, <3>2 DEF Takes
    <3> QED BY <3>1, <3>3
  <2>8. \A i \in DOMAIN work' : work'[i].kind = "packet" =>
          work'[i].packet \in Taken' + 1..Len(accepted')
    BY <2>2, <2>4, <2>5, <2>6 DEF QueueInv
  <2> QED BY <2>4, <2>5, <2>7, <2>8 DEF QueueInv
<1>17. ASSUME WriterTakeBarrier PROVE QueueInv'
  <2>1. Takes(Head(work)) /\ work[1].kind # "packet"
    BY <1>17, TakesHead DEF WriterTakeBarrier, TakeItem, Takes
  <2>2. UNCHANGED <<accepted, queuedPackets>> /\ Taken' = Taken
    BY <1>17 DEF WriterTakeBarrier, Taken
  <2>3. \A i \in DOMAIN work' : i + 1 \in DOMAIN work /\ i \in Nat /\ work'[i] = work[i + 1]
    BY <2>1 DEF Takes
  <2>4. ASSUME NEW k \in Taken + 1..Len(accepted)
        PROVE  \E i \in DOMAIN work' : work'[i].kind = "packet" /\ work'[i].packet = k
    <3>1. PICK i \in DOMAIN work : work[i].kind = "packet" /\ work[i].packet = k
      BY <2>4 DEF QueueInv
    <3>2. i - 1 \in DOMAIN work' /\ work'[i - 1] = work[i]
      BY <2>1, <3>1 DEF Takes
    <3> QED BY <3>1, <3>2
  <2> QED BY <2>2, <2>3, <2>4 DEF QueueInv
<1>18. ASSUME WriterDrained PROVE QueueInv'
  BY <1>18 DEF TypeOK, QueueInv, Taken, Items, Packet, WorkItem, PacketItem,
      FlushItem, CloseItem, NoItem, WriterDrained, Goto
<1>19. ASSUME WriterSkip PROVE QueueInv'
  BY <1>19 DEF TypeOK, QueueInv, Taken, Items, Packet, WorkItem, PacketItem,
      FlushItem, CloseItem, NoItem, WriterSkip, NextItem, Goto
<1>20. ASSUME WriterWrite PROVE QueueInv'
  BY <1>20 DEF TypeOK, QueueInv, Taken, Items, Packet, WorkItem, PacketItem,
      FlushItem, CloseItem, NoItem, WriterWrite, PutInStream,
      VisibleAfterWrite, Goto
<1>21. ASSUME WriterWriteFails PROVE QueueInv'
  BY <1>21 DEF TypeOK, QueueInv, Taken, Items, Packet, WorkItem, PacketItem,
      FlushItem, CloseItem, NoItem, WriterWriteFails, LatchFault, NextItem,
      Goto
<1>22. ASSUME WriterBoundaryFails PROVE QueueInv'
  BY <1>22 DEF TypeOK, QueueInv, Taken, Items, Packet, WorkItem, PacketItem,
      FlushItem, CloseItem, NoItem, WriterBoundaryFails, LatchFault, NextItem,
      Goto
<1>23. ASSUME WriterPublish PROVE QueueInv'
  BY <1>23 DEF TypeOK, QueueInv, Taken, Items, Packet, WorkItem, PacketItem,
      FlushItem, CloseItem, NoItem, WriterPublish, NextItem, Goto
<1>24. ASSUME WriterFlush PROVE QueueInv'
  BY <1>24 DEF TypeOK, QueueInv, Taken, Items, Packet, WorkItem, PacketItem,
      FlushItem, CloseItem, NoItem, WriterFlush, AfterFlush, Goto
<1>25. ASSUME WriterFlushFails PROVE QueueInv'
  BY <1>25 DEF TypeOK, QueueInv, Taken, Items, Packet, WorkItem, PacketItem,
      FlushItem, CloseItem, NoItem, WriterFlushFails, AfterFlush, LatchFault,
      Goto
<1>26. ASSUME WriterFlushSkipped PROVE QueueInv'
  BY <1>26 DEF TypeOK, QueueInv, Taken, Items, Packet, WorkItem, PacketItem,
      FlushItem, CloseItem, NoItem, WriterFlushSkipped, AfterFlush, Goto
<1>27. ASSUME WriterCloseStream PROVE QueueInv'
  BY <1>27 DEF TypeOK, QueueInv, Taken, Items, Packet, WorkItem, PacketItem,
      FlushItem, CloseItem, NoItem, WriterCloseStream, CloseFile, Goto
<1>28. ASSUME WriterCloseFails PROVE QueueInv'
  BY <1>28 DEF TypeOK, QueueInv, Taken, Items, Packet, WorkItem, PacketItem,
      FlushItem, CloseItem, NoItem, WriterCloseFails, CloseFile, LatchFault,
      Goto
<1>29. ASSUME WriterComplete PROVE QueueInv'
  BY <1>29 DEF TypeOK, QueueInv, Taken, Items, Packet, WorkItem, PacketItem,
      FlushItem, CloseItem, NoItem, WriterComplete, Goto
<1>30. CASE UNCHANGED vars
  BY <1>30 DEF TypeOK, QueueInv, Taken, Items, Packet, WorkItem, PacketItem,
      FlushItem, CloseItem, NoItem, vars
<1> QED BY <1>1, <1>2, <1>3, <1>4, <1>5, <1>6, <1>7, <1>8, <1>9, <1>10,
     <1>11, <1>12, <1>13, <1>14, <1>15, <1>16, <1>17, <1>18, <1>19, <1>20,
     <1>21, <1>22, <1>23, <1>24, <1>25, <1>26, <1>27, <1>28, <1>29, <1>30 DEF
     Next, Writer, Call, Proceed

(* Every step keeps HandInv: the item in hand.                              *)
LEMMA HandInvStep ==
  ASSUME TypeOK, QueueInv, HandInv, [Next]_vars
  PROVE  HandInv'
<1> USE SizesAssumption, LimitsAssumption, NoneAssumption
<1> USE DEF queueVars, statusVars, faultVars, fileVars, writerVars, exportVars,
             callVars
<1>1. ASSUME NEW t \in Threads, NEW p \in Packet, AppendAccepted(t, p) PROVE HandInv'
  BY <1>1 DEF TypeOK, QueueInv, HandInv, Taken, Items, WorkItem, PacketItem,
      FlushItem, CloseItem, NoItem, AppendAccepted, Return
<1>2. ASSUME NEW t \in Threads, NEW p \in Packet, AppendOverflow(t, p) PROVE HandInv'
  BY <1>2 DEF TypeOK, QueueInv, HandInv, Taken, Items, WorkItem, PacketItem,
      FlushItem, CloseItem, NoItem, AppendOverflow, LatchFault, Return
<1>3. ASSUME NEW t \in Threads, AppendRefused(t) PROVE HandInv'
  BY <1>3 DEF TypeOK, QueueInv, HandInv, Taken, Items, WorkItem, PacketItem,
      FlushItem, CloseItem, NoItem, AppendRefused, Return
<1>4. ASSUME NEW t \in Threads, OutOfMemory(t) PROVE HandInv'
  BY <1>4 DEF TypeOK, QueueInv, HandInv, Taken, Items, WorkItem, PacketItem,
      FlushItem, CloseItem, NoItem, OutOfMemory, LatchFault, Return
<1>5. ASSUME NEW t \in Threads, SnapshotQueueBarrier(t) PROVE HandInv'
  BY <1>5 DEF TypeOK, QueueInv, HandInv, Taken, Items, WorkItem, PacketItem,
      FlushItem, CloseItem, NoItem, SnapshotQueueBarrier, OpenSnapshot, Begin
<1>6. ASSUME NEW t \in Threads, SnapshotAfterClose(t) PROVE HandInv'
  BY <1>6 DEF TypeOK, QueueInv, HandInv, Taken, Items, WorkItem, PacketItem,
      FlushItem, CloseItem, NoItem, SnapshotAfterClose, OpenSnapshot, Begin
<1>7. ASSUME NEW t \in Threads, SnapshotRefused(t) PROVE HandInv'
  BY <1>7 DEF TypeOK, QueueInv, HandInv, Taken, Items, WorkItem, PacketItem,
      FlushItem, CloseItem, NoItem, SnapshotRefused, OpenSnapshot, Return
<1>8. ASSUME NEW t \in Threads, CloseBegin(t) PROVE HandInv'
  BY <1>8 DEF TypeOK, QueueInv, HandInv, Taken, Items, WorkItem, PacketItem,
      FlushItem, CloseItem, NoItem, CloseBegin, Begin
<1>9. ASSUME NEW t \in Threads, CloseAgain(t) PROVE HandInv'
  BY <1>9 DEF TypeOK, QueueInv, HandInv, Taken, Items, WorkItem, PacketItem,
      FlushItem, CloseItem, NoItem, CloseAgain, Return
<1>10. ASSUME NEW t \in Threads, SnapshotBarrierDone(t) PROVE HandInv'
  BY <1>10 DEF TypeOK, QueueInv, HandInv, Taken, Items, WorkItem, PacketItem,
      FlushItem, CloseItem, NoItem, SnapshotBarrierDone, Begin
<1>11. ASSUME NEW t \in Threads, SnapshotBarrierFailed(t) PROVE HandInv'
  BY <1>11 DEF TypeOK, QueueInv, HandInv, Taken, Items, WorkItem, PacketItem,
      FlushItem, CloseItem, NoItem, SnapshotBarrierFailed, Return
<1>12. ASSUME NEW t \in Threads, SnapshotTakeIndex(t) PROVE HandInv'
  BY <1>12 DEF TypeOK, QueueInv, HandInv, Taken, Items, WorkItem, PacketItem,
      FlushItem, CloseItem, NoItem, SnapshotTakeIndex, Return
<1>13. ASSUME NEW t \in Threads, CloseEnqueue(t) PROVE HandInv'
  BY <1>13 DEF TypeOK, QueueInv, HandInv, Taken, Items, WorkItem, PacketItem,
      FlushItem, CloseItem, NoItem, CloseEnqueue, Begin
<1>14. ASSUME NEW t \in Threads, CloseOutOfMemory(t) PROVE HandInv'
  BY <1>14 DEF TypeOK, QueueInv, HandInv, Taken, Items, WorkItem, PacketItem,
      FlushItem, CloseItem, NoItem, CloseOutOfMemory, LatchFault, Begin
<1>15. ASSUME NEW t \in Threads, CloseJoin(t) PROVE HandInv'
  BY <1>15 DEF TypeOK, QueueInv, HandInv, Taken, Items, WorkItem, PacketItem,
      FlushItem, CloseItem, NoItem, CloseJoin, Return
<1>16. ASSUME WriterTakePacket PROVE HandInv'
  <2>1. Takes(Head(work)) /\ work[1].kind = "packet"
    BY <1>16, TakesHead DEF WriterTakePacket, TakeItem, Takes
  <2>2. work[1].packet = Taken' /\ hand' = work[1]
    BY <1>16, TakesNextPacket DEF Takes
  <2> QED BY <1>16, <2>1, <2>2 DEF HandInv, WriterTakePacket, Goto
<1>17. ASSUME WriterTakeBarrier PROVE HandInv'
  <2>1. hand' \in Items /\ hand'.kind \in {"flush", "close"}
    BY <1>17, TakesHead DEF WriterTakeBarrier, Takes
  <2> QED BY <1>17, <2>1 DEF HandInv, WriterTakeBarrier, Goto
<1>18. ASSUME WriterDrained PROVE HandInv'
  <2> QED BY <1>18 DEF HandInv, WriterDrained, Goto, CloseItem, WorkItem, Items
<1>19. ASSUME WriterSkip PROVE HandInv'
  BY <1>19 DEF TypeOK, QueueInv, HandInv, Taken, Items, WorkItem, PacketItem,
      FlushItem, CloseItem, NoItem, WriterSkip, NextItem, Goto
<1>20. ASSUME WriterWrite PROVE HandInv'
  BY <1>20 DEF TypeOK, QueueInv, HandInv, Taken, Items, WorkItem, PacketItem,
      FlushItem, CloseItem, NoItem, WriterWrite, PutInStream,
      VisibleAfterWrite, Goto
<1>21. ASSUME WriterWriteFails PROVE HandInv'
  BY <1>21 DEF TypeOK, QueueInv, HandInv, Taken, Items, WorkItem, PacketItem,
      FlushItem, CloseItem, NoItem, WriterWriteFails, LatchFault, NextItem,
      Goto
<1>22. ASSUME WriterBoundaryFails PROVE HandInv'
  BY <1>22 DEF TypeOK, QueueInv, HandInv, Taken, Items, WorkItem, PacketItem,
      FlushItem, CloseItem, NoItem, WriterBoundaryFails, LatchFault, NextItem,
      Goto
<1>23. ASSUME WriterPublish PROVE HandInv'
  BY <1>23 DEF TypeOK, QueueInv, HandInv, Taken, Items, WorkItem, PacketItem,
      FlushItem, CloseItem, NoItem, WriterPublish, NextItem, Goto
<1>24. ASSUME WriterFlush PROVE HandInv'
  BY <1>24 DEF TypeOK, QueueInv, HandInv, Taken, Items, WorkItem, PacketItem,
      FlushItem, CloseItem, NoItem, WriterFlush, AfterFlush, Goto
<1>25. ASSUME WriterFlushFails PROVE HandInv'
  BY <1>25 DEF TypeOK, QueueInv, HandInv, Taken, Items, WorkItem, PacketItem,
      FlushItem, CloseItem, NoItem, WriterFlushFails, AfterFlush, LatchFault,
      Goto
<1>26. ASSUME WriterFlushSkipped PROVE HandInv'
  BY <1>26 DEF TypeOK, QueueInv, HandInv, Taken, Items, WorkItem, PacketItem,
      FlushItem, CloseItem, NoItem, WriterFlushSkipped, AfterFlush, Goto
<1>27. ASSUME WriterCloseStream PROVE HandInv'
  BY <1>27 DEF TypeOK, QueueInv, HandInv, Taken, Items, WorkItem, PacketItem,
      FlushItem, CloseItem, NoItem, WriterCloseStream, CloseFile, Goto
<1>28. ASSUME WriterCloseFails PROVE HandInv'
  BY <1>28 DEF TypeOK, QueueInv, HandInv, Taken, Items, WorkItem, PacketItem,
      FlushItem, CloseItem, NoItem, WriterCloseFails, CloseFile, LatchFault,
      Goto
<1>29. ASSUME WriterComplete PROVE HandInv'
  BY <1>29 DEF TypeOK, QueueInv, HandInv, Taken, Items, WorkItem, PacketItem,
      FlushItem, CloseItem, NoItem, WriterComplete, Goto
<1>30. CASE UNCHANGED vars
  BY <1>30 DEF TypeOK, QueueInv, HandInv, Taken, Items, WorkItem, PacketItem,
      FlushItem, CloseItem, NoItem, vars
<1> QED BY <1>1, <1>2, <1>3, <1>4, <1>5, <1>6, <1>7, <1>8, <1>9, <1>10,
     <1>11, <1>12, <1>13, <1>14, <1>15, <1>16, <1>17, <1>18, <1>19, <1>20,
     <1>21, <1>22, <1>23, <1>24, <1>25, <1>26, <1>27, <1>28, <1>29, <1>30 DEF
     Next, Writer, Call, Proceed

(* Every step keeps FileInv: file and index.                                *)
LEMMA FileInvStep ==
  ASSUME TypeOK, QueueInv, HandInv, FileInv, [Next]_vars
  PROVE  FileInv'
<1> USE SizesAssumption, LimitsAssumption, NoneAssumption
<1> USE DEF queueVars, statusVars, faultVars, fileVars, writerVars, exportVars,
             callVars
<1>1. ASSUME NEW t \in Threads, NEW p \in Packet, AppendAccepted(t, p) PROVE FileInv'
  <2>1. Taken' = Taken /\ Len(accepted) <= Len(accepted')
    BY <1>1 DEF TypeOK, AppendAccepted, Taken
  <2>2. \A i \in 1..Len(accepted) : accepted'[i] = accepted[i]
    BY <1>1 DEF TypeOK, AppendAccepted
  <2>3. UNCHANGED <<faultVars, fileVars, writerVars>>
    BY <1>1 DEF AppendAccepted
  <2>4. \A i \in DOMAIN persisted : persisted[i] \in 1..Len(accepted)
    <3>1. Len(persisted) \in Nat /\ Len(persisted) <= Len(accepted)
      BY DEF TypeOK, FileInv, QueueInv, Taken
    <3> QED BY <3>1 DEF FileInv, IndexInAcceptedOrder
  <2>5. wpc = "publish" => hand.packet \in 1..Len(accepted)
    BY DEF TypeOK, FileInv, QueueInv, HandInv, Taken
  <2> QED BY <2>1, <2>2, <2>3, <2>4, <2>5 DEF FileInv, IndexInAcceptedOrder,
        BoundaryPacketsSurviveCrash, Recovered
<1>2. ASSUME NEW t \in Threads, NEW p \in Packet, AppendOverflow(t, p) PROVE FileInv'
  BY <1>2 DEF TypeOK, QueueInv, HandInv, FileInv, Taken, Items, Packet,
      Recovered, IndexInAcceptedOrder, BoundaryPacketsSurviveCrash, WorkItem,
      PacketItem, FlushItem, CloseItem, NoItem, AppendOverflow, LatchFault,
      Return
<1>3. ASSUME NEW t \in Threads, AppendRefused(t) PROVE FileInv'
  BY <1>3 DEF TypeOK, QueueInv, HandInv, FileInv, Taken, Items, Packet,
      Recovered, IndexInAcceptedOrder, BoundaryPacketsSurviveCrash, WorkItem,
      PacketItem, FlushItem, CloseItem, NoItem, AppendRefused, Return
<1>4. ASSUME NEW t \in Threads, OutOfMemory(t) PROVE FileInv'
  BY <1>4 DEF TypeOK, QueueInv, HandInv, FileInv, Taken, Items, Packet,
      Recovered, IndexInAcceptedOrder, BoundaryPacketsSurviveCrash, WorkItem,
      PacketItem, FlushItem, CloseItem, NoItem, OutOfMemory, LatchFault, Return
<1>5. ASSUME NEW t \in Threads, SnapshotQueueBarrier(t) PROVE FileInv'
  BY <1>5 DEF TypeOK, QueueInv, HandInv, FileInv, Taken, Items, Packet,
      Recovered, IndexInAcceptedOrder, BoundaryPacketsSurviveCrash, WorkItem,
      PacketItem, FlushItem, CloseItem, NoItem, SnapshotQueueBarrier,
      OpenSnapshot, Begin
<1>6. ASSUME NEW t \in Threads, SnapshotAfterClose(t) PROVE FileInv'
  BY <1>6 DEF TypeOK, QueueInv, HandInv, FileInv, Taken, Items, Packet,
      Recovered, IndexInAcceptedOrder, BoundaryPacketsSurviveCrash, WorkItem,
      PacketItem, FlushItem, CloseItem, NoItem, SnapshotAfterClose,
      OpenSnapshot, Begin
<1>7. ASSUME NEW t \in Threads, SnapshotRefused(t) PROVE FileInv'
  BY <1>7 DEF TypeOK, QueueInv, HandInv, FileInv, Taken, Items, Packet,
      Recovered, IndexInAcceptedOrder, BoundaryPacketsSurviveCrash, WorkItem,
      PacketItem, FlushItem, CloseItem, NoItem, SnapshotRefused, OpenSnapshot,
      Return
<1>8. ASSUME NEW t \in Threads, CloseBegin(t) PROVE FileInv'
  BY <1>8 DEF TypeOK, QueueInv, HandInv, FileInv, Taken, Items, Packet,
      Recovered, IndexInAcceptedOrder, BoundaryPacketsSurviveCrash, WorkItem,
      PacketItem, FlushItem, CloseItem, NoItem, CloseBegin, Begin
<1>9. ASSUME NEW t \in Threads, CloseAgain(t) PROVE FileInv'
  BY <1>9 DEF TypeOK, QueueInv, HandInv, FileInv, Taken, Items, Packet,
      Recovered, IndexInAcceptedOrder, BoundaryPacketsSurviveCrash, WorkItem,
      PacketItem, FlushItem, CloseItem, NoItem, CloseAgain, Return
<1>10. ASSUME NEW t \in Threads, SnapshotBarrierDone(t) PROVE FileInv'
  BY <1>10 DEF TypeOK, QueueInv, HandInv, FileInv, Taken, Items, Packet,
      Recovered, IndexInAcceptedOrder, BoundaryPacketsSurviveCrash, WorkItem,
      PacketItem, FlushItem, CloseItem, NoItem, SnapshotBarrierDone, Begin
<1>11. ASSUME NEW t \in Threads, SnapshotBarrierFailed(t) PROVE FileInv'
  BY <1>11 DEF TypeOK, QueueInv, HandInv, FileInv, Taken, Items, Packet,
      Recovered, IndexInAcceptedOrder, BoundaryPacketsSurviveCrash, WorkItem,
      PacketItem, FlushItem, CloseItem, NoItem, SnapshotBarrierFailed, Return
<1>12. ASSUME NEW t \in Threads, SnapshotTakeIndex(t) PROVE FileInv'
  BY <1>12 DEF TypeOK, QueueInv, HandInv, FileInv, Taken, Items, Packet,
      Recovered, IndexInAcceptedOrder, BoundaryPacketsSurviveCrash, WorkItem,
      PacketItem, FlushItem, CloseItem, NoItem, SnapshotTakeIndex, Return
<1>13. ASSUME NEW t \in Threads, CloseEnqueue(t) PROVE FileInv'
  BY <1>13 DEF TypeOK, QueueInv, HandInv, FileInv, Taken, Items, Packet,
      Recovered, IndexInAcceptedOrder, BoundaryPacketsSurviveCrash, WorkItem,
      PacketItem, FlushItem, CloseItem, NoItem, CloseEnqueue, Begin
<1>14. ASSUME NEW t \in Threads, CloseOutOfMemory(t) PROVE FileInv'
  BY <1>14 DEF TypeOK, QueueInv, HandInv, FileInv, Taken, Items, Packet,
      Recovered, IndexInAcceptedOrder, BoundaryPacketsSurviveCrash, WorkItem,
      PacketItem, FlushItem, CloseItem, NoItem, CloseOutOfMemory, LatchFault,
      Begin
<1>15. ASSUME NEW t \in Threads, CloseJoin(t) PROVE FileInv'
  BY <1>15 DEF TypeOK, QueueInv, HandInv, FileInv, Taken, Items, Packet,
      Recovered, IndexInAcceptedOrder, BoundaryPacketsSurviveCrash, WorkItem,
      PacketItem, FlushItem, CloseItem, NoItem, CloseJoin, Return
<1>16. ASSUME WriterTakePacket PROVE FileInv'
  <2>1. Taken' = Taken + 1 /\ accepted' = accepted /\ Taken \in Int
    BY <1>16, TakesNextPacket DEF TypeOK, Taken
  <2>2. /\ wpc = "wait" /\ wpc' = "packet" /\ visible' = visible /\ written' = written
        /\ ioFailed' = ioFailed /\ persisted' = persisted
    BY <1>16 DEF WriterTakePacket, TakeItem, Goto
  <2>3. IndexInAcceptedOrder' /\ BoundaryPacketsSurviveCrash'
    BY <2>1, <2>2, PrefixKept DEF TypeOK
  <2> QED BY <2>1, <2>2, <2>3 DEF TypeOK, FileInv
<1>17. ASSUME WriterTakeBarrier PROVE FileInv'
  BY <1>17 DEF TypeOK, QueueInv, HandInv, FileInv, Taken, Items, Packet,
      Recovered, IndexInAcceptedOrder, BoundaryPacketsSurviveCrash, WorkItem,
      PacketItem, FlushItem, CloseItem, NoItem, WriterTakeBarrier, TakeItem,
      Goto
<1>18. ASSUME WriterDrained PROVE FileInv'
  BY <1>18 DEF TypeOK, QueueInv, HandInv, FileInv, Taken, Items, Packet,
      Recovered, IndexInAcceptedOrder, BoundaryPacketsSurviveCrash, WorkItem,
      PacketItem, FlushItem, CloseItem, NoItem, WriterDrained, Goto
<1>19. ASSUME WriterSkip PROVE FileInv'
  BY <1>19 DEF TypeOK, QueueInv, HandInv, FileInv, Taken, Items, Packet,
      Recovered, IndexInAcceptedOrder, BoundaryPacketsSurviveCrash, WorkItem,
      PacketItem, FlushItem, CloseItem, NoItem, WriterSkip, NextItem, Goto
<1>20. ASSUME WriterWrite PROVE FileInv'
  <2>1. UNCHANGED <<accepted, persisted>> /\ Taken' = Taken
    BY <1>20 DEF WriterWrite, PutInStream, VisibleAfterWrite, Goto, Taken
  <2>2. /\ visible' \in Nat /\ visible <= visible' /\ visible' <= 2 * written' + 1
        /\ ~ioFailed' => visible' <= 2 * written'
    BY <1>20 DEF TypeOK, FileInv, WriterWrite, PutInStream, VisibleAfterWrite,
      Goto
  <2>3. IndexInAcceptedOrder' /\ BoundaryPacketsSurviveCrash'
    BY <2>1, <2>2, PrefixKept
  <2>4. /\ wpc = "packet" /\ wpc' = "publish" /\ written' = written + 1
        /\ ioFailed' = FALSE /\ ioFailed = FALSE /\ hand' = hand
    BY <1>20 DEF TypeOK, WriterWrite, PutInStream, Goto
  <2>5. written \in Nat /\ hand.packet = Taken /\ written + 1 = Taken /\ Taken \in Int
    BY <2>4 DEF TypeOK, FileInv, HandInv, Taken
  <2>6. accepted[hand.packet].boundary => hand.packet <= Recovered'
    BY <1>20, <2>5 DEF WriterWrite, VisibleAfterWrite, Recovered
  <2> QED BY <2>1, <2>2, <2>3, <2>4, <2>5, <2>6 DEF TypeOK, FileInv
<1>21. ASSUME WriterWriteFails PROVE FileInv'
  <2>1. UNCHANGED <<accepted, persisted>> /\ Taken' = Taken
    BY <1>21 DEF WriterWriteFails, LatchFault, NextItem, Goto, Taken
  <2>2. /\ visible' \in Nat /\ visible <= visible' /\ visible' <= 2 * written' + 1
    BY <1>21 DEF TypeOK, FileInv, WriterWriteFails, LatchFault, NextItem, Goto
  <2>3. /\ wpc \in {"packet", "barrier", "closeStream"} /\ wpc' \in {"wait", "closeStream", "complete"}
        /\ ioFailed' /\ written' \in Nat /\ written <= written' /\ written' <= Taken
    BY <1>21 DEF TypeOK, FileInv, Taken, WriterWriteFails, LatchFault,
      NextItem, Goto
  <2> QED BY <2>1, <2>2, <2>3, FileFailed
<1>22. ASSUME WriterBoundaryFails PROVE FileInv'
  <2>1. UNCHANGED <<accepted, persisted>> /\ Taken' = Taken
    BY <1>22 DEF WriterBoundaryFails, LatchFault, NextItem, Goto, Taken
  <2>2. /\ visible' \in Nat /\ visible <= visible' /\ visible' <= 2 * written' + 1
    BY <1>22 DEF TypeOK, FileInv, WriterBoundaryFails, LatchFault, NextItem,
      Goto
  <2>3. /\ wpc \in {"packet", "barrier", "closeStream"} /\ wpc' \in {"wait", "closeStream", "complete"}
        /\ ioFailed' /\ written' \in Nat /\ written <= written' /\ written' <= Taken
    BY <1>22 DEF TypeOK, FileInv, Taken, WriterBoundaryFails, LatchFault,
      NextItem, Goto
  <2> QED BY <2>1, <2>2, <2>3, FileFailed
<1>23. ASSUME WriterPublish PROVE FileInv'
  <2>1. /\ wpc = "publish" /\ wpc' = "wait" /\ persisted' = Append(persisted, hand.packet)
        /\ UNCHANGED <<accepted, queuedPackets, ioFailed, visible, written>>
    BY <1>23 DEF WriterPublish, NextItem, Goto
  <2>2. /\ ~ioFailed /\ hand.packet = Taken /\ written = Taken /\ Len(persisted) = written - 1
        /\ written \in Nat /\ persisted \in Seq(Nat) /\ hand.packet \in Nat
    <3>1. ~ioFailed /\ hand.packet = Taken
      BY <2>1 DEF HandInv
    <3>2. written = Taken /\ Len(persisted) = written - 1
      <4>1. Taken \in Int /\ written \in Nat
        BY DEF TypeOK, Taken
      <4>2. /\ written = Taken - (IF wpc = "packet" THEN 1 ELSE 0)
            /\ Len(persisted) = written - (IF wpc = "publish" THEN 1 ELSE 0)
        BY <3>1 DEF FileInv
      <4> QED BY <2>1, <4>1, <4>2
    <3>3. written \in Nat /\ persisted \in Seq(Nat)
      BY DEF TypeOK
    <3> QED BY <3>1, <3>2, <3>3
  <2>3. /\ Len(persisted) \in Nat /\ Len(persisted') = written
        /\ DOMAIN persisted' = 1..Len(persisted) + 1
        /\ \A i \in 1..Len(persisted) : persisted'[i] = persisted[i]
        /\ persisted'[Len(persisted) + 1] = hand.packet
    BY <2>1, <2>2, AppendFacts
  <2>4. IndexInAcceptedOrder'
    <3>1. \A i \in 1..Len(persisted) + 1 : persisted'[i] = i
      BY <2>2, <2>3 DEF FileInv, IndexInAcceptedOrder
    <3>2. persisted' \in Seq(Nat)
      BY <2>1, <2>2, AppendFacts
    <3> QED BY <2>2, <2>3, <3>1, <3>2 DEF IndexInAcceptedOrder
  <2>5. BoundaryPacketsSurviveCrash'
    <3>1. accepted' = accepted /\ Recovered' = Recovered
      BY <2>1 DEF Recovered
    <3>2. ASSUME NEW i \in DOMAIN persisted', accepted[persisted'[i]].boundary
          PROVE  persisted'[i] <= Recovered
      <4>1. CASE i \in DOMAIN persisted
        BY <2>3, <3>2, <4>1 DEF FileInv, BoundaryPacketsSurviveCrash
      <4>2. CASE i = Len(persisted) + 1
        BY <2>1, <2>3, <3>2, <4>2 DEF FileInv
      <4> QED BY <2>2, <2>3, <3>2, <4>1, <4>2
    <3> QED BY <3>1, <3>2 DEF BoundaryPacketsSurviveCrash
  <2>6. Taken' = Taken /\ visible <= 2 * written
    BY <2>1, <2>2 DEF Taken, FileInv
  <2> QED BY <2>1, <2>2, <2>3, <2>4, <2>5, <2>6 DEF FileInv, TypeOK
<1>24. ASSUME WriterFlush PROVE FileInv'
  <2>1. UNCHANGED <<accepted, persisted>> /\ Taken' = Taken
    BY <1>24 DEF WriterFlush, AfterFlush, Goto, Taken
  <2>2. /\ visible' \in Nat /\ visible <= visible' /\ visible' <= 2 * written' + 1
        /\ ~ioFailed' => visible' <= 2 * written'
    BY <1>24 DEF TypeOK, FileInv, WriterFlush, AfterFlush, Goto
  <2>3. IndexInAcceptedOrder' /\ BoundaryPacketsSurviveCrash'
    BY <2>1, <2>2, PrefixKept
  <2>4. /\ wpc = "barrier" /\ wpc' \in {"closeStream", "complete"} /\ written' = written
        /\ ioFailed' = ioFailed
    BY <1>24 DEF WriterFlush, AfterFlush, Goto
  <2> QED BY <2>1, <2>2, <2>3, <2>4 DEF TypeOK, FileInv
<1>25. ASSUME WriterFlushFails PROVE FileInv'
  <2>1. UNCHANGED <<accepted, persisted>> /\ Taken' = Taken
    BY <1>25 DEF WriterFlushFails, AfterFlush, LatchFault, Goto, Taken
  <2>2. /\ visible' \in Nat /\ visible <= visible' /\ visible' <= 2 * written' + 1
    BY <1>25 DEF TypeOK, FileInv, WriterFlushFails, AfterFlush, LatchFault,
      Goto
  <2>3. /\ wpc \in {"packet", "barrier", "closeStream"} /\ wpc' \in {"wait", "closeStream", "complete"}
        /\ ioFailed' /\ written' \in Nat /\ written <= written' /\ written' <= Taken
    BY <1>25 DEF TypeOK, FileInv, Taken, WriterFlushFails, AfterFlush,
      LatchFault, Goto
  <2> QED BY <2>1, <2>2, <2>3, FileFailed
<1>26. ASSUME WriterFlushSkipped PROVE FileInv'
  BY <1>26 DEF TypeOK, QueueInv, HandInv, FileInv, Taken, Items, Packet,
      Recovered, IndexInAcceptedOrder, BoundaryPacketsSurviveCrash, WorkItem,
      PacketItem, FlushItem, CloseItem, NoItem, WriterFlushSkipped, AfterFlush,
      Goto
<1>27. ASSUME WriterCloseStream PROVE FileInv'
  <2>1. UNCHANGED <<accepted, persisted>> /\ Taken' = Taken
    BY <1>27 DEF WriterCloseStream, CloseFile, Goto, Taken
  <2>2. /\ visible' \in Nat /\ visible <= visible' /\ visible' <= 2 * written' + 1
        /\ ~ioFailed' => visible' <= 2 * written'
    BY <1>27 DEF TypeOK, FileInv, WriterCloseStream, CloseFile, Goto
  <2>3. IndexInAcceptedOrder' /\ BoundaryPacketsSurviveCrash'
    BY <2>1, <2>2, PrefixKept
  <2>4. /\ wpc = "closeStream" /\ wpc' = "complete" /\ written' = written
        /\ ioFailed' = ioFailed
    BY <1>27 DEF WriterCloseStream, CloseFile, Goto
  <2> QED BY <2>1, <2>2, <2>3, <2>4 DEF TypeOK, FileInv
<1>28. ASSUME WriterCloseFails PROVE FileInv'
  <2>1. UNCHANGED <<accepted, persisted>> /\ Taken' = Taken
    BY <1>28 DEF WriterCloseFails, CloseFile, LatchFault, Goto, Taken
  <2>2. /\ visible' \in Nat /\ visible <= visible' /\ visible' <= 2 * written' + 1
    BY <1>28 DEF TypeOK, FileInv, WriterCloseFails, CloseFile, LatchFault, Goto
  <2>3. /\ wpc \in {"packet", "barrier", "closeStream"} /\ wpc' \in {"wait", "closeStream", "complete"}
        /\ ioFailed' /\ written' \in Nat /\ written <= written' /\ written' <= Taken
    BY <1>28 DEF TypeOK, FileInv, Taken, WriterCloseFails, CloseFile,
      LatchFault, Goto
  <2> QED BY <2>1, <2>2, <2>3, FileFailed
<1>29. ASSUME WriterComplete PROVE FileInv'
  BY <1>29 DEF TypeOK, QueueInv, HandInv, FileInv, Taken, Items, Packet,
      Recovered, IndexInAcceptedOrder, BoundaryPacketsSurviveCrash, WorkItem,
      PacketItem, FlushItem, CloseItem, NoItem, WriterComplete, Goto
<1>30. CASE UNCHANGED vars
  BY <1>30 DEF TypeOK, QueueInv, HandInv, FileInv, Taken, Items, Packet,
      Recovered, IndexInAcceptedOrder, BoundaryPacketsSurviveCrash, WorkItem,
      PacketItem, FlushItem, CloseItem, NoItem, vars
<1> QED BY <1>1, <1>2, <1>3, <1>4, <1>5, <1>6, <1>7, <1>8, <1>9, <1>10,
     <1>11, <1>12, <1>13, <1>14, <1>15, <1>16, <1>17, <1>18, <1>19, <1>20,
     <1>21, <1>22, <1>23, <1>24, <1>25, <1>26, <1>27, <1>28, <1>29, <1>30 DEF
     Next, Writer, Call, Proceed

(* Every step keeps FaultInv: the fault flags.                              *)
LEMMA FaultInvStep ==
  ASSUME TypeOK, FaultInv, [Next]_vars
  PROVE  FaultInv'
<1> USE SizesAssumption, LimitsAssumption, NoneAssumption
<1> USE DEF queueVars, statusVars, faultVars, fileVars, writerVars, exportVars,
             callVars
<1>1. ASSUME NEW t \in Threads, NEW p \in Packet, AppendAccepted(t, p) PROVE FaultInv'
  BY <1>1 DEF TypeOK, FaultInv, AppendAccepted, Return
<1>2. ASSUME NEW t \in Threads, NEW p \in Packet, AppendOverflow(t, p) PROVE FaultInv'
  BY <1>2 DEF TypeOK, FaultInv, AppendOverflow, LatchFault, Return
<1>3. ASSUME NEW t \in Threads, AppendRefused(t) PROVE FaultInv'
  BY <1>3 DEF TypeOK, FaultInv, AppendRefused, Return
<1>4. ASSUME NEW t \in Threads, OutOfMemory(t) PROVE FaultInv'
  BY <1>4 DEF TypeOK, FaultInv, OutOfMemory, LatchFault, Return
<1>5. ASSUME NEW t \in Threads, SnapshotQueueBarrier(t) PROVE FaultInv'
  BY <1>5 DEF TypeOK, FaultInv, SnapshotQueueBarrier, OpenSnapshot, Begin
<1>6. ASSUME NEW t \in Threads, SnapshotAfterClose(t) PROVE FaultInv'
  BY <1>6 DEF TypeOK, FaultInv, SnapshotAfterClose, OpenSnapshot, Begin
<1>7. ASSUME NEW t \in Threads, SnapshotRefused(t) PROVE FaultInv'
  BY <1>7 DEF TypeOK, FaultInv, SnapshotRefused, OpenSnapshot, Return
<1>8. ASSUME NEW t \in Threads, CloseBegin(t) PROVE FaultInv'
  BY <1>8 DEF TypeOK, FaultInv, CloseBegin, Begin
<1>9. ASSUME NEW t \in Threads, CloseAgain(t) PROVE FaultInv'
  BY <1>9 DEF TypeOK, FaultInv, CloseAgain, Return
<1>10. ASSUME NEW t \in Threads, SnapshotBarrierDone(t) PROVE FaultInv'
  BY <1>10 DEF TypeOK, FaultInv, SnapshotBarrierDone, Begin
<1>11. ASSUME NEW t \in Threads, SnapshotBarrierFailed(t) PROVE FaultInv'
  BY <1>11 DEF TypeOK, FaultInv, SnapshotBarrierFailed, Return
<1>12. ASSUME NEW t \in Threads, SnapshotTakeIndex(t) PROVE FaultInv'
  BY <1>12 DEF TypeOK, FaultInv, SnapshotTakeIndex, Return
<1>13. ASSUME NEW t \in Threads, CloseEnqueue(t) PROVE FaultInv'
  BY <1>13 DEF TypeOK, FaultInv, CloseEnqueue, Begin
<1>14. ASSUME NEW t \in Threads, CloseOutOfMemory(t) PROVE FaultInv'
  BY <1>14 DEF TypeOK, FaultInv, CloseOutOfMemory, LatchFault, Begin
<1>15. ASSUME NEW t \in Threads, CloseJoin(t) PROVE FaultInv'
  BY <1>15 DEF TypeOK, FaultInv, CloseJoin, Return
<1>16. ASSUME WriterTakePacket PROVE FaultInv'
  BY <1>16 DEF TypeOK, FaultInv, WriterTakePacket, TakeItem, Goto
<1>17. ASSUME WriterTakeBarrier PROVE FaultInv'
  BY <1>17 DEF TypeOK, FaultInv, WriterTakeBarrier, TakeItem, Goto
<1>18. ASSUME WriterDrained PROVE FaultInv'
  BY <1>18 DEF TypeOK, FaultInv, WriterDrained, Goto
<1>19. ASSUME WriterSkip PROVE FaultInv'
  BY <1>19 DEF TypeOK, FaultInv, WriterSkip, NextItem, Goto
<1>20. ASSUME WriterWrite PROVE FaultInv'
  BY <1>20 DEF TypeOK, FaultInv, WriterWrite, PutInStream, VisibleAfterWrite,
      Goto
<1>21. ASSUME WriterWriteFails PROVE FaultInv'
  BY <1>21 DEF TypeOK, FaultInv, WriterWriteFails, LatchFault, NextItem, Goto
<1>22. ASSUME WriterBoundaryFails PROVE FaultInv'
  BY <1>22 DEF TypeOK, FaultInv, WriterBoundaryFails, LatchFault, NextItem,
      Goto
<1>23. ASSUME WriterPublish PROVE FaultInv'
  BY <1>23 DEF TypeOK, FaultInv, WriterPublish, NextItem, Goto
<1>24. ASSUME WriterFlush PROVE FaultInv'
  BY <1>24 DEF TypeOK, FaultInv, WriterFlush, AfterFlush, Goto
<1>25. ASSUME WriterFlushFails PROVE FaultInv'
  BY <1>25 DEF TypeOK, FaultInv, WriterFlushFails, AfterFlush, LatchFault, Goto
<1>26. ASSUME WriterFlushSkipped PROVE FaultInv'
  BY <1>26 DEF TypeOK, FaultInv, WriterFlushSkipped, AfterFlush, Goto
<1>27. ASSUME WriterCloseStream PROVE FaultInv'
  BY <1>27 DEF TypeOK, FaultInv, WriterCloseStream, CloseFile, Goto
<1>28. ASSUME WriterCloseFails PROVE FaultInv'
  BY <1>28 DEF TypeOK, FaultInv, WriterCloseFails, CloseFile, LatchFault, Goto
<1>29. ASSUME WriterComplete PROVE FaultInv'
  BY <1>29 DEF TypeOK, FaultInv, WriterComplete, Goto
<1>30. CASE UNCHANGED vars
  BY <1>30 DEF TypeOK, FaultInv, vars
<1> QED BY <1>1, <1>2, <1>3, <1>4, <1>5, <1>6, <1>7, <1>8, <1>9, <1>10,
     <1>11, <1>12, <1>13, <1>14, <1>15, <1>16, <1>17, <1>18, <1>19, <1>20,
     <1>21, <1>22, <1>23, <1>24, <1>25, <1>26, <1>27, <1>28, <1>29, <1>30 DEF
     Next, Writer, Call, Proceed

(* Every step keeps CloserInv: the closing thread.                          *)
LEMMA CloserInvStep ==
  ASSUME TypeOK, CloserInv, [Next]_vars
  PROVE  CloserInv'
<1> USE SizesAssumption, LimitsAssumption, NoneAssumption
<1> USE DEF queueVars, statusVars, faultVars, fileVars, writerVars, exportVars,
             callVars
<1>1. ASSUME NEW t \in Threads, NEW p \in Packet, AppendAccepted(t, p) PROVE CloserInv'
  BY <1>1 DEF TypeOK, CloserInv, AppendAccepted, Return
<1>2. ASSUME NEW t \in Threads, NEW p \in Packet, AppendOverflow(t, p) PROVE CloserInv'
  BY <1>2 DEF TypeOK, CloserInv, AppendOverflow, LatchFault, Return
<1>3. ASSUME NEW t \in Threads, AppendRefused(t) PROVE CloserInv'
  BY <1>3 DEF TypeOK, CloserInv, AppendRefused, Return
<1>4. ASSUME NEW t \in Threads, OutOfMemory(t) PROVE CloserInv'
  BY <1>4 DEF TypeOK, CloserInv, OutOfMemory, LatchFault, Return
<1>5. ASSUME NEW t \in Threads, SnapshotQueueBarrier(t) PROVE CloserInv'
  BY <1>5 DEF TypeOK, CloserInv, SnapshotQueueBarrier, OpenSnapshot, Begin
<1>6. ASSUME NEW t \in Threads, SnapshotAfterClose(t) PROVE CloserInv'
  BY <1>6 DEF TypeOK, CloserInv, SnapshotAfterClose, OpenSnapshot, Begin
<1>7. ASSUME NEW t \in Threads, SnapshotRefused(t) PROVE CloserInv'
  BY <1>7 DEF TypeOK, CloserInv, SnapshotRefused, OpenSnapshot, Return
<1>8. ASSUME NEW t \in Threads, CloseBegin(t) PROVE CloserInv'
  BY <1>8 DEF TypeOK, CloserInv, CloseBegin, Begin
<1>9. ASSUME NEW t \in Threads, CloseAgain(t) PROVE CloserInv'
  BY <1>9 DEF TypeOK, CloserInv, CloseAgain, Return
<1>10. ASSUME NEW t \in Threads, SnapshotBarrierDone(t) PROVE CloserInv'
  BY <1>10 DEF TypeOK, CloserInv, SnapshotBarrierDone, Begin
<1>11. ASSUME NEW t \in Threads, SnapshotBarrierFailed(t) PROVE CloserInv'
  BY <1>11 DEF TypeOK, CloserInv, SnapshotBarrierFailed, Return
<1>12. ASSUME NEW t \in Threads, SnapshotTakeIndex(t) PROVE CloserInv'
  BY <1>12 DEF TypeOK, CloserInv, SnapshotTakeIndex, Return
<1>13. ASSUME NEW t \in Threads, CloseEnqueue(t) PROVE CloserInv'
  BY <1>13 DEF TypeOK, CloserInv, CloseEnqueue, Begin
<1>14. ASSUME NEW t \in Threads, CloseOutOfMemory(t) PROVE CloserInv'
  BY <1>14 DEF TypeOK, CloserInv, CloseOutOfMemory, LatchFault, Begin
<1>15. ASSUME NEW t \in Threads, CloseJoin(t) PROVE CloserInv'
  BY <1>15 DEF TypeOK, CloserInv, CloseJoin, Return
<1>16. ASSUME WriterTakePacket PROVE CloserInv'
  BY <1>16 DEF TypeOK, CloserInv, WriterTakePacket, TakeItem, Goto
<1>17. ASSUME WriterTakeBarrier PROVE CloserInv'
  BY <1>17 DEF TypeOK, CloserInv, WriterTakeBarrier, TakeItem, Goto
<1>18. ASSUME WriterDrained PROVE CloserInv'
  BY <1>18 DEF TypeOK, CloserInv, WriterDrained, Goto
<1>19. ASSUME WriterSkip PROVE CloserInv'
  BY <1>19 DEF TypeOK, CloserInv, WriterSkip, NextItem, Goto
<1>20. ASSUME WriterWrite PROVE CloserInv'
  BY <1>20 DEF TypeOK, CloserInv, WriterWrite, PutInStream, VisibleAfterWrite,
      Goto
<1>21. ASSUME WriterWriteFails PROVE CloserInv'
  BY <1>21 DEF TypeOK, CloserInv, WriterWriteFails, LatchFault, NextItem, Goto
<1>22. ASSUME WriterBoundaryFails PROVE CloserInv'
  BY <1>22 DEF TypeOK, CloserInv, WriterBoundaryFails, LatchFault, NextItem,
      Goto
<1>23. ASSUME WriterPublish PROVE CloserInv'
  BY <1>23 DEF TypeOK, CloserInv, WriterPublish, NextItem, Goto
<1>24. ASSUME WriterFlush PROVE CloserInv'
  BY <1>24 DEF TypeOK, CloserInv, WriterFlush, AfterFlush, Goto
<1>25. ASSUME WriterFlushFails PROVE CloserInv'
  BY <1>25 DEF TypeOK, CloserInv, WriterFlushFails, AfterFlush, LatchFault,
      Goto
<1>26. ASSUME WriterFlushSkipped PROVE CloserInv'
  BY <1>26 DEF TypeOK, CloserInv, WriterFlushSkipped, AfterFlush, Goto
<1>27. ASSUME WriterCloseStream PROVE CloserInv'
  BY <1>27 DEF TypeOK, CloserInv, WriterCloseStream, CloseFile, Goto
<1>28. ASSUME WriterCloseFails PROVE CloserInv'
  BY <1>28 DEF TypeOK, CloserInv, WriterCloseFails, CloseFile, LatchFault, Goto
<1>29. ASSUME WriterComplete PROVE CloserInv'
  BY <1>29 DEF TypeOK, CloserInv, WriterComplete, Goto
<1>30. CASE UNCHANGED vars
  BY <1>30 DEF TypeOK, CloserInv, vars
<1> QED BY <1>1, <1>2, <1>3, <1>4, <1>5, <1>6, <1>7, <1>8, <1>9, <1>10,
     <1>11, <1>12, <1>13, <1>14, <1>15, <1>16, <1>17, <1>18, <1>19, <1>20,
     <1>21, <1>22, <1>23, <1>24, <1>25, <1>26, <1>27, <1>28, <1>29, <1>30 DEF
     Next, Writer, Call, Proceed

(* Every step keeps CloseItemInv: the close item.                           *)
LEMMA CloseItemInvStep ==
  ASSUME TypeOK, HandInv, FaultInv, CloserInv, CloseItemInv, WaitInv, [Next]_vars
  PROVE  CloseItemInv'
<1> USE SizesAssumption, LimitsAssumption, NoneAssumption
<1> USE DEF queueVars, statusVars, faultVars, fileVars, writerVars, exportVars,
             callVars
<1>1. ASSUME NEW t \in Threads, NEW p \in Packet, AppendAccepted(t, p) PROVE CloseItemInv'
  <2>1. Queues(PacketItem(Len(accepted) + 1)) /\ ~closing /\ open
    BY <1>1, QueuesPacket DEF TypeOK, FaultInv, AppendAccepted, TypeOK
  <2>2. UNCHANGED <<closing, open, closeWhenDrained, wpc, hand>> /\ pc'[t] = "idle"
          /\ \A u \in Threads : pc'[u] = "pushClose" => pc[u] = "pushClose"
    BY <1>1 DEF TypeOK, AppendAccepted, Return
  <2>3. \A i \in DOMAIN work' : work'[i].kind # "close"
    BY <2>1 DEF CloseItemInv, CloseNotSeen, Queues, PacketItem, WorkItem
  <2> QED BY <2>1, <2>2, <2>3 DEF CloseItemInv, CloseNotSeen
<1>2. ASSUME NEW t \in Threads, NEW p \in Packet, AppendOverflow(t, p) PROVE CloseItemInv'
  BY <1>2 DEF TypeOK, HandInv, CloserInv, CloseItemInv, CloseNotSeen, WaitInv,
      Items, WorkItem, PacketItem, FlushItem, CloseItem, NoItem,
      AppendOverflow, LatchFault, Return
<1>3. ASSUME NEW t \in Threads, AppendRefused(t) PROVE CloseItemInv'
  BY <1>3 DEF TypeOK, HandInv, CloserInv, CloseItemInv, CloseNotSeen, WaitInv,
      Items, WorkItem, PacketItem, FlushItem, CloseItem, NoItem, AppendRefused,
      Return
<1>4. ASSUME NEW t \in Threads, OutOfMemory(t) PROVE CloseItemInv'
  BY <1>4 DEF TypeOK, HandInv, CloserInv, CloseItemInv, CloseNotSeen, WaitInv,
      Items, WorkItem, PacketItem, FlushItem, CloseItem, NoItem, OutOfMemory,
      LatchFault, Return
<1>5. ASSUME NEW t \in Threads, SnapshotQueueBarrier(t) PROVE CloseItemInv'
  BY <1>5 DEF TypeOK, HandInv, CloserInv, CloseItemInv, CloseNotSeen, WaitInv,
      Items, WorkItem, PacketItem, FlushItem, CloseItem, NoItem,
      SnapshotQueueBarrier, OpenSnapshot, Begin
<1>6. ASSUME NEW t \in Threads, SnapshotAfterClose(t) PROVE CloseItemInv'
  BY <1>6 DEF TypeOK, HandInv, CloserInv, CloseItemInv, CloseNotSeen, WaitInv,
      Items, WorkItem, PacketItem, FlushItem, CloseItem, NoItem,
      SnapshotAfterClose, OpenSnapshot, Begin
<1>7. ASSUME NEW t \in Threads, SnapshotRefused(t) PROVE CloseItemInv'
  BY <1>7 DEF TypeOK, HandInv, CloserInv, CloseItemInv, CloseNotSeen, WaitInv,
      Items, WorkItem, PacketItem, FlushItem, CloseItem, NoItem,
      SnapshotRefused, OpenSnapshot, Return
<1>8. ASSUME NEW t \in Threads, CloseBegin(t) PROVE CloseItemInv'
  BY <1>8 DEF TypeOK, HandInv, CloserInv, CloseItemInv, CloseNotSeen, WaitInv,
      Items, WorkItem, PacketItem, FlushItem, CloseItem, NoItem, CloseBegin,
      Begin
<1>9. ASSUME NEW t \in Threads, CloseAgain(t) PROVE CloseItemInv'
  BY <1>9 DEF TypeOK, HandInv, CloserInv, CloseItemInv, CloseNotSeen, WaitInv,
      Items, WorkItem, PacketItem, FlushItem, CloseItem, NoItem, CloseAgain,
      Return
<1>10. ASSUME NEW t \in Threads, SnapshotBarrierDone(t) PROVE CloseItemInv'
  BY <1>10 DEF TypeOK, HandInv, CloserInv, CloseItemInv, CloseNotSeen, WaitInv,
      Items, WorkItem, PacketItem, FlushItem, CloseItem, NoItem,
      SnapshotBarrierDone, Begin
<1>11. ASSUME NEW t \in Threads, SnapshotBarrierFailed(t) PROVE CloseItemInv'
  BY <1>11 DEF TypeOK, HandInv, CloserInv, CloseItemInv, CloseNotSeen, WaitInv,
      Items, WorkItem, PacketItem, FlushItem, CloseItem, NoItem,
      SnapshotBarrierFailed, Return
<1>12. ASSUME NEW t \in Threads, SnapshotTakeIndex(t) PROVE CloseItemInv'
  BY <1>12 DEF TypeOK, HandInv, CloserInv, CloseItemInv, CloseNotSeen, WaitInv,
      Items, WorkItem, PacketItem, FlushItem, CloseItem, NoItem,
      SnapshotTakeIndex, Return
<1>13. ASSUME NEW t \in Threads, CloseEnqueue(t) PROVE CloseItemInv'
  BY <1>13 DEF TypeOK, HandInv, CloserInv, CloseItemInv, CloseNotSeen, WaitInv,
      Items, WorkItem, PacketItem, FlushItem, CloseItem, NoItem, CloseEnqueue,
      Begin
<1>14. ASSUME NEW t \in Threads, CloseOutOfMemory(t) PROVE CloseItemInv'
  BY <1>14 DEF TypeOK, HandInv, CloserInv, CloseItemInv, CloseNotSeen, WaitInv,
      Items, WorkItem, PacketItem, FlushItem, CloseItem, NoItem,
      CloseOutOfMemory, LatchFault, Begin
<1>15. ASSUME NEW t \in Threads, CloseJoin(t) PROVE CloseItemInv'
  BY <1>15 DEF TypeOK, HandInv, CloserInv, CloseItemInv, CloseNotSeen, WaitInv,
      Items, WorkItem, PacketItem, FlushItem, CloseItem, NoItem, CloseJoin,
      Return
<1>16. ASSUME WriterTakePacket PROVE CloseItemInv'
  <2>1. Takes(Head(work)) /\ hand'.kind = "packet" /\ work # <<>> /\ wpc = "wait"
    BY <1>16, TakesHead DEF WriterTakePacket, TakeItem
  <2>2. UNCHANGED <<closing, open, closeWhenDrained, pc>> /\ wpc' = "packet"
    BY <1>16 DEF WriterTakePacket, Goto
  <2>3. \A i \in DOMAIN work' : i + 1 \in DOMAIN work /\ work'[i] = work[i + 1]
    BY <2>1 DEF Takes
  <2>4. open
    BY <2>1 DEF CloseItemInv, HandInv
  <2>5. \A i \in DOMAIN work' : work'[i].kind = "close" => i = Len(work')
    BY <2>1, <2>3 DEF CloseItemInv, Takes
  <2> QED BY <2>1, <2>2, <2>3, <2>4, <2>5 DEF CloseItemInv, CloseNotSeen
<1>17. ASSUME WriterTakeBarrier PROVE CloseItemInv'
  <2>1. Takes(Head(work)) /\ hand'.kind \in {"flush", "close"} /\ work # <<>> /\ wpc = "wait"
    BY <1>17, TakesHead DEF WriterTakeBarrier, TakeItem
  <2>2. UNCHANGED <<closing, open, closeWhenDrained, pc>> /\ wpc' = "barrier"
    BY <1>17 DEF WriterTakeBarrier, Goto
  <2>3. \A i \in DOMAIN work' : i + 1 \in DOMAIN work /\ work'[i] = work[i + 1]
    BY <2>1 DEF Takes
  <2>4. open
    BY <2>1 DEF CloseItemInv, HandInv
  <2>5. \A i \in DOMAIN work' : work'[i].kind = "close" => i = Len(work')
    BY <2>1, <2>3 DEF CloseItemInv, Takes
  <2>6. 1 \in DOMAIN work /\ hand' = work[1]
    BY <2>1 DEF Takes
  <2>7. ASSUME hand'.kind = "close" PROVE work' = <<>>
    <3>1. Len(work) = 1
      BY <2>6, <2>7 DEF CloseItemInv
    <3>2. work' = Tail(work) /\ work \in Seq(Items)
      BY <1>17 DEF WriterTakeBarrier, TakeItem, TypeOK
    <3> QED BY <3>1, <3>2
  <2>8. CloseNotSeen => CloseNotSeen'
    BY <2>2, <2>3, <2>6 DEF CloseNotSeen
  <2> QED BY <2>2, <2>4, <2>5, <2>7, <2>8 DEF CloseItemInv
<1>18. ASSUME WriterDrained PROVE CloseItemInv'
  BY <1>18 DEF TypeOK, HandInv, CloserInv, CloseItemInv, CloseNotSeen, WaitInv,
      Items, WorkItem, PacketItem, FlushItem, CloseItem, NoItem, WriterDrained,
      Goto
<1>19. ASSUME WriterSkip PROVE CloseItemInv'
  BY <1>19 DEF TypeOK, HandInv, CloserInv, CloseItemInv, CloseNotSeen, WaitInv,
      Items, WorkItem, PacketItem, FlushItem, CloseItem, NoItem, WriterSkip,
      NextItem, Goto
<1>20. ASSUME WriterWrite PROVE CloseItemInv'
  BY <1>20 DEF TypeOK, HandInv, CloserInv, CloseItemInv, CloseNotSeen, WaitInv,
      Items, WorkItem, PacketItem, FlushItem, CloseItem, NoItem, WriterWrite,
      PutInStream, VisibleAfterWrite, Goto
<1>21. ASSUME WriterWriteFails PROVE CloseItemInv'
  BY <1>21 DEF TypeOK, HandInv, CloserInv, CloseItemInv, CloseNotSeen, WaitInv,
      Items, WorkItem, PacketItem, FlushItem, CloseItem, NoItem,
      WriterWriteFails, LatchFault, NextItem, Goto
<1>22. ASSUME WriterBoundaryFails PROVE CloseItemInv'
  BY <1>22 DEF TypeOK, HandInv, CloserInv, CloseItemInv, CloseNotSeen, WaitInv,
      Items, WorkItem, PacketItem, FlushItem, CloseItem, NoItem,
      WriterBoundaryFails, LatchFault, NextItem, Goto
<1>23. ASSUME WriterPublish PROVE CloseItemInv'
  BY <1>23 DEF TypeOK, HandInv, CloserInv, CloseItemInv, CloseNotSeen, WaitInv,
      Items, WorkItem, PacketItem, FlushItem, CloseItem, NoItem, WriterPublish,
      NextItem, Goto
<1>24. ASSUME WriterFlush PROVE CloseItemInv'
  BY <1>24 DEF TypeOK, HandInv, CloserInv, CloseItemInv, CloseNotSeen, WaitInv,
      Items, WorkItem, PacketItem, FlushItem, CloseItem, NoItem, WriterFlush,
      AfterFlush, Goto
<1>25. ASSUME WriterFlushFails PROVE CloseItemInv'
  BY <1>25 DEF TypeOK, HandInv, CloserInv, CloseItemInv, CloseNotSeen, WaitInv,
      Items, WorkItem, PacketItem, FlushItem, CloseItem, NoItem,
      WriterFlushFails, AfterFlush, LatchFault, Goto
<1>26. ASSUME WriterFlushSkipped PROVE CloseItemInv'
  BY <1>26 DEF TypeOK, HandInv, CloserInv, CloseItemInv, CloseNotSeen, WaitInv,
      Items, WorkItem, PacketItem, FlushItem, CloseItem, NoItem,
      WriterFlushSkipped, AfterFlush, Goto
<1>27. ASSUME WriterCloseStream PROVE CloseItemInv'
  BY <1>27 DEF TypeOK, HandInv, CloserInv, CloseItemInv, CloseNotSeen, WaitInv,
      Items, WorkItem, PacketItem, FlushItem, CloseItem, NoItem,
      WriterCloseStream, CloseFile, Goto
<1>28. ASSUME WriterCloseFails PROVE CloseItemInv'
  BY <1>28 DEF TypeOK, HandInv, CloserInv, CloseItemInv, CloseNotSeen, WaitInv,
      Items, WorkItem, PacketItem, FlushItem, CloseItem, NoItem,
      WriterCloseFails, CloseFile, LatchFault, Goto
<1>29. ASSUME WriterComplete PROVE CloseItemInv'
  BY <1>29 DEF TypeOK, HandInv, CloserInv, CloseItemInv, CloseNotSeen, WaitInv,
      Items, WorkItem, PacketItem, FlushItem, CloseItem, NoItem,
      WriterComplete, Goto
<1>30. CASE UNCHANGED vars
  BY <1>30 DEF TypeOK, HandInv, CloserInv, CloseItemInv, CloseNotSeen, WaitInv,
      Items, WorkItem, PacketItem, FlushItem, CloseItem, NoItem, vars
<1> QED BY <1>1, <1>2, <1>3, <1>4, <1>5, <1>6, <1>7, <1>8, <1>9, <1>10,
     <1>11, <1>12, <1>13, <1>14, <1>15, <1>16, <1>17, <1>18, <1>19, <1>20,
     <1>21, <1>22, <1>23, <1>24, <1>25, <1>26, <1>27, <1>28, <1>29, <1>30 DEF
     Next, Writer, Call, Proceed

(* Every step keeps CloseWaitInv: the thread a close item names.            *)
LEMMA CloseWaitInvStep ==
  ASSUME TypeOK, HandInv, CloserInv, CloseItemInv, CloseWaitInv, [Next]_vars
  PROVE  CloseWaitInv'
<1> USE SizesAssumption, LimitsAssumption, NoneAssumption
<1> USE DEF queueVars, statusVars, faultVars, fileVars, writerVars, exportVars,
             callVars
<1>1. ASSUME NEW t \in Threads, NEW p \in Packet, AppendAccepted(t, p) PROVE CloseWaitInv'
  <2>1. Queues(PacketItem(Len(accepted) + 1))
    BY <1>1, QueuesPacket
  <2>2. UNCHANGED hand /\ \A u \in Threads : pc[u] = "join" => pc'[u] = "join"
    BY <1>1 DEF TypeOK, AppendAccepted, Return
  <2> QED BY <2>1, <2>2 DEF CloseWaitInv, Queues, PacketItem, WorkItem
<1>2. ASSUME NEW t \in Threads, NEW p \in Packet, AppendOverflow(t, p) PROVE CloseWaitInv'
  BY <1>2 DEF TypeOK, CloserInv, HandInv, CloseItemInv, CloseWaitInv, Items,
      WorkItem, PacketItem, FlushItem, CloseItem, NoItem, AppendOverflow,
      LatchFault, Return
<1>3. ASSUME NEW t \in Threads, AppendRefused(t) PROVE CloseWaitInv'
  BY <1>3 DEF TypeOK, CloserInv, HandInv, CloseItemInv, CloseWaitInv, Items,
      WorkItem, PacketItem, FlushItem, CloseItem, NoItem, AppendRefused, Return
<1>4. ASSUME NEW t \in Threads, OutOfMemory(t) PROVE CloseWaitInv'
  BY <1>4 DEF TypeOK, CloserInv, HandInv, CloseItemInv, CloseWaitInv, Items,
      WorkItem, PacketItem, FlushItem, CloseItem, NoItem, OutOfMemory,
      LatchFault, Return
<1>5. ASSUME NEW t \in Threads, SnapshotQueueBarrier(t) PROVE CloseWaitInv'
  BY <1>5 DEF TypeOK, CloserInv, HandInv, CloseItemInv, CloseWaitInv, Items,
      WorkItem, PacketItem, FlushItem, CloseItem, NoItem, SnapshotQueueBarrier,
      OpenSnapshot, Begin
<1>6. ASSUME NEW t \in Threads, SnapshotAfterClose(t) PROVE CloseWaitInv'
  BY <1>6 DEF TypeOK, CloserInv, HandInv, CloseItemInv, CloseWaitInv, Items,
      WorkItem, PacketItem, FlushItem, CloseItem, NoItem, SnapshotAfterClose,
      OpenSnapshot, Begin
<1>7. ASSUME NEW t \in Threads, SnapshotRefused(t) PROVE CloseWaitInv'
  BY <1>7 DEF TypeOK, CloserInv, HandInv, CloseItemInv, CloseWaitInv, Items,
      WorkItem, PacketItem, FlushItem, CloseItem, NoItem, SnapshotRefused,
      OpenSnapshot, Return
<1>8. ASSUME NEW t \in Threads, CloseBegin(t) PROVE CloseWaitInv'
  BY <1>8 DEF TypeOK, CloserInv, HandInv, CloseItemInv, CloseWaitInv, Items,
      WorkItem, PacketItem, FlushItem, CloseItem, NoItem, CloseBegin, Begin
<1>9. ASSUME NEW t \in Threads, CloseAgain(t) PROVE CloseWaitInv'
  BY <1>9 DEF TypeOK, CloserInv, HandInv, CloseItemInv, CloseWaitInv, Items,
      WorkItem, PacketItem, FlushItem, CloseItem, NoItem, CloseAgain, Return
<1>10. ASSUME NEW t \in Threads, SnapshotBarrierDone(t) PROVE CloseWaitInv'
  BY <1>10 DEF TypeOK, CloserInv, HandInv, CloseItemInv, CloseWaitInv, Items,
      WorkItem, PacketItem, FlushItem, CloseItem, NoItem, SnapshotBarrierDone,
      Begin
<1>11. ASSUME NEW t \in Threads, SnapshotBarrierFailed(t) PROVE CloseWaitInv'
  BY <1>11 DEF TypeOK, CloserInv, HandInv, CloseItemInv, CloseWaitInv, Items,
      WorkItem, PacketItem, FlushItem, CloseItem, NoItem,
      SnapshotBarrierFailed, Return
<1>12. ASSUME NEW t \in Threads, SnapshotTakeIndex(t) PROVE CloseWaitInv'
  BY <1>12 DEF TypeOK, CloserInv, HandInv, CloseItemInv, CloseWaitInv, Items,
      WorkItem, PacketItem, FlushItem, CloseItem, NoItem, SnapshotTakeIndex,
      Return
<1>13. ASSUME NEW t \in Threads, CloseEnqueue(t) PROVE CloseWaitInv'
  BY <1>13 DEF TypeOK, CloserInv, HandInv, CloseItemInv, CloseWaitInv, Items,
      WorkItem, PacketItem, FlushItem, CloseItem, NoItem, CloseEnqueue, Begin
<1>14. ASSUME NEW t \in Threads, CloseOutOfMemory(t) PROVE CloseWaitInv'
  BY <1>14 DEF TypeOK, CloserInv, HandInv, CloseItemInv, CloseWaitInv, Items,
      WorkItem, PacketItem, FlushItem, CloseItem, NoItem, CloseOutOfMemory,
      LatchFault, Begin
<1>15. ASSUME NEW t \in Threads, CloseJoin(t) PROVE CloseWaitInv'
  BY <1>15 DEF TypeOK, CloserInv, HandInv, CloseItemInv, CloseWaitInv, Items,
      WorkItem, PacketItem, FlushItem, CloseItem, NoItem, CloseJoin, Return
<1>16. ASSUME WriterTakePacket PROVE CloseWaitInv'
  BY <1>16 DEF TypeOK, CloserInv, HandInv, CloseItemInv, CloseWaitInv, Items,
      WorkItem, PacketItem, FlushItem, CloseItem, NoItem, WriterTakePacket,
      TakeItem, Goto
<1>17. ASSUME WriterTakeBarrier PROVE CloseWaitInv'
  BY <1>17 DEF TypeOK, CloserInv, HandInv, CloseItemInv, CloseWaitInv, Items,
      WorkItem, PacketItem, FlushItem, CloseItem, NoItem, WriterTakeBarrier,
      TakeItem, Goto
<1>18. ASSUME WriterDrained PROVE CloseWaitInv'
  BY <1>18 DEF TypeOK, CloserInv, HandInv, CloseItemInv, CloseWaitInv, Items,
      WorkItem, PacketItem, FlushItem, CloseItem, NoItem, WriterDrained, Goto
<1>19. ASSUME WriterSkip PROVE CloseWaitInv'
  BY <1>19 DEF TypeOK, CloserInv, HandInv, CloseItemInv, CloseWaitInv, Items,
      WorkItem, PacketItem, FlushItem, CloseItem, NoItem, WriterSkip, NextItem,
      Goto
<1>20. ASSUME WriterWrite PROVE CloseWaitInv'
  BY <1>20 DEF TypeOK, CloserInv, HandInv, CloseItemInv, CloseWaitInv, Items,
      WorkItem, PacketItem, FlushItem, CloseItem, NoItem, WriterWrite,
      PutInStream, VisibleAfterWrite, Goto
<1>21. ASSUME WriterWriteFails PROVE CloseWaitInv'
  BY <1>21 DEF TypeOK, CloserInv, HandInv, CloseItemInv, CloseWaitInv, Items,
      WorkItem, PacketItem, FlushItem, CloseItem, NoItem, WriterWriteFails,
      LatchFault, NextItem, Goto
<1>22. ASSUME WriterBoundaryFails PROVE CloseWaitInv'
  BY <1>22 DEF TypeOK, CloserInv, HandInv, CloseItemInv, CloseWaitInv, Items,
      WorkItem, PacketItem, FlushItem, CloseItem, NoItem, WriterBoundaryFails,
      LatchFault, NextItem, Goto
<1>23. ASSUME WriterPublish PROVE CloseWaitInv'
  BY <1>23 DEF TypeOK, CloserInv, HandInv, CloseItemInv, CloseWaitInv, Items,
      WorkItem, PacketItem, FlushItem, CloseItem, NoItem, WriterPublish,
      NextItem, Goto
<1>24. ASSUME WriterFlush PROVE CloseWaitInv'
  BY <1>24 DEF TypeOK, CloserInv, HandInv, CloseItemInv, CloseWaitInv, Items,
      WorkItem, PacketItem, FlushItem, CloseItem, NoItem, WriterFlush,
      AfterFlush, Goto
<1>25. ASSUME WriterFlushFails PROVE CloseWaitInv'
  BY <1>25 DEF TypeOK, CloserInv, HandInv, CloseItemInv, CloseWaitInv, Items,
      WorkItem, PacketItem, FlushItem, CloseItem, NoItem, WriterFlushFails,
      AfterFlush, LatchFault, Goto
<1>26. ASSUME WriterFlushSkipped PROVE CloseWaitInv'
  BY <1>26 DEF TypeOK, CloserInv, HandInv, CloseItemInv, CloseWaitInv, Items,
      WorkItem, PacketItem, FlushItem, CloseItem, NoItem, WriterFlushSkipped,
      AfterFlush, Goto
<1>27. ASSUME WriterCloseStream PROVE CloseWaitInv'
  BY <1>27 DEF TypeOK, CloserInv, HandInv, CloseItemInv, CloseWaitInv, Items,
      WorkItem, PacketItem, FlushItem, CloseItem, NoItem, WriterCloseStream,
      CloseFile, Goto
<1>28. ASSUME WriterCloseFails PROVE CloseWaitInv'
  BY <1>28 DEF TypeOK, CloserInv, HandInv, CloseItemInv, CloseWaitInv, Items,
      WorkItem, PacketItem, FlushItem, CloseItem, NoItem, WriterCloseFails,
      CloseFile, LatchFault, Goto
<1>29. ASSUME WriterComplete PROVE CloseWaitInv'
  BY <1>29 DEF TypeOK, CloserInv, HandInv, CloseItemInv, CloseWaitInv, Items,
      WorkItem, PacketItem, FlushItem, CloseItem, NoItem, WriterComplete, Goto
<1>30. CASE UNCHANGED vars
  BY <1>30 DEF TypeOK, CloserInv, HandInv, CloseItemInv, CloseWaitInv, Items,
      WorkItem, PacketItem, FlushItem, CloseItem, NoItem, vars
<1> QED BY <1>1, <1>2, <1>3, <1>4, <1>5, <1>6, <1>7, <1>8, <1>9, <1>10,
     <1>11, <1>12, <1>13, <1>14, <1>15, <1>16, <1>17, <1>18, <1>19, <1>20,
     <1>21, <1>22, <1>23, <1>24, <1>25, <1>26, <1>27, <1>28, <1>29, <1>30 DEF
     Next, Writer, Call, Proceed

(* Every step keeps SealInv: the sealed file.                               *)
LEMMA SealInvStep ==
  ASSUME TypeOK, QueueInv, HandInv, FileInv, FaultInv, CloserInv, CloseItemInv, SealInv, [Next]_vars
  PROVE  SealInv'
<1> USE SizesAssumption, LimitsAssumption, NoneAssumption
<1> USE DEF queueVars, statusVars, faultVars, fileVars, writerVars, exportVars,
             callVars
<1>1. ASSUME NEW t \in Threads, NEW p \in Packet, AppendAccepted(t, p) PROVE SealInv'
  <2>1. ~closing /\ open /\ accepting
    BY <1>1 DEF TypeOK, FaultInv, AppendAccepted
  <2>2. wpc # "exited" /\ hand.kind # "close"
    BY <2>1 DEF CloseItemInv, CloseNotSeen
  <2>3. ~Sealed /\ \A u \in Threads : result[u] # "closed"
    BY <2>2 DEF Sealed, SealInv, HandInv
  <2>4. UNCHANGED <<wpc, hand>> /\ \A u \in Threads : result'[u] # "closed"
    BY <1>1, <2>3 DEF TypeOK, AppendAccepted, Return
  <2> QED BY <2>3, <2>4 DEF SealInv, Sealed
<1>2. ASSUME NEW t \in Threads, NEW p \in Packet, AppendOverflow(t, p) PROVE SealInv'
  BY <1>2 DEF TypeOK, HandInv, FaultInv, CloserInv, CloseItemInv, SealInv,
      Sealed, AppendOverflow, LatchFault, Return
<1>3. ASSUME NEW t \in Threads, AppendRefused(t) PROVE SealInv'
  BY <1>3 DEF TypeOK, HandInv, FaultInv, CloserInv, CloseItemInv, SealInv,
      Sealed, AppendRefused, Return
<1>4. ASSUME NEW t \in Threads, OutOfMemory(t) PROVE SealInv'
  BY <1>4 DEF TypeOK, HandInv, FaultInv, CloserInv, CloseItemInv, SealInv,
      Sealed, OutOfMemory, LatchFault, Return
<1>5. ASSUME NEW t \in Threads, SnapshotQueueBarrier(t) PROVE SealInv'
  BY <1>5 DEF TypeOK, HandInv, FaultInv, CloserInv, CloseItemInv, SealInv,
      Sealed, SnapshotQueueBarrier, OpenSnapshot, Begin
<1>6. ASSUME NEW t \in Threads, SnapshotAfterClose(t) PROVE SealInv'
  BY <1>6 DEF TypeOK, HandInv, FaultInv, CloserInv, CloseItemInv, SealInv,
      Sealed, SnapshotAfterClose, OpenSnapshot, Begin
<1>7. ASSUME NEW t \in Threads, SnapshotRefused(t) PROVE SealInv'
  BY <1>7 DEF TypeOK, HandInv, FaultInv, CloserInv, CloseItemInv, SealInv,
      Sealed, SnapshotRefused, OpenSnapshot, Return
<1>8. ASSUME NEW t \in Threads, CloseBegin(t) PROVE SealInv'
  BY <1>8 DEF TypeOK, HandInv, FaultInv, CloserInv, CloseItemInv, SealInv,
      Sealed, CloseBegin, Begin
<1>9. ASSUME NEW t \in Threads, CloseAgain(t) PROVE SealInv'
  BY <1>9 DEF TypeOK, HandInv, FaultInv, CloserInv, CloseItemInv, SealInv,
      Sealed, CloseAgain, Return
<1>10. ASSUME NEW t \in Threads, SnapshotBarrierDone(t) PROVE SealInv'
  BY <1>10 DEF TypeOK, HandInv, FaultInv, CloserInv, CloseItemInv, SealInv,
      Sealed, SnapshotBarrierDone, Begin
<1>11. ASSUME NEW t \in Threads, SnapshotBarrierFailed(t) PROVE SealInv'
  BY <1>11 DEF TypeOK, HandInv, FaultInv, CloserInv, CloseItemInv, SealInv,
      Sealed, SnapshotBarrierFailed, Return
<1>12. ASSUME NEW t \in Threads, SnapshotTakeIndex(t) PROVE SealInv'
  BY <1>12 DEF TypeOK, HandInv, FaultInv, CloserInv, CloseItemInv, SealInv,
      Sealed, SnapshotTakeIndex, Return
<1>13. ASSUME NEW t \in Threads, CloseEnqueue(t) PROVE SealInv'
  BY <1>13 DEF TypeOK, HandInv, FaultInv, CloserInv, CloseItemInv, SealInv,
      Sealed, CloseEnqueue, Begin
<1>14. ASSUME NEW t \in Threads, CloseOutOfMemory(t) PROVE SealInv'
  BY <1>14 DEF TypeOK, HandInv, FaultInv, CloserInv, CloseItemInv, SealInv,
      Sealed, CloseOutOfMemory, LatchFault, Begin
<1>15. ASSUME NEW t \in Threads, CloseJoin(t) PROVE SealInv'
  BY <1>15 DEF TypeOK, HandInv, FaultInv, CloserInv, CloseItemInv, SealInv,
      Sealed, CloseJoin, Return
<1>16. ASSUME WriterTakePacket PROVE SealInv'
  BY <1>16 DEF TypeOK, HandInv, FaultInv, CloserInv, CloseItemInv, SealInv,
      Sealed, WriterTakePacket, TakeItem, Goto
<1>17. ASSUME WriterTakeBarrier PROVE SealInv'
  BY <1>17 DEF TypeOK, HandInv, FaultInv, CloserInv, CloseItemInv, SealInv,
      Sealed, WriterTakeBarrier, TakeItem, Goto
<1>18. ASSUME WriterDrained PROVE SealInv'
  BY <1>18 DEF TypeOK, HandInv, FaultInv, CloserInv, CloseItemInv, SealInv,
      Sealed, WriterDrained, Goto
<1>19. ASSUME WriterSkip PROVE SealInv'
  BY <1>19 DEF TypeOK, HandInv, FaultInv, CloserInv, CloseItemInv, SealInv,
      Sealed, WriterSkip, NextItem, Goto
<1>20. ASSUME WriterWrite PROVE SealInv'
  BY <1>20 DEF TypeOK, HandInv, FaultInv, CloserInv, CloseItemInv, SealInv,
      Sealed, WriterWrite, PutInStream, VisibleAfterWrite, Goto
<1>21. ASSUME WriterWriteFails PROVE SealInv'
  BY <1>21 DEF TypeOK, HandInv, FaultInv, CloserInv, CloseItemInv, SealInv,
      Sealed, WriterWriteFails, LatchFault, NextItem, Goto
<1>22. ASSUME WriterBoundaryFails PROVE SealInv'
  BY <1>22 DEF TypeOK, HandInv, FaultInv, CloserInv, CloseItemInv, SealInv,
      Sealed, WriterBoundaryFails, LatchFault, NextItem, Goto
<1>23. ASSUME WriterPublish PROVE SealInv'
  BY <1>23 DEF TypeOK, HandInv, FaultInv, CloserInv, CloseItemInv, SealInv,
      Sealed, WriterPublish, NextItem, Goto
<1>24. ASSUME WriterFlush PROVE SealInv'
  <2>1. UNCHANGED <<accepted, result>> /\ wpc = "barrier" /\ wpc' # "exited" /\ wpc' # "wait"
    BY <1>24 DEF WriterFlush, AfterFlush, Goto
  <2>2. visible' = 2 * written /\ ~ioFailed
    BY <1>24 DEF WriterFlush
  <2>3. ASSUME hand.kind = "close" PROVE written = Len(accepted)
    <3>1. Taken = Len(accepted)
      BY <2>3, EmptyQueue DEF CloseItemInv
    <3> QED BY <2>1, <2>2, <3>1 DEF FileInv, TypeOK
  <2>4. hand' = hand /\ (wpc' = "closeStream" => hand.kind = "close")
    BY <1>24 DEF WriterFlush, AfterFlush, Goto
  <2> QED BY <2>1, <2>2, <2>3, <2>4 DEF SealInv, Sealed
<1>25. ASSUME WriterFlushFails PROVE SealInv'
  BY <1>25 DEF TypeOK, HandInv, FaultInv, CloserInv, CloseItemInv, SealInv,
      Sealed, WriterFlushFails, AfterFlush, LatchFault, Goto
<1>26. ASSUME WriterFlushSkipped PROVE SealInv'
  BY <1>26 DEF TypeOK, HandInv, FaultInv, CloserInv, CloseItemInv, SealInv,
      Sealed, WriterFlushSkipped, AfterFlush, Goto
<1>27. ASSUME WriterCloseStream PROVE SealInv'
  BY <1>27 DEF TypeOK, HandInv, FaultInv, CloserInv, CloseItemInv, SealInv,
      Sealed, WriterCloseStream, CloseFile, Goto
<1>28. ASSUME WriterCloseFails PROVE SealInv'
  BY <1>28 DEF TypeOK, HandInv, FaultInv, CloserInv, CloseItemInv, SealInv,
      Sealed, WriterCloseFails, CloseFile, LatchFault, Goto
<1>29. ASSUME WriterComplete PROVE SealInv'
  BY <1>29 DEF TypeOK, HandInv, FaultInv, CloserInv, CloseItemInv, SealInv,
      Sealed, WriterComplete, Goto
<1>30. CASE UNCHANGED vars
  BY <1>30 DEF TypeOK, HandInv, FaultInv, CloserInv, CloseItemInv, SealInv,
      Sealed, vars
<1> QED BY <1>1, <1>2, <1>3, <1>4, <1>5, <1>6, <1>7, <1>8, <1>9, <1>10,
     <1>11, <1>12, <1>13, <1>14, <1>15, <1>16, <1>17, <1>18, <1>19, <1>20,
     <1>21, <1>22, <1>23, <1>24, <1>25, <1>26, <1>27, <1>28, <1>29, <1>30 DEF
     Next, Writer, Call, Proceed

(* Every step keeps WaitInv: who waits for a barrier.                       *)
LEMMA WaitInvStep ==
  ASSUME TypeOK, HandInv, CloserInv, CloseItemInv, CloseWaitInv, WaitInv, [Next]_vars
  PROVE  WaitInv'
<1> USE SizesAssumption, LimitsAssumption, NoneAssumption
<1> USE DEF queueVars, statusVars, faultVars, fileVars, writerVars, exportVars,
             callVars
<1>1. ASSUME NEW t \in Threads, NEW p \in Packet, AppendAccepted(t, p) PROVE WaitInv'
  <2>1. Queues(PacketItem(Len(accepted) + 1))
    BY <1>1, QueuesPacket
  <2>2. /\ UNCHANGED <<hand, completion>> /\ pc[t] = "idle"
        /\ \A u \in Threads : u # t => pc'[u] = pc[u]
    BY <1>1 DEF TypeOK, AppendAccepted, Return
  <2>3. \A i \in DOMAIN work' :
          work'[i].kind = "flush" => i \in DOMAIN work /\ work'[i] = work[i]
    BY <2>1 DEF Queues, PacketItem, WorkItem
  <2> QED BY <2>2, <2>3 DEF WaitInv
<1>2. ASSUME NEW t \in Threads, NEW p \in Packet, AppendOverflow(t, p) PROVE WaitInv'
  BY <1>2 DEF TypeOK, HandInv, CloseWaitInv, CloserInv, WaitInv, Items,
      WorkItem, PacketItem, FlushItem, CloseItem, NoItem, AppendOverflow,
      LatchFault, Return
<1>3. ASSUME NEW t \in Threads, AppendRefused(t) PROVE WaitInv'
  BY <1>3 DEF TypeOK, HandInv, CloseWaitInv, CloserInv, WaitInv, Items,
      WorkItem, PacketItem, FlushItem, CloseItem, NoItem, AppendRefused, Return
<1>4. ASSUME NEW t \in Threads, OutOfMemory(t) PROVE WaitInv'
  BY <1>4 DEF TypeOK, HandInv, CloseWaitInv, CloserInv, WaitInv, Items,
      WorkItem, PacketItem, FlushItem, CloseItem, NoItem, OutOfMemory,
      LatchFault, Return
<1>5. ASSUME NEW t \in Threads, SnapshotQueueBarrier(t) PROVE WaitInv'
  <2>1. Queues(FlushItem(t))
    BY <1>5, QueuesFlush
  <2>2. /\ UNCHANGED hand /\ pc[t] = "idle" /\ pc'[t] = "barrier" /\ completion'[t] = "pending"
        /\ \A u \in Threads : u # t => pc'[u] = pc[u] /\ completion'[u] = completion[u]
    BY <1>5 DEF TypeOK, SnapshotQueueBarrier, OpenSnapshot, Begin
  <2>3. /\ \A i \in DOMAIN work : work[i].kind = "flush" => work[i].waiter # t
        /\ hand.kind = "flush" => hand.waiter # t
    BY <2>2 DEF WaitInv
  <2>4. \A i \in DOMAIN work' : \/ i \in DOMAIN work /\ work'[i] = work[i]
                                \/ i = Len(work) + 1 /\ work'[i].waiter = t
    BY <2>1 DEF Queues, FlushItem, WorkItem
  <2> QED BY <2>2, <2>3, <2>4 DEF WaitInv
<1>6. ASSUME NEW t \in Threads, SnapshotAfterClose(t) PROVE WaitInv'
  BY <1>6 DEF TypeOK, HandInv, CloseWaitInv, CloserInv, WaitInv, Items,
      WorkItem, PacketItem, FlushItem, CloseItem, NoItem, SnapshotAfterClose,
      OpenSnapshot, Begin
<1>7. ASSUME NEW t \in Threads, SnapshotRefused(t) PROVE WaitInv'
  BY <1>7 DEF TypeOK, HandInv, CloseWaitInv, CloserInv, WaitInv, Items,
      WorkItem, PacketItem, FlushItem, CloseItem, NoItem, SnapshotRefused,
      OpenSnapshot, Return
<1>8. ASSUME NEW t \in Threads, CloseBegin(t) PROVE WaitInv'
  BY <1>8 DEF TypeOK, HandInv, CloseWaitInv, CloserInv, WaitInv, Items,
      WorkItem, PacketItem, FlushItem, CloseItem, NoItem, CloseBegin, Begin
<1>9. ASSUME NEW t \in Threads, CloseAgain(t) PROVE WaitInv'
  BY <1>9 DEF TypeOK, HandInv, CloseWaitInv, CloserInv, WaitInv, Items,
      WorkItem, PacketItem, FlushItem, CloseItem, NoItem, CloseAgain, Return
<1>10. ASSUME NEW t \in Threads, SnapshotBarrierDone(t) PROVE WaitInv'
  BY <1>10 DEF TypeOK, HandInv, CloseWaitInv, CloserInv, WaitInv, Items,
      WorkItem, PacketItem, FlushItem, CloseItem, NoItem, SnapshotBarrierDone,
      Begin
<1>11. ASSUME NEW t \in Threads, SnapshotBarrierFailed(t) PROVE WaitInv'
  BY <1>11 DEF TypeOK, HandInv, CloseWaitInv, CloserInv, WaitInv, Items,
      WorkItem, PacketItem, FlushItem, CloseItem, NoItem,
      SnapshotBarrierFailed, Return
<1>12. ASSUME NEW t \in Threads, SnapshotTakeIndex(t) PROVE WaitInv'
  BY <1>12 DEF TypeOK, HandInv, CloseWaitInv, CloserInv, WaitInv, Items,
      WorkItem, PacketItem, FlushItem, CloseItem, NoItem, SnapshotTakeIndex,
      Return
<1>13. ASSUME NEW t \in Threads, CloseEnqueue(t) PROVE WaitInv'
  <2>1. Queues(CloseItem(t))
    BY <1>13, QueuesClose
  <2>2. /\ UNCHANGED hand /\ pc[t] = "pushClose"
        /\ \A u \in Threads : u # t => pc'[u] = pc[u] /\ completion'[u] = completion[u]
    BY <1>13 DEF TypeOK, CloseEnqueue, Begin
  <2>3. \A i \in DOMAIN work' :
          work'[i].kind = "flush" => i \in DOMAIN work /\ work'[i] = work[i]
    BY <2>1 DEF Queues, CloseItem, WorkItem
  <2> QED BY <2>2, <2>3 DEF WaitInv
<1>14. ASSUME NEW t \in Threads, CloseOutOfMemory(t) PROVE WaitInv'
  BY <1>14 DEF TypeOK, HandInv, CloseWaitInv, CloserInv, WaitInv, Items,
      WorkItem, PacketItem, FlushItem, CloseItem, NoItem, CloseOutOfMemory,
      LatchFault, Begin
<1>15. ASSUME NEW t \in Threads, CloseJoin(t) PROVE WaitInv'
  BY <1>15 DEF TypeOK, HandInv, CloseWaitInv, CloserInv, WaitInv, Items,
      WorkItem, PacketItem, FlushItem, CloseItem, NoItem, CloseJoin, Return
<1>16. ASSUME WriterTakePacket PROVE WaitInv'
  <2>1. Takes(Head(work)) /\ hand'.kind = "packet"
    BY <1>16, TakesHead DEF WriterTakePacket
  <2>2. UNCHANGED <<pc, completion>>
    BY <1>16 DEF WriterTakePacket
  <2>3. \A i \in DOMAIN work' : i + 1 \in DOMAIN work /\ work'[i] = work[i + 1] /\ i \in Nat
    BY <2>1 DEF Takes
  <2> QED BY <2>1, <2>2, <2>3 DEF WaitInv
<1>17. ASSUME WriterTakeBarrier PROVE WaitInv'
  <2>1. Takes(Head(work)) /\ hand' = work[1] /\ 1 \in DOMAIN work
    BY <1>17, TakesHead DEF WriterTakeBarrier, Takes
  <2>2. UNCHANGED <<pc, completion>>
    BY <1>17 DEF WriterTakeBarrier
  <2>3. \A i \in DOMAIN work' :
          i + 1 \in DOMAIN work /\ i + 1 # 1 /\ work'[i] = work[i + 1] /\ i \in Nat
    BY <2>1 DEF Takes
  <2> QED BY <2>1, <2>2, <2>3 DEF WaitInv
<1>18. ASSUME WriterDrained PROVE WaitInv'
  BY <1>18 DEF TypeOK, HandInv, CloseWaitInv, CloserInv, WaitInv, Items,
      WorkItem, PacketItem, FlushItem, CloseItem, NoItem, WriterDrained, Goto
<1>19. ASSUME WriterSkip PROVE WaitInv'
  BY <1>19 DEF TypeOK, HandInv, CloseWaitInv, CloserInv, WaitInv, Items,
      WorkItem, PacketItem, FlushItem, CloseItem, NoItem, WriterSkip, NextItem,
      Goto
<1>20. ASSUME WriterWrite PROVE WaitInv'
  BY <1>20 DEF TypeOK, HandInv, CloseWaitInv, CloserInv, WaitInv, Items,
      WorkItem, PacketItem, FlushItem, CloseItem, NoItem, WriterWrite,
      PutInStream, VisibleAfterWrite, Goto
<1>21. ASSUME WriterWriteFails PROVE WaitInv'
  BY <1>21 DEF TypeOK, HandInv, CloseWaitInv, CloserInv, WaitInv, Items,
      WorkItem, PacketItem, FlushItem, CloseItem, NoItem, WriterWriteFails,
      LatchFault, NextItem, Goto
<1>22. ASSUME WriterBoundaryFails PROVE WaitInv'
  BY <1>22 DEF TypeOK, HandInv, CloseWaitInv, CloserInv, WaitInv, Items,
      WorkItem, PacketItem, FlushItem, CloseItem, NoItem, WriterBoundaryFails,
      LatchFault, NextItem, Goto
<1>23. ASSUME WriterPublish PROVE WaitInv'
  BY <1>23 DEF TypeOK, HandInv, CloseWaitInv, CloserInv, WaitInv, Items,
      WorkItem, PacketItem, FlushItem, CloseItem, NoItem, WriterPublish,
      NextItem, Goto
<1>24. ASSUME WriterFlush PROVE WaitInv'
  BY <1>24 DEF TypeOK, HandInv, CloseWaitInv, CloserInv, WaitInv, Items,
      WorkItem, PacketItem, FlushItem, CloseItem, NoItem, WriterFlush,
      AfterFlush, Goto
<1>25. ASSUME WriterFlushFails PROVE WaitInv'
  BY <1>25 DEF TypeOK, HandInv, CloseWaitInv, CloserInv, WaitInv, Items,
      WorkItem, PacketItem, FlushItem, CloseItem, NoItem, WriterFlushFails,
      AfterFlush, LatchFault, Goto
<1>26. ASSUME WriterFlushSkipped PROVE WaitInv'
  BY <1>26 DEF TypeOK, HandInv, CloseWaitInv, CloserInv, WaitInv, Items,
      WorkItem, PacketItem, FlushItem, CloseItem, NoItem, WriterFlushSkipped,
      AfterFlush, Goto
<1>27. ASSUME WriterCloseStream PROVE WaitInv'
  BY <1>27 DEF TypeOK, HandInv, CloseWaitInv, CloserInv, WaitInv, Items,
      WorkItem, PacketItem, FlushItem, CloseItem, NoItem, WriterCloseStream,
      CloseFile, Goto
<1>28. ASSUME WriterCloseFails PROVE WaitInv'
  BY <1>28 DEF TypeOK, HandInv, CloseWaitInv, CloserInv, WaitInv, Items,
      WorkItem, PacketItem, FlushItem, CloseItem, NoItem, WriterCloseFails,
      CloseFile, LatchFault, Goto
<1>29. ASSUME WriterComplete PROVE WaitInv'
  BY <1>29 DEF TypeOK, HandInv, CloseWaitInv, CloserInv, WaitInv, Items,
      WorkItem, PacketItem, FlushItem, CloseItem, NoItem, WriterComplete, Goto
<1>30. CASE UNCHANGED vars
  BY <1>30 DEF TypeOK, HandInv, CloseWaitInv, CloserInv, WaitInv, Items,
      WorkItem, PacketItem, FlushItem, CloseItem, NoItem, vars
<1> QED BY <1>1, <1>2, <1>3, <1>4, <1>5, <1>6, <1>7, <1>8, <1>9, <1>10,
     <1>11, <1>12, <1>13, <1>14, <1>15, <1>16, <1>17, <1>18, <1>19, <1>20,
     <1>21, <1>22, <1>23, <1>24, <1>25, <1>26, <1>27, <1>28, <1>29, <1>30 DEF
     Next, Writer, Call, Proceed

(* Every step keeps MarkInv: the place of a barrier in the queue.           *)
LEMMA MarkInvStep ==
  ASSUME TypeOK, QueueInv, HandInv, WaitInv, MarkInv, [Next]_vars
  PROVE  MarkInv'
<1> USE SizesAssumption, LimitsAssumption, NoneAssumption
<1> USE DEF queueVars, statusVars, faultVars, fileVars, writerVars, exportVars,
             callVars
<1>1. ASSUME NEW t \in Threads, NEW p \in Packet, AppendAccepted(t, p) PROVE MarkInv'
  <2>1. Queues(PacketItem(Len(accepted) + 1))
    BY <1>1, QueuesPacket
  <2>2. /\ UNCHANGED <<hand, mark>> /\ Taken' = Taken
        /\ Len(accepted) \in Nat /\ Len(accepted') = Len(accepted) + 1 /\ mark \in [Threads -> Nat]
    BY <1>1 DEF TypeOK, AppendAccepted, Taken
  <2>3. \A i \in DOMAIN work' :
          \/ i \in DOMAIN work /\ work'[i] = work[i]
          \/ i = Len(work) + 1 /\ work'[i].kind = "packet" /\ work'[i].packet = Len(accepted) + 1
    BY <2>1 DEF Queues, PacketItem, WorkItem
  <2>4. \A i \in DOMAIN work : work[i].kind = "flush" => mark[work[i].waiter] < Len(accepted) + 1
    BY <2>2 DEF WaitInv, MarkInv
  <2>5. \A i, j \in DOMAIN work' :
          i < j /\ work'[i].kind = "flush" /\ work'[j].kind = "packet"
            => mark[work'[i].waiter] < work'[j].packet
    BY <2>1, <2>3, <2>4 DEF MarkInv, Queues
  <2> QED BY <2>2, <2>5 DEF MarkInv
<1>2. ASSUME NEW t \in Threads, NEW p \in Packet, AppendOverflow(t, p) PROVE MarkInv'
  BY <1>2 DEF TypeOK, HandInv, WaitInv, MarkInv, Taken, Items, WorkItem,
      PacketItem, FlushItem, CloseItem, NoItem, AppendOverflow, LatchFault,
      Return
<1>3. ASSUME NEW t \in Threads, AppendRefused(t) PROVE MarkInv'
  BY <1>3 DEF TypeOK, HandInv, WaitInv, MarkInv, Taken, Items, WorkItem,
      PacketItem, FlushItem, CloseItem, NoItem, AppendRefused, Return
<1>4. ASSUME NEW t \in Threads, OutOfMemory(t) PROVE MarkInv'
  BY <1>4 DEF TypeOK, HandInv, WaitInv, MarkInv, Taken, Items, WorkItem,
      PacketItem, FlushItem, CloseItem, NoItem, OutOfMemory, LatchFault, Return
<1>5. ASSUME NEW t \in Threads, SnapshotQueueBarrier(t) PROVE MarkInv'
  <2>1. Queues(FlushItem(t))
    BY <1>5, QueuesFlush
  <2>2. /\ UNCHANGED <<hand, accepted>> /\ Taken' = Taken /\ pc[t] = "idle"
        /\ mark'[t] = Len(accepted) /\ Len(accepted) \in Nat
        /\ \A u \in Threads : u # t => mark'[u] = mark[u]
    BY <1>5 DEF TypeOK, SnapshotQueueBarrier, OpenSnapshot, Taken
  <2>3. /\ \A i \in DOMAIN work : work[i].kind = "flush" => mark'[work[i].waiter] = mark[work[i].waiter]
        /\ hand.kind = "flush" => mark'[hand.waiter] = mark[hand.waiter]
    BY <2>2 DEF WaitInv
  <2>4. \A i, j \in DOMAIN work' : i < j /\ work'[j].kind = "packet" =>
          i \in DOMAIN work /\ work'[i] = work[i] /\ j \in DOMAIN work /\ work'[j] = work[j]
    BY <2>1 DEF Queues, FlushItem, WorkItem
  <2> QED BY <2>2, <2>3, <2>4 DEF MarkInv
<1>6. ASSUME NEW t \in Threads, SnapshotAfterClose(t) PROVE MarkInv'
  BY <1>6 DEF TypeOK, HandInv, WaitInv, MarkInv, Taken, Items, WorkItem,
      PacketItem, FlushItem, CloseItem, NoItem, SnapshotAfterClose,
      OpenSnapshot, Begin
<1>7. ASSUME NEW t \in Threads, SnapshotRefused(t) PROVE MarkInv'
  BY <1>7 DEF TypeOK, HandInv, WaitInv, MarkInv, Taken, Items, WorkItem,
      PacketItem, FlushItem, CloseItem, NoItem, SnapshotRefused, OpenSnapshot,
      Return
<1>8. ASSUME NEW t \in Threads, CloseBegin(t) PROVE MarkInv'
  BY <1>8 DEF TypeOK, HandInv, WaitInv, MarkInv, Taken, Items, WorkItem,
      PacketItem, FlushItem, CloseItem, NoItem, CloseBegin, Begin
<1>9. ASSUME NEW t \in Threads, CloseAgain(t) PROVE MarkInv'
  BY <1>9 DEF TypeOK, HandInv, WaitInv, MarkInv, Taken, Items, WorkItem,
      PacketItem, FlushItem, CloseItem, NoItem, CloseAgain, Return
<1>10. ASSUME NEW t \in Threads, SnapshotBarrierDone(t) PROVE MarkInv'
  BY <1>10 DEF TypeOK, HandInv, WaitInv, MarkInv, Taken, Items, WorkItem,
      PacketItem, FlushItem, CloseItem, NoItem, SnapshotBarrierDone, Begin
<1>11. ASSUME NEW t \in Threads, SnapshotBarrierFailed(t) PROVE MarkInv'
  BY <1>11 DEF TypeOK, HandInv, WaitInv, MarkInv, Taken, Items, WorkItem,
      PacketItem, FlushItem, CloseItem, NoItem, SnapshotBarrierFailed, Return
<1>12. ASSUME NEW t \in Threads, SnapshotTakeIndex(t) PROVE MarkInv'
  BY <1>12 DEF TypeOK, HandInv, WaitInv, MarkInv, Taken, Items, WorkItem,
      PacketItem, FlushItem, CloseItem, NoItem, SnapshotTakeIndex, Return
<1>13. ASSUME NEW t \in Threads, CloseEnqueue(t) PROVE MarkInv'
  <2>1. Queues(CloseItem(t))
    BY <1>13, QueuesClose
  <2>2. UNCHANGED <<hand, accepted, mark>> /\ Taken' = Taken
    BY <1>13 DEF CloseEnqueue, Taken
  <2>3. \A i \in DOMAIN work' : work'[i].kind \in {"flush", "packet"} =>
          i \in DOMAIN work /\ work'[i] = work[i]
    BY <2>1 DEF Queues, CloseItem, WorkItem
  <2> QED BY <2>2, <2>3 DEF MarkInv
<1>14. ASSUME NEW t \in Threads, CloseOutOfMemory(t) PROVE MarkInv'
  BY <1>14 DEF TypeOK, HandInv, WaitInv, MarkInv, Taken, Items, WorkItem,
      PacketItem, FlushItem, CloseItem, NoItem, CloseOutOfMemory, LatchFault,
      Begin
<1>15. ASSUME NEW t \in Threads, CloseJoin(t) PROVE MarkInv'
  BY <1>15 DEF TypeOK, HandInv, WaitInv, MarkInv, Taken, Items, WorkItem,
      PacketItem, FlushItem, CloseItem, NoItem, CloseJoin, Return
<1>16. ASSUME WriterTakePacket PROVE MarkInv'
  <2>1. Takes(Head(work)) /\ hand'.kind = "packet"
    BY <1>16, TakesHead DEF WriterTakePacket
  <2>2. UNCHANGED <<accepted, mark>>
    BY <1>16 DEF WriterTakePacket
  <2>3. \A i \in DOMAIN work' : i + 1 \in DOMAIN work /\ work'[i] = work[i + 1] /\ i \in Nat
    BY <2>1 DEF Takes
  <2> QED BY <2>1, <2>2, <2>3 DEF MarkInv
<1>17. ASSUME WriterTakeBarrier PROVE MarkInv'
  <2>0. Takes(Head(work)) /\ hand'.kind # "packet"
    BY <1>17, TakesHead DEF WriterTakeBarrier
  <2>1. hand' = work[1] /\ 1 \in DOMAIN work /\ work[1].kind # "packet" /\ Takes(Head(work))
    BY <2>0 DEF Takes
  <2>2. UNCHANGED <<accepted, mark>> /\ Taken' = Taken
    BY <1>17 DEF WriterTakeBarrier, Taken
  <2>3. \A i \in DOMAIN work' : i + 1 \in DOMAIN work /\ work'[i] = work[i + 1] /\ i \in Nat
    BY <2>1 DEF Takes
  <2>4. ASSUME work[1].kind = "flush", mark[work[1].waiter] > Taken PROVE FALSE
    <3>1. work[1].waiter \in Threads
      BY <2>1, <2>4 DEF WaitInv
    <3>2. Taken + 1 \in Taken + 1..Len(accepted)
      BY <2>4, <3>1 DEF MarkInv, Taken, TypeOK
    <3>3. PICK j \in DOMAIN work : work[j].kind = "packet" /\ work[j].packet = Taken + 1
      BY <3>2 DEF QueueInv
    <3>4. 1 < j
      BY <2>1, <3>3 DEF Takes
    <3>5. mark[work[1].waiter] < Taken + 1
      BY <2>1, <2>4, <3>3, <3>4 DEF MarkInv
    <3> QED BY <2>4, <3>1, <3>5 DEF TypeOK, Taken
  <2>5. work[1].kind = "flush" => mark[work[1].waiter] <= Taken
    BY <2>1, <2>4 DEF TypeOK, Taken, WaitInv
  <2> QED BY <2>1, <2>2, <2>3, <2>5 DEF MarkInv
<1>18. ASSUME WriterDrained PROVE MarkInv'
  BY <1>18 DEF TypeOK, HandInv, WaitInv, MarkInv, Taken, Items, WorkItem,
      PacketItem, FlushItem, CloseItem, NoItem, WriterDrained, Goto
<1>19. ASSUME WriterSkip PROVE MarkInv'
  BY <1>19 DEF TypeOK, HandInv, WaitInv, MarkInv, Taken, Items, WorkItem,
      PacketItem, FlushItem, CloseItem, NoItem, WriterSkip, NextItem, Goto
<1>20. ASSUME WriterWrite PROVE MarkInv'
  BY <1>20 DEF TypeOK, HandInv, WaitInv, MarkInv, Taken, Items, WorkItem,
      PacketItem, FlushItem, CloseItem, NoItem, WriterWrite, PutInStream,
      VisibleAfterWrite, Goto
<1>21. ASSUME WriterWriteFails PROVE MarkInv'
  BY <1>21 DEF TypeOK, HandInv, WaitInv, MarkInv, Taken, Items, WorkItem,
      PacketItem, FlushItem, CloseItem, NoItem, WriterWriteFails, LatchFault,
      NextItem, Goto
<1>22. ASSUME WriterBoundaryFails PROVE MarkInv'
  BY <1>22 DEF TypeOK, HandInv, WaitInv, MarkInv, Taken, Items, WorkItem,
      PacketItem, FlushItem, CloseItem, NoItem, WriterBoundaryFails,
      LatchFault, NextItem, Goto
<1>23. ASSUME WriterPublish PROVE MarkInv'
  BY <1>23 DEF TypeOK, HandInv, WaitInv, MarkInv, Taken, Items, WorkItem,
      PacketItem, FlushItem, CloseItem, NoItem, WriterPublish, NextItem, Goto
<1>24. ASSUME WriterFlush PROVE MarkInv'
  BY <1>24 DEF TypeOK, HandInv, WaitInv, MarkInv, Taken, Items, WorkItem,
      PacketItem, FlushItem, CloseItem, NoItem, WriterFlush, AfterFlush, Goto
<1>25. ASSUME WriterFlushFails PROVE MarkInv'
  BY <1>25 DEF TypeOK, HandInv, WaitInv, MarkInv, Taken, Items, WorkItem,
      PacketItem, FlushItem, CloseItem, NoItem, WriterFlushFails, AfterFlush,
      LatchFault, Goto
<1>26. ASSUME WriterFlushSkipped PROVE MarkInv'
  BY <1>26 DEF TypeOK, HandInv, WaitInv, MarkInv, Taken, Items, WorkItem,
      PacketItem, FlushItem, CloseItem, NoItem, WriterFlushSkipped, AfterFlush,
      Goto
<1>27. ASSUME WriterCloseStream PROVE MarkInv'
  BY <1>27 DEF TypeOK, HandInv, WaitInv, MarkInv, Taken, Items, WorkItem,
      PacketItem, FlushItem, CloseItem, NoItem, WriterCloseStream, CloseFile,
      Goto
<1>28. ASSUME WriterCloseFails PROVE MarkInv'
  BY <1>28 DEF TypeOK, HandInv, WaitInv, MarkInv, Taken, Items, WorkItem,
      PacketItem, FlushItem, CloseItem, NoItem, WriterCloseFails, CloseFile,
      LatchFault, Goto
<1>29. ASSUME WriterComplete PROVE MarkInv'
  BY <1>29 DEF TypeOK, HandInv, WaitInv, MarkInv, Taken, Items, WorkItem,
      PacketItem, FlushItem, CloseItem, NoItem, WriterComplete, Goto
<1>30. CASE UNCHANGED vars
  BY <1>30 DEF TypeOK, HandInv, WaitInv, MarkInv, Taken, Items, WorkItem,
      PacketItem, FlushItem, CloseItem, NoItem, vars
<1> QED BY <1>1, <1>2, <1>3, <1>4, <1>5, <1>6, <1>7, <1>8, <1>9, <1>10,
     <1>11, <1>12, <1>13, <1>14, <1>15, <1>16, <1>17, <1>18, <1>19, <1>20,
     <1>21, <1>22, <1>23, <1>24, <1>25, <1>26, <1>27, <1>28, <1>29, <1>30 DEF
     Next, Writer, Call, Proceed

(* Every step keeps CoverInv: what a barrier promises.                      *)
LEMMA CoverInvStep ==
  ASSUME TypeOK, QueueInv, HandInv, FileInv, FaultInv, CloserInv, CloseItemInv, CloseWaitInv, SealInv, WaitInv, MarkInv, CoverInv, [Next]_vars
  PROVE  CoverInv'
<1> USE SizesAssumption, LimitsAssumption, NoneAssumption
<1> USE DEF queueVars, statusVars, faultVars, fileVars, writerVars, exportVars,
             callVars
<1>1. ASSUME NEW t \in Threads, NEW p \in Packet, AppendAccepted(t, p) PROVE CoverInv'
  BY <1>1 DEF TypeOK, HandInv, WaitInv, CloseWaitInv, CoverInv, Covered,
      Recovered, Items, WorkItem, PacketItem, FlushItem, CloseItem, NoItem,
      AppendAccepted, Return
<1>2. ASSUME NEW t \in Threads, NEW p \in Packet, AppendOverflow(t, p) PROVE CoverInv'
  BY <1>2 DEF TypeOK, HandInv, WaitInv, CloseWaitInv, CoverInv, Covered,
      Recovered, Items, WorkItem, PacketItem, FlushItem, CloseItem, NoItem,
      AppendOverflow, LatchFault, Return
<1>3. ASSUME NEW t \in Threads, AppendRefused(t) PROVE CoverInv'
  BY <1>3 DEF TypeOK, HandInv, WaitInv, CloseWaitInv, CoverInv, Covered,
      Recovered, Items, WorkItem, PacketItem, FlushItem, CloseItem, NoItem,
      AppendRefused, Return
<1>4. ASSUME NEW t \in Threads, OutOfMemory(t) PROVE CoverInv'
  BY <1>4 DEF TypeOK, HandInv, WaitInv, CloseWaitInv, CoverInv, Covered,
      Recovered, Items, WorkItem, PacketItem, FlushItem, CloseItem, NoItem,
      OutOfMemory, LatchFault, Return
<1>5. ASSUME NEW t \in Threads, SnapshotQueueBarrier(t) PROVE CoverInv'
  BY <1>5 DEF TypeOK, HandInv, WaitInv, CloseWaitInv, CoverInv, Covered,
      Recovered, Items, WorkItem, PacketItem, FlushItem, CloseItem, NoItem,
      SnapshotQueueBarrier, OpenSnapshot, Begin
<1>6. ASSUME NEW t \in Threads, SnapshotAfterClose(t) PROVE CoverInv'
  <2>1. wpc = "exited" /\ ~ioFailed /\ work = <<>>
    BY <1>6 DEF TypeOK, SnapshotAfterClose, FaultInv, CloserInv, CloseItemInv
  <2>2. Taken = Len(accepted) /\ visible = 2 * Len(accepted) /\ Len(accepted) \in Nat
    BY <2>1, EmptyQueue DEF SealInv, Sealed, TypeOK
  <2>3. Len(persisted) = Len(accepted) /\ Recovered = Len(accepted)
    BY <2>1, <2>2, HalfGrows DEF FileInv, Recovered
  <2>4. /\ UNCHANGED <<wpc, hand, streamOk, visible, persisted, completion>>
        /\ mark'[t] = Len(accepted) /\ pc'[t] = "index" /\ result'[t] = "none"
        /\ \A u \in Threads : u # t => /\ pc'[u] = pc[u] /\ result'[u] = result[u]
                                       /\ mark'[u] = mark[u] /\ snapshot'[u] = snapshot[u]
    BY <1>6 DEF TypeOK, SnapshotAfterClose, OpenSnapshot, Begin
  <2> QED BY <2>1, <2>2, <2>3, <2>4 DEF CoverInv, Covered, Recovered
<1>7. ASSUME NEW t \in Threads, SnapshotRefused(t) PROVE CoverInv'
  BY <1>7 DEF TypeOK, HandInv, WaitInv, CloseWaitInv, CoverInv, Covered,
      Recovered, Items, WorkItem, PacketItem, FlushItem, CloseItem, NoItem,
      SnapshotRefused, OpenSnapshot, Return
<1>8. ASSUME NEW t \in Threads, CloseBegin(t) PROVE CoverInv'
  BY <1>8 DEF TypeOK, HandInv, WaitInv, CloseWaitInv, CoverInv, Covered,
      Recovered, Items, WorkItem, PacketItem, FlushItem, CloseItem, NoItem,
      CloseBegin, Begin
<1>9. ASSUME NEW t \in Threads, CloseAgain(t) PROVE CoverInv'
  BY <1>9 DEF TypeOK, HandInv, WaitInv, CloseWaitInv, CoverInv, Covered,
      Recovered, Items, WorkItem, PacketItem, FlushItem, CloseItem, NoItem,
      CloseAgain, Return
<1>10. ASSUME NEW t \in Threads, SnapshotBarrierDone(t) PROVE CoverInv'
  BY <1>10 DEF TypeOK, HandInv, WaitInv, CloseWaitInv, CoverInv, Covered,
      Recovered, Items, WorkItem, PacketItem, FlushItem, CloseItem, NoItem,
      SnapshotBarrierDone, Begin
<1>11. ASSUME NEW t \in Threads, SnapshotBarrierFailed(t) PROVE CoverInv'
  BY <1>11 DEF TypeOK, HandInv, WaitInv, CloseWaitInv, CoverInv, Covered,
      Recovered, Items, WorkItem, PacketItem, FlushItem, CloseItem, NoItem,
      SnapshotBarrierFailed, Return
<1>12. ASSUME NEW t \in Threads, SnapshotTakeIndex(t) PROVE CoverInv'
  BY <1>12 DEF TypeOK, HandInv, WaitInv, CloseWaitInv, CoverInv, Covered,
      Recovered, Items, WorkItem, PacketItem, FlushItem, CloseItem, NoItem,
      SnapshotTakeIndex, Return
<1>13. ASSUME NEW t \in Threads, CloseEnqueue(t) PROVE CoverInv'
  BY <1>13 DEF TypeOK, HandInv, WaitInv, CloseWaitInv, CoverInv, Covered,
      Recovered, Items, WorkItem, PacketItem, FlushItem, CloseItem, NoItem,
      CloseEnqueue, Begin
<1>14. ASSUME NEW t \in Threads, CloseOutOfMemory(t) PROVE CoverInv'
  BY <1>14 DEF TypeOK, HandInv, WaitInv, CloseWaitInv, CoverInv, Covered,
      Recovered, Items, WorkItem, PacketItem, FlushItem, CloseItem, NoItem,
      CloseOutOfMemory, LatchFault, Begin
<1>15. ASSUME NEW t \in Threads, CloseJoin(t) PROVE CoverInv'
  BY <1>15 DEF TypeOK, HandInv, WaitInv, CloseWaitInv, CoverInv, Covered,
      Recovered, Items, WorkItem, PacketItem, FlushItem, CloseItem, NoItem,
      CloseJoin, Return
<1>16. ASSUME WriterTakePacket PROVE CoverInv'
  BY <1>16 DEF TypeOK, HandInv, WaitInv, CloseWaitInv, CoverInv, Covered,
      Recovered, Items, WorkItem, PacketItem, FlushItem, CloseItem, NoItem,
      WriterTakePacket, TakeItem, Goto
<1>17. ASSUME WriterTakeBarrier PROVE CoverInv'
  BY <1>17 DEF TypeOK, HandInv, WaitInv, CloseWaitInv, CoverInv, Covered,
      Recovered, Items, WorkItem, PacketItem, FlushItem, CloseItem, NoItem,
      WriterTakeBarrier, TakeItem, Goto
<1>18. ASSUME WriterDrained PROVE CoverInv'
  BY <1>18 DEF TypeOK, HandInv, WaitInv, CloseWaitInv, CoverInv, Covered,
      Recovered, Items, WorkItem, PacketItem, FlushItem, CloseItem, NoItem,
      WriterDrained, Goto
<1>19. ASSUME WriterSkip PROVE CoverInv'
  BY <1>19 DEF TypeOK, HandInv, WaitInv, CloseWaitInv, CoverInv, Covered,
      Recovered, Items, WorkItem, PacketItem, FlushItem, CloseItem, NoItem,
      WriterSkip, NextItem, Goto
<1>20. ASSUME WriterWrite PROVE CoverInv'
  <2>1. visible' \in Nat /\ visible <= visible' /\ wpc' = "publish"
    BY <1>20 DEF TypeOK, FileInv, WriterWrite, PutInStream, VisibleAfterWrite,
      Goto
  <2>2. /\ UNCHANGED <<pc, completion, result, mark, snapshot, persisted, hand>>
        /\ mark \in [Threads -> Nat]
    BY <1>20 DEF TypeOK, WriterWrite, PutInStream
  <2>3. Recovered \in Nat /\ Recovered' \in Nat /\ Recovered <= Recovered'
    BY <2>1, RecoveredGrows
  <2>4. \A u \in Threads : Covered(u) => Covered(u)'
    BY <2>2, <2>3 DEF Covered
  <2> QED BY <2>1, <2>2, <2>3, <2>4 DEF CoverInv
<1>21. ASSUME WriterWriteFails PROVE CoverInv'
  BY <1>21 DEF TypeOK, HandInv, WaitInv, CloseWaitInv, CoverInv, Covered,
      Recovered, Items, WorkItem, PacketItem, FlushItem, CloseItem, NoItem,
      WriterWriteFails, LatchFault, NextItem, Goto
<1>22. ASSUME WriterBoundaryFails PROVE CoverInv'
  BY <1>22 DEF TypeOK, HandInv, WaitInv, CloseWaitInv, CoverInv, Covered,
      Recovered, Items, WorkItem, PacketItem, FlushItem, CloseItem, NoItem,
      WriterBoundaryFails, LatchFault, NextItem, Goto
<1>23. ASSUME WriterPublish PROVE CoverInv'
  BY <1>23 DEF TypeOK, HandInv, WaitInv, CloseWaitInv, CoverInv, Covered,
      Recovered, Items, WorkItem, PacketItem, FlushItem, CloseItem, NoItem,
      WriterPublish, NextItem, Goto
<1>24. ASSUME WriterFlush PROVE CoverInv'
  <2>1. visible' \in Nat /\ visible <= visible' /\ visible' = 2 * written
    BY <1>24 DEF TypeOK, FileInv, WriterFlush
  <2>2. /\ UNCHANGED <<pc, completion, result, mark, snapshot, persisted, hand>>
        /\ mark \in [Threads -> Nat]
    BY <1>24 DEF TypeOK, WriterFlush, AfterFlush
  <2>3. Recovered \in Nat /\ Recovered' \in Nat /\ Recovered <= Recovered'
    BY <2>1, RecoveredGrows
  <2>4. \A u \in Threads : Covered(u) => Covered(u)'
    BY <2>2, <2>3 DEF Covered
  <2>5. wpc = "barrier" /\ ~ioFailed /\ written \in Nat
    BY <1>24 DEF TypeOK, WriterFlush, AfterFlush
  <2>6. Recovered' = written /\ Len(persisted) = written /\ Taken = written
    BY <2>1, <2>5, HalfGrows DEF Recovered, FileInv, TypeOK, Taken
  <2>7. hand.kind = "flush" => Covered(hand.waiter)'
    BY <2>2, <2>6 DEF MarkInv, Covered
  <2> QED BY <2>2, <2>3, <2>4, <2>7 DEF CoverInv
<1>25. ASSUME WriterFlushFails PROVE CoverInv'
  BY <1>25 DEF TypeOK, HandInv, WaitInv, CloseWaitInv, CoverInv, Covered,
      Recovered, Items, WorkItem, PacketItem, FlushItem, CloseItem, NoItem,
      WriterFlushFails, AfterFlush, LatchFault, Goto
<1>26. ASSUME WriterFlushSkipped PROVE CoverInv'
  BY <1>26 DEF TypeOK, HandInv, WaitInv, CloseWaitInv, CoverInv, Covered,
      Recovered, Items, WorkItem, PacketItem, FlushItem, CloseItem, NoItem,
      WriterFlushSkipped, AfterFlush, Goto
<1>27. ASSUME WriterCloseStream PROVE CoverInv'
  BY <1>27 DEF TypeOK, HandInv, WaitInv, CloseWaitInv, CoverInv, Covered,
      Recovered, Items, WorkItem, PacketItem, FlushItem, CloseItem, NoItem,
      WriterCloseStream, CloseFile, Goto
<1>28. ASSUME WriterCloseFails PROVE CoverInv'
  BY <1>28 DEF TypeOK, HandInv, WaitInv, CloseWaitInv, CoverInv, Covered,
      Recovered, Items, WorkItem, PacketItem, FlushItem, CloseItem, NoItem,
      WriterCloseFails, CloseFile, LatchFault, Goto
<1>29. ASSUME WriterComplete PROVE CoverInv'
  BY <1>29 DEF TypeOK, HandInv, WaitInv, CloseWaitInv, CoverInv, Covered,
      Recovered, Items, WorkItem, PacketItem, FlushItem, CloseItem, NoItem,
      WriterComplete, Goto
<1>30. CASE UNCHANGED vars
  BY <1>30 DEF TypeOK, HandInv, WaitInv, CloseWaitInv, CoverInv, Covered,
      Recovered, Items, WorkItem, PacketItem, FlushItem, CloseItem, NoItem,
      vars
<1> QED BY <1>1, <1>2, <1>3, <1>4, <1>5, <1>6, <1>7, <1>8, <1>9, <1>10,
     <1>11, <1>12, <1>13, <1>14, <1>15, <1>16, <1>17, <1>18, <1>19, <1>20,
     <1>21, <1>22, <1>23, <1>24, <1>25, <1>26, <1>27, <1>28, <1>29, <1>30 DEF
     Next, Writer, Call, Proceed

-----------------------------------------------------------------------------
(* The inductive invariant.                                                 *)

LEMMA InitInv == Init => IInv
<1> SUFFICES ASSUME Init PROVE IInv
  OBVIOUS
<1> USE LimitsAssumption, NoneAssumption DEF Init
<1>1. TypeOK
  <2>1. accepted \in Seq(Packet) /\ work \in Seq(Items) /\ persisted \in Seq(Nat)
    OBVIOUS
  <2>2. /\ pc \in [Threads -> CallLocations]
        /\ completion \in [Threads -> {"none", "pending", "ok", "failed"}]
    BY DEF CallLocations
  <2>3. /\ mark \in [Threads -> Nat] /\ snapshot \in [Threads -> Seq(Nat)]
        /\ result \in [Threads -> {"none", "appended", "failed", "snapshot", "closed"}]
    OBVIOUS
  <2>4. queuedPackets \in Nat /\ queuedBytes \in Int /\ written \in Nat /\ visible \in Nat
    OBVIOUS
  <2>5. /\ accepting \in BOOLEAN /\ open \in BOOLEAN /\ closing \in BOOLEAN
        /\ closeWhenDrained \in BOOLEAN /\ ioFailed \in BOOLEAN /\ fault \in BOOLEAN
    OBVIOUS
  <2>6. /\ wpc \in WriterLocations /\ hand \in Items \cup {NoItem} /\ streamOk \in BOOLEAN
        /\ closer \in Threads \cup {None} /\ joined \in BOOLEAN
    BY DEF WriterLocations
  <2> QED BY ONLY <2>1, <2>2, <2>3, <2>4, <2>5, <2>6 DEF TypeOK
<1>2. QueueInv /\ HandInv
  BY DEF QueueInv, HandInv, Taken, NoItem, WorkItem
<1>3. FileInv
  BY DEF FileInv, Taken, IndexInAcceptedOrder, BoundaryPacketsSurviveCrash
<1>4. FaultInv /\ CloserInv /\ CloseItemInv /\ CloseWaitInv
  BY DEF FaultInv, CloserInv, CloseItemInv, CloseNotSeen, CloseWaitInv, NoItem, WorkItem
<1>5. SealInv /\ WaitInv /\ MarkInv /\ CoverInv
  BY DEF SealInv, Sealed, WaitInv, MarkInv, CoverInv, Covered, NoItem, WorkItem
<1> QED BY <1>1, <1>2, <1>3, <1>4, <1>5 DEF IInv
LEMMA StepInv == IInv /\ [Next]_vars => IInv'
<1> SUFFICES ASSUME IInv, [Next]_vars PROVE IInv'
  OBVIOUS
<1>1. TypeOK' /\ QueueInv' /\ HandInv' /\ FileInv'
  BY TypeOKStep, QueueInvStep, HandInvStep, FileInvStep DEF IInv
<1>2. FaultInv' /\ CloserInv' /\ CloseItemInv' /\ CloseWaitInv'
  BY FaultInvStep, CloserInvStep, CloseItemInvStep, CloseWaitInvStep DEF IInv
<1>3. SealInv' /\ WaitInv' /\ MarkInv' /\ CoverInv'
  BY SealInvStep, WaitInvStep, MarkInvStep, CoverInvStep DEF IInv
<1> QED BY <1>1, <1>2, <1>3 DEF IInv

(* Every reachable state satisfies the inductive invariant.                *)
THEOREM Invariance == Spec => []IInv
BY InitInv, StepInv, PTL DEF Spec

-----------------------------------------------------------------------------
(* The properties of the store.                                            *)

(* The variables keep their types; no counter of the queue goes negative.  *)
THEOREM TypeCorrect == Spec => []TypeOK
<1>1. IInv => TypeOK
  BY DEF IInv
<1> QED BY <1>1, Invariance, PTL

(* The index lists the first packets accepted, in order, without a gap.    *)
THEOREM IndexOrder == Spec => []IndexInAcceptedOrder
<1>1. IInv => IndexInAcceptedOrder
  BY DEF IInv, FileInv
<1> QED BY <1>1, Invariance, PTL

(* An export sees every packet accepted before its barrier was queued.     *)
THEOREM ExportSnapshot == Spec => []ExportSeesAcceptedPackets
<1>1. IInv => ExportSeesAcceptedPackets
  BY DEF IInv, CoverInv, ExportSeesAcceptedPackets
<1> QED BY <1>1, Invariance, PTL

(* Indexed key, config and discontinuity packets survive a crash.          *)
THEOREM BoundarySurvives == Spec => []BoundaryPacketsSurviveCrash
<1>1. IInv => BoundaryPacketsSurviveCrash
  BY DEF IInv, FileInv
<1> QED BY <1>1, Invariance, PTL

(* A Close that reports success leaves every accepted packet recoverable.  *)
THEOREM CloseRecoverable == Spec => []CloseMakesAllRecoverable
<1>1. ASSUME IInv PROVE CloseMakesAllRecoverable
  <2>1. Len(accepted) \in Nat
    BY DEF IInv, TypeOK
  <2> QED BY <1>1, <2>1, HalfGrows DEF IInv, SealInv, CloseMakesAllRecoverable, Recovered
<1> QED BY <1>1, Invariance, PTL

(* Unless the file failed, the writer leaves with every accepted packet in *)
(* the file, whatever was rejected meanwhile.                              *)
THEOREM RejectionHarmless == Spec => []RejectionLosesNothingAccepted
<1>1. ASSUME IInv PROVE RejectionLosesNothingAccepted
  <2>1. Len(accepted) \in Nat
    BY DEF IInv, TypeOK
  <2> QED BY <1>1, <2>1, HalfGrows
           DEF IInv, SealInv, Sealed, RejectionLosesNothingAccepted, Recovered
<1> QED BY <1>1, Invariance, PTL

(* The queue holds the packets not yet taken, and counts them.             *)
LEMMA QueuedAreAll ==
  ASSUME TypeOK, QueueInv
  PROVE  QueuedIds = Taken + 1..Len(accepted) /\ QueuedIds \in SUBSET (1..Len(accepted))
<1>1. QueuedIds \subseteq Taken + 1..Len(accepted)
  BY DEF QueuedIds, QueueInv
<1>2. ASSUME NEW k \in Taken + 1..Len(accepted) PROVE k \in QueuedIds
  <2>1. PICK i \in DOMAIN work : work[i].kind = "packet" /\ work[i].packet = k
    BY DEF QueueInv
  <2> QED BY <2>1 DEF QueuedIds
<1>3. Len(accepted) \in Nat /\ queuedPackets \in Nat /\ queuedPackets <= Len(accepted)
  BY DEF TypeOK, QueueInv
<1>4. Taken + 1..Len(accepted) \subseteq 1..Len(accepted)
  BY <1>3 DEF Taken
<1> QED BY <1>1, <1>2, <1>4

LEMMA QueuedAreNotTaken ==
  ASSUME TypeOK, QueueInv
  PROVE  Cardinality(QueuedIds) = queuedPackets
<1>1. QueuedIds = Taken + 1..Len(accepted)
  BY QueuedAreAll
<1>2. Len(accepted) \in Nat /\ queuedPackets \in Nat /\ queuedPackets <= Len(accepted)
  BY DEF TypeOK, QueueInv
<1>3. Cardinality(Taken + 1..Len(accepted)) =
        IF Taken + 1 > Len(accepted) THEN 0 ELSE Len(accepted) - (Taken + 1) + 1
  <2>1. Taken + 1 \in Int /\ Len(accepted) \in Int
    BY <1>2 DEF Taken
  <2> QED BY <2>1, FS_Interval
<1> QED BY <1>1, <1>2, <1>3 DEF Taken

(* Only an accepted packet and one that is taken change the counters.      *)
LEMMA CountersStay ==
  ASSUME [Next]_vars, ~WriterTakePacket,
         \A t \in Threads : \A p \in Packet : ~AppendAccepted(t, p)
  PROVE  UNCHANGED <<accepted, queuedPackets, queuedBytes>>
<1> USE DEF queueVars
<1>1. ASSUME NEW t \in Threads, Call(t) \/ Proceed(t)
      PROVE  UNCHANGED <<accepted, queuedPackets, queuedBytes>>
  <2>1. ASSUME NEW p \in Packet, AppendOverflow(t, p)
        PROVE  UNCHANGED <<accepted, queuedPackets, queuedBytes>>
    BY <2>1 DEF AppendOverflow
  <2>2. CASE \/ AppendRefused(t) \/ OutOfMemory(t) \/ SnapshotQueueBarrier(t)
             \/ SnapshotAfterClose(t) \/ SnapshotRefused(t)
    BY <2>2 DEF AppendRefused, OutOfMemory, SnapshotQueueBarrier, SnapshotAfterClose,
         SnapshotRefused
  <2>3. CASE SnapshotBarrierDone(t) \/ SnapshotBarrierFailed(t) \/ SnapshotTakeIndex(t)
    BY <2>3 DEF SnapshotBarrierDone, SnapshotBarrierFailed, SnapshotTakeIndex
  <2>4. CASE \/ CloseBegin(t) \/ CloseAgain(t) \/ CloseEnqueue(t)
             \/ CloseOutOfMemory(t) \/ CloseJoin(t)
    BY <2>4 DEF CloseBegin, CloseAgain, CloseEnqueue, CloseOutOfMemory, CloseJoin
  <2> QED BY <1>1, <2>1, <2>2, <2>3, <2>4 DEF Call, Proceed
<1>2. CASE WriterTakeBarrier \/ WriterDrained \/ WriterSkip \/ WriterWrite \/ WriterPublish
  BY <1>2 DEF WriterTakeBarrier, WriterDrained, WriterSkip, WriterWrite, PutInStream,
       WriterPublish
<1>3. CASE WriterWriteFails \/ WriterBoundaryFails \/ WriterComplete
  BY <1>3 DEF WriterWriteFails, WriterBoundaryFails, WriterComplete
<1>4. CASE WriterFlush \/ WriterFlushFails \/ WriterFlushSkipped
  BY <1>4 DEF WriterFlush, WriterFlushFails, WriterFlushSkipped, AfterFlush
<1>5. CASE WriterCloseStream \/ WriterCloseFails
  BY <1>5 DEF WriterCloseStream, WriterCloseFails, CloseFile
<1>6. CASE UNCHANGED vars
  BY <1>6 DEF vars
<1> QED BY <1>1, <1>2, <1>3, <1>4, <1>5, <1>6 DEF Next, Writer

LEMMA LimitStep ==
  ASSUME TypeOK, queuedPackets <= MaxQueuedPackets, [Next]_vars
  PROVE  queuedPackets' <= MaxQueuedPackets
<1> USE LimitsAssumption DEF TypeOK
<1>1. ASSUME NEW t \in Threads, NEW p \in Packet, AppendAccepted(t, p)
      PROVE  queuedPackets' <= MaxQueuedPackets
  BY <1>1 DEF AppendAccepted, LimitReached
<1>2. CASE WriterTakePacket
  BY <1>2 DEF WriterTakePacket
<1> QED BY <1>1, <1>2, CountersStay

(* Sums over finite sets of numbers.                                       *)

(* Natural induction on a set, from the order of the naturals.             *)
LEMMA NatSetInduction ==
  ASSUME NEW T, 0 \in T, \A n \in Nat : n \in T => n + 1 \in T
  PROVE  Nat \subseteq T
<1> DEFINE R == {p \in Nat \X Nat : p[1] < p[2]}
           Missing == Nat \ T
<1>1. IsWellFoundedOn(R, Nat)
  BY NatLessThanWellFounded DEF OpToRel
<1>2. SUFFICES ASSUME Missing # {} PROVE FALSE
  OBVIOUS
<1>3. Missing \subseteq Nat
  OBVIOUS
<1> HIDE DEF R
<1>4. PICK m \in Missing : \A y \in Missing : <<y, m>> \notin R
  BY <1>1, <1>2, <1>3, WFMin
<1>5. m \in Nat /\ m \notin T /\ m # 0
  BY <1>4
<1>6. m - 1 \in Nat /\ m - 1 < m /\ (m - 1) + 1 = m
  BY <1>5
<1>7. m - 1 \in Missing
  BY <1>5, <1>6
<1>8. <<m - 1, m>> \in R
  BY <1>5, <1>6 DEF R
<1> QED  BY <1>4, <1>7, <1>8

(* g gives every set of the first n numbers the sum of their weights.      *)
IsSum(g, n, w) ==
  /\ n \in Nat /\ w \in [Nat -> Int]
  /\ g \in [SUBSET (1..n) -> Int] /\ g[{}] = 0
  /\ \A s \in SUBSET (1..n) : \A x \in (1..n) \ s : g[s \cup {x}] = g[s] + w[x]

LEMMA SumExists ==
  ASSUME NEW w \in [Nat -> Int]
  PROVE  \A n \in Nat : \E g : IsSum(g, n, w)
<1> DEFINE T == {n \in Nat : \E g : IsSum(g, n, w)}
<1>1. 0 \in T
  <2> DEFINE g == [s \in SUBSET (1..0) |-> 0]
  <2>1. 1..0 = {}
    OBVIOUS
  <2>2. IsSum(g, 0, w)
    BY <2>1 DEF IsSum
  <2> QED  BY <2>2
<1>2. ASSUME NEW n \in Nat, n \in T PROVE n + 1 \in T
  <2>1. PICK g : IsSum(g, n, w)
    BY <1>2
  <2> DEFINE S == 1..n
             N == 1..(n + 1)
             a == n + 1
             h == [s \in SUBSET N |-> IF a \in s THEN g[s \ {a}] + w[a] ELSE g[s]]
  <2>2. N = S \cup {a} /\ a \notin S /\ w[a] \in Int /\ S \subseteq Nat
    OBVIOUS
  <2> HIDE DEF S, N, a
  <2>3. \A s \in SUBSET N : s \ {a} \in SUBSET S /\ (a \notin s => s \in SUBSET S)
    BY <2>2
  <2>4. g \in [SUBSET S -> Int] /\ g[{}] = 0
    BY <2>1 DEF IsSum, S
  <2>5. h \in [SUBSET N -> Int] /\ h[{}] = 0
    BY <2>2, <2>3, <2>4
  <2>6. ASSUME NEW s \in SUBSET N, NEW x \in N \ s PROVE h[s \cup {x}] = h[s] + w[x]
    <3>1. s \cup {x} \in SUBSET N
      OBVIOUS
    <3>2. \A r \in SUBSET S : \A y \in S \ r : g[r \cup {y}] = g[r] + w[y]
      BY <2>1 DEF IsSum, S
    <3>3. CASE x = a
      <4>1. (s \cup {x}) \ {a} = s /\ s \in SUBSET S
        BY <2>2, <3>3
      <4> QED  BY <3>1, <3>3, <4>1
    <3>4. CASE x # a /\ a \notin s
      <4>1. s \in SUBSET S /\ x \in S \ s /\ a \notin s \cup {x}
        BY <2>2, <3>4
      <4> QED  BY <3>1, <3>2, <3>4, <4>1
    <3>5. CASE x # a /\ a \in s
      <4>1. /\ s \ {a} \in SUBSET S /\ x \in S \ (s \ {a}) /\ a \in s \cup {x}
            /\ (s \cup {x}) \ {a} = (s \ {a}) \cup {x}
        BY <2>2, <3>5
      <4>2. g[(s \ {a}) \cup {x}] = g[s \ {a}] + w[x]
        BY <3>2, <4>1
      <4>3. h[s \cup {x}] = g[(s \ {a}) \cup {x}] + w[a] /\ h[s] = g[s \ {a}] + w[a]
        BY <3>1, <3>5, <4>1
      <4>4. g[s \ {a}] \in Int /\ w[a] \in Int /\ w[x] \in Int
        BY <2>2, <2>4, <4>1
      <4> HIDE DEF h
      <4> QED  BY <4>2, <4>3, <4>4
    <3> QED  BY <3>3, <3>4, <3>5
  <2> HIDE DEF h
  <2>7. IsSum(h, n + 1, w)
    BY <2>5, <2>6 DEF IsSum, N, a
  <2> QED  BY <2>7
<1> HIDE DEF T
<1>3. Nat \subseteq T
  BY <1>1, <1>2, NatSetInduction
<1> QED  BY <1>3 DEF T

\* f adds up one element of a set after the other, in the order c chooses.
AddsUp(f, S, c, w) ==
  /\ f[{}] = 0
  /\ \A s \in SUBSET S : s # {} => c[s] \in s /\ f[s] = w[c[s]] + f[s \ {c[s]}]

(* What adds up one element at a time, in any order, is the sum.           *)
LEMMA FoldIsSum ==
  ASSUME NEW n, NEW w, NEW S, NEW g, NEW f, NEW c,
         IsSum(g, n, w), S \in DOMAIN g, AddsUp(f, S, c, w)
  PROVE  f[S] = g[S]
<1>0. n \in Nat /\ w \in [Nat -> Int] /\ S \in SUBSET (1..n)
  BY DEF IsSum
<1> DEFINE T == {k \in Nat : \A s \in SUBSET S : Cardinality(s) = k => f[s] = g[s]}
<1>1. IsFiniteSet(S) /\ \A s \in SUBSET S : IsFiniteSet(s) /\ Cardinality(s) \in Nat
  <2>1. IsFiniteSet(1..n)
    BY <1>0, FS_Interval
  <2>2. \A s \in SUBSET S : IsFiniteSet(s)
    BY <1>0, <2>1, FS_Subset
  <2> QED  BY <2>2, FS_CardinalityType
<1>2. 0 \in T
  <2> SUFFICES ASSUME NEW s \in SUBSET S, Cardinality(s) = 0 PROVE f[s] = g[s]
    OBVIOUS
  <2>1. s = {}
    BY <1>1, FS_EmptySet
  <2> QED  BY <2>1 DEF IsSum, AddsUp
<1>3. ASSUME NEW k \in Nat, k \in T PROVE k + 1 \in T
  <2> SUFFICES ASSUME NEW s \in SUBSET S, Cardinality(s) = k + 1 PROVE f[s] = g[s]
    OBVIOUS
  <2> DEFINE x == c[s]
             r == s \ {x}
  <2>1. s # {}
    BY <1>1, FS_EmptySet
  <2>2. x \in s
    BY <2>1 DEF AddsUp
  <2>3. f[s] = w[x] + f[r]
    BY <2>1 DEF AddsUp
  <2> HIDE DEF x
  <2>4. Cardinality(r) = k
    <3>1. Cardinality(r) = Cardinality(s) - 1
      BY <1>1, <2>2, FS_RemoveElement
    <3> QED  BY <3>1
  <2>5. f[r] = g[r]
    BY <1>3, <2>4
  <2>6. r \in SUBSET (1..n) /\ x \in (1..n) \ r /\ s = r \cup {x}
    BY <1>0, <2>2
  <2> HIDE DEF r
  <2>7. g[s] = g[r] + w[x] /\ g[r] \in Int /\ w[x] \in Int
    BY <1>0, <2>6 DEF IsSum
  <2> QED  BY <2>3, <2>5, <2>7
<1> HIDE DEF T
<1>4. Nat \subseteq T
  BY <1>2, <1>3, NatSetInduction
<1> QED  BY <1>1, <1>4 DEF T

(* The bytes in the queue.                                                 *)

Weighs(w) == w \in [Nat -> Nat] /\ \A k \in 1..Len(accepted) : w[k] = accepted[k].size

\* The counter of bytes, by any function that sums the sizes of packets.
ByteInv ==
  /\ queuedBytes <= MaxQueuedBytes
  /\ \A w, g : Weighs(w) /\ IsSum(g, Len(accepted), w)
                 => queuedBytes = g[Taken + 1..Len(accepted)]

(* The sum over the queue is what such a function says it is.              *)
LEMMA BytesAreSum ==
  ASSUME TypeOK, QueueInv, ByteInv
  PROVE  queuedBytes = MapThenSumSet(LAMBDA k : accepted[k].size, QueuedIds)
<1> DEFINE n == Len(accepted)
           w == [k \in Nat |-> IF k \in 1..n THEN accepted[k].size ELSE 0]
           Q == QueuedIds
           It(f) == [s \in SUBSET Q |-> IF s = {} THEN 0
                        ELSE accepted[CHOOSE x \in s : TRUE].size + f[s \ {CHOOSE x \in s : TRUE}]]
           f == CHOOSE f : f = It(f)
<1>1. n \in Nat /\ \A k \in 1..n : accepted[k].size \in Nat
  <2>1. accepted \in Seq(Packet)
    BY DEF TypeOK
  <2>2. \A k \in 1..n : accepted[k] \in Packet
    BY <2>1
  <2>3. \A p \in Packet : p.size \in Nat
    BY SizesAssumption DEF Packet
  <2> QED  BY <2>1, <2>2, <2>3
<1>2. w \in [Nat -> Nat] /\ Weighs(w) /\ w \in [Nat -> Int]
  BY <1>1 DEF Weighs
<1>3. PICK g : IsSum(g, n, w)
  BY <1>1, <1>2, SumExists
<1>4. Q = Taken + 1..n /\ Q \in SUBSET (1..n)
  BY QueuedAreAll
<1>5. queuedBytes = g[Q]
  BY <1>2, <1>3, <1>4 DEF ByteInv
<1>6. MapThenSumSet(LAMBDA k : accepted[k].size, Q) = f[Q]
  BY DEF MapThenSumSet, MapThenFoldSet
<1>7. \A h, s : s \in SUBSET Q /\ h = It(h) =>
        h[s] = IF s = {} THEN 0
               ELSE accepted[CHOOSE x \in s : TRUE].size + h[s \ {CHOOSE x \in s : TRUE}]
  OBVIOUS
<1> DEFINE h == [s \in SUBSET Q |-> g[s]]
<1>8. h = It(h)
  <2>1. ASSUME NEW s \in SUBSET Q
        PROVE  h[s] = IF s = {} THEN 0
                      ELSE accepted[CHOOSE x \in s : TRUE].size + h[s \ {CHOOSE x \in s : TRUE}]
    <3>1. CASE s = {}
      BY <1>3, <3>1 DEF IsSum
    <3>2. CASE s # {}
      <4> DEFINE x == CHOOSE x \in s : TRUE
                 r == s \ {x}
      <4>1. x \in s
        BY <3>2
      <4> HIDE DEF x
      <4>2. r \in SUBSET (1..n) /\ x \in (1..n) \ r /\ s = r \cup {x} /\ r \in SUBSET Q
        BY <1>4, <4>1
      <4> HIDE DEF r
      <4>3. g[s] = g[r] + w[x] /\ g[r] \in Int
        BY <1>3, <4>2 DEF IsSum
      <4>4. w[x] = accepted[x].size /\ w[x] \in Int
        BY <1>1, <4>2
      <4>5. h[s] = accepted[x].size + h[r]
        BY <4>2, <4>3, <4>4
      <4> QED  BY <3>2, <4>5 DEF x, r
    <3> QED  BY <3>1, <3>2
  <2>2. h = [s \in SUBSET Q |-> h[s]]
    OBVIOUS
  <2> HIDE DEF h
  <2> QED  BY <2>1, <2>2
<1> HIDE DEF h, Q, It
<1>9. f = It(f)
  BY <1>8
<1> HIDE DEF f
<1> DEFINE c == [s \in SUBSET Q |-> CHOOSE x \in s : TRUE]
<1>10. AddsUp(f, Q, c, w)
  <2>1. f[{}] = 0
    BY <1>7, <1>9
  <2>2. ASSUME NEW s \in SUBSET Q, s # {}
        PROVE  c[s] \in s /\ f[s] = w[c[s]] + f[s \ {c[s]}]
    <3> DEFINE x == CHOOSE x \in s : TRUE
    <3>1. x \in s /\ f[s] = accepted[x].size + f[s \ {x}] /\ c[s] = x
      BY <1>7, <1>9, <2>2
    <3> HIDE DEF x, c
    <3>2. w[x] = accepted[x].size
      BY <1>1, <1>4, <3>1
    <3> QED  BY <3>1, <3>2
  <2> HIDE DEF c, w
  <2> QED  BY <2>1, <2>2 DEF AddsUp
<1> HIDE DEF c
<1>11. f[Q] = g[Q]
  <2> HIDE DEF w, n
  <2>1. IsSum(g, n, w) /\ Q \in DOMAIN g
    BY <1>3, <1>4 DEF IsSum
  <2> HIDE DEF c, f
  <2> QED  BY ONLY <2>1, <1>10, FoldIsSum
<1> QED  BY <1>5, <1>6, <1>11 DEF Q

LEMMA BytesStart == Init => ByteInv
<1> SUFFICES ASSUME Init PROVE ByteInv
  OBVIOUS
<1>1. accepted = <<>> /\ queuedPackets = 0 /\ queuedBytes = 0
  BY DEF Init
<1>2. Taken + 1..Len(accepted) = {}
  BY <1>1 DEF Taken
<1>3. ASSUME NEW w, NEW g, IsSum(g, Len(accepted), w)
      PROVE  queuedBytes = g[Taken + 1..Len(accepted)]
  BY <1>1, <1>2, <1>3 DEF IsSum
<1>4. queuedBytes <= MaxQueuedBytes
  BY <1>1, LimitsAssumption
<1> QED  BY <1>3, <1>4 DEF ByteInv

LEMMA BytesStep ==
  ASSUME TypeOK, QueueInv, ByteInv, [Next]_vars
  PROVE  ByteInv'
<1> DEFINE n == Len(accepted)
<1>1. /\ accepted \in Seq(Packet) /\ n \in Nat /\ Taken \in Nat /\ Taken <= n
      /\ queuedPackets \in Nat /\ queuedBytes \in Int /\ MaxQueuedBytes \in Nat
      /\ \A k \in 1..n : accepted[k].size \in Nat
  <2>1. accepted \in Seq(Packet) /\ queuedPackets \in Nat /\ queuedPackets <= n /\ queuedBytes \in Int
    BY DEF TypeOK, QueueInv
  <2>2. n \in Nat /\ \A k \in 1..n : accepted[k] \in Packet
    BY <2>1
  <2>3. \A p \in Packet : p.size \in Nat
    BY SizesAssumption DEF Packet
  <2> QED  BY <2>1, <2>2, <2>3, LimitsAssumption DEF Taken
<1>2. ASSUME NEW t \in Threads, NEW p \in Packet, AppendAccepted(t, p) PROVE ByteInv'
  <2>1. /\ accepted' = Append(accepted, p) /\ queuedPackets' = queuedPackets + 1
        /\ queuedBytes' = queuedBytes + p.size /\ queuedBytes <= MaxQueuedBytes - p.size
        /\ p.size \in Nat
    <3>1. p.size \in Nat
      BY SizesAssumption DEF Packet
    <3>2. ~(queuedBytes > MaxQueuedBytes - p.size)
      BY <1>2 DEF AppendAccepted, LimitReached
    <3> QED  BY <1>1, <1>2, <3>1, <3>2 DEF AppendAccepted
  <2>2. /\ Len(accepted') = n + 1 /\ accepted'[n + 1] = p
        /\ \A k \in 1..n : accepted'[k] = accepted[k]
    BY <1>1, <2>1, AppendFacts
  <2>3. Taken' = Taken
    BY <1>1, <2>1, <2>2 DEF Taken
  <2>4. ASSUME NEW w, NEW g, Weighs(w)', IsSum(g, n + 1, w)
        PROVE  queuedBytes' = g[Taken + 1..n + 1]
    <3> DEFINE h == [s \in SUBSET (1..n) |-> g[s]]
               Q == Taken + 1..n
    <3>1. Weighs(w) /\ w[n + 1] = p.size
      <4>1. /\ w \in [Nat -> Nat]
            /\ \A k \in 1..n + 1 : w[k] = accepted'[k].size
        BY <2>2, <2>4 DEF Weighs
      <4>2. n + 1 \in 1..n + 1 /\ \A k \in 1..n : k \in 1..n + 1
        BY <1>1
      <4>3. w[n + 1] = p.size
        BY <2>2, <4>1, <4>2
      <4>4. \A k \in 1..n : w[k] = accepted[k].size
        BY <2>2, <4>1, <4>2
      <4> QED  BY <4>1, <4>3, <4>4 DEF Weighs
    <3>2. IsSum(h, n, w)
      <4>1. \A s \in SUBSET (1..n) : s \in SUBSET (1..n + 1)
        BY <1>1
      <4>2. \A x \in 1..n : x \in 1..n + 1
        BY <1>1
      <4>3. h \in [SUBSET (1..n) -> Int] /\ h[{}] = 0
        BY <2>4, <4>1 DEF IsSum
      <4>4. ASSUME NEW s \in SUBSET (1..n), NEW x \in (1..n) \ s
            PROVE  h[s \cup {x}] = h[s] + w[x]
        <5>1. s \cup {x} \in SUBSET (1..n) /\ s \in SUBSET (1..n + 1) /\ x \in (1..n + 1) \ s
          BY <4>1, <4>2
        <5> QED  BY <2>4, <5>1 DEF IsSum
      <4> QED  BY <1>1, <2>4, <4>3, <4>4 DEF IsSum
    <3>3. queuedBytes = h[Q]
      BY <3>1, <3>2 DEF ByteInv
    <3>4. /\ Q \in SUBSET (1..n) /\ Q \in SUBSET (1..n + 1) /\ n + 1 \in (1..n + 1) \ Q
          /\ Q \cup {n + 1} = Taken + 1..n + 1
      BY <1>1
    <3>5. h[Q] = g[Q]
      BY <3>4
    <3>6. g[Q \cup {n + 1}] = g[Q] + w[n + 1]
      BY <2>4, <3>4 DEF IsSum
    <3> HIDE DEF Q, h
    <3> QED  BY <2>1, <3>1, <3>3, <3>4, <3>5, <3>6
  <2>5. queuedBytes' <= MaxQueuedBytes
    BY <1>1, <2>1
  <2> QED  BY <2>2, <2>3, <2>4, <2>5 DEF ByteInv
<1>3. CASE WriterTakePacket
  <2>1. Head(work) = work[1] /\ work[1].packet = Taken + 1 /\ Taken + 1 \in 1..n
    <3>1. work[1].kind = "packet" /\ work[1].packet = Taken + 1 /\ Takes(Head(work))
      BY <1>3, TakesNextPacket
    <3>2. 1 \in DOMAIN work /\ Head(work) = work[1]
      BY <3>1 DEF Takes
    <3>3. Taken + 1 <= n
      BY <1>1, <3>1, <3>2 DEF QueueInv
    <3> QED  BY <1>1, <3>1, <3>2, <3>3
  <2>2. /\ accepted' = accepted /\ queuedPackets' = queuedPackets - 1
        /\ queuedBytes' = queuedBytes - accepted[Taken + 1].size
    BY <1>3, <2>1 DEF WriterTakePacket
  <2>3. Taken' = Taken + 1
    BY <1>1, <2>2 DEF Taken
  <2>4. ASSUME NEW w, NEW g, Weighs(w)', IsSum(g, n, w)
        PROVE  queuedBytes' = g[Taken + 2..n]
    <3> DEFINE Q == Taken + 2..n
    <3>1. Weighs(w) /\ w[Taken + 1] = accepted[Taken + 1].size
      BY <2>1, <2>2, <2>4 DEF Weighs
    <3>2. queuedBytes = g[Taken + 1..n]
      BY <2>4, <3>1 DEF ByteInv
    <3>3. /\ Q \in SUBSET (1..n) /\ Taken + 1 \in (1..n) \ Q
          /\ Q \cup {Taken + 1} = Taken + 1..n
      BY <1>1, <2>1
    <3>4. g[Q \cup {Taken + 1}] = g[Q] + w[Taken + 1] /\ g[Q] \in Int
      BY <2>4, <3>3 DEF IsSum
    <3>5. accepted[Taken + 1].size \in Nat
      BY <1>1, <2>1
    <3> HIDE DEF Q
    <3>6. queuedBytes = g[Q] + w[Taken + 1]
      BY <3>2, <3>3, <3>4
    <3>7. queuedBytes' = g[Q]
      BY <1>1, <2>2, <3>1, <3>4, <3>5, <3>6
    <3> QED  BY <3>7 DEF Q
  <2>5. queuedBytes' <= MaxQueuedBytes
    <3>1. accepted[Taken + 1].size \in Nat /\ queuedBytes <= MaxQueuedBytes
      BY <1>1, <2>1 DEF ByteInv
    <3> QED  BY <1>1, <2>2, <3>1
  <2>6. Taken' + 1 = Taken + 2
    BY <1>1, <2>3
  <2> QED  BY <2>2, <2>4, <2>5, <2>6 DEF ByteInv
<1>4. CASE UNCHANGED <<accepted, queuedPackets, queuedBytes>>
  BY <1>4 DEF ByteInv, Weighs, Taken
<1> QED  BY <1>2, <1>3, <1>4, CountersStay

(* The counters are what the queue holds, packets and bytes, and stay      *)
(* within their limits, through rejections, failures and a close.          *)
THEOREM QueueCounted == Spec => []QueueAccounting
<1>1. Init => queuedPackets <= MaxQueuedPackets
  BY LimitsAssumption DEF Init
<1>2. IInv /\ queuedPackets <= MaxQueuedPackets /\ [Next]_vars
        => (queuedPackets <= MaxQueuedPackets)'
  BY LimitStep DEF IInv
<1>3. IInv /\ ByteInv /\ [Next]_vars => ByteInv'
  BY BytesStep DEF IInv
<1>4. IInv /\ ByteInv /\ queuedPackets <= MaxQueuedPackets => QueueAccounting
  BY QueuedAreNotTaken, BytesAreSum DEF IInv, QueueAccounting, ByteInv
<1> QED BY <1>1, <1>2, <1>3, <1>4, BytesStart, Invariance, PTL DEF Spec

(* A call adds at most one packet, and nothing to file or index.           *)
LEMMA CallsLeaveLog ==
  ASSUME NEW t \in Threads, Call(t) \/ Proceed(t)
  PROVE  /\ UNCHANGED <<open, visible, written, persisted, ioFailed>>
         /\ UNCHANGED accepted \/ (open /\ \E p \in Packet : accepted' = Append(accepted, p))
<1> USE DEF queueVars, statusVars, faultVars, fileVars, writerVars
<1>1. ASSUME NEW p \in Packet, AppendAccepted(t, p) PROVE
         /\ UNCHANGED <<open, visible, written, persisted, ioFailed>>
         /\ open /\ accepted' = Append(accepted, p)
  BY <1>1 DEF AppendAccepted
<1>2. ASSUME NEW p \in Packet, AppendOverflow(t, p) PROVE
         UNCHANGED <<open, visible, written, persisted, ioFailed, accepted>>
  BY <1>2 DEF AppendOverflow, LatchFault
<1>3. CASE AppendRefused(t) \/ OutOfMemory(t)
  BY <1>3 DEF AppendRefused, OutOfMemory, LatchFault
<1>4. CASE SnapshotQueueBarrier(t) \/ SnapshotAfterClose(t) \/ SnapshotRefused(t)
  BY <1>4 DEF SnapshotQueueBarrier, SnapshotAfterClose, SnapshotRefused
<1>5. CASE SnapshotBarrierDone(t) \/ SnapshotBarrierFailed(t) \/ SnapshotTakeIndex(t)
  BY <1>5 DEF SnapshotBarrierDone, SnapshotBarrierFailed, SnapshotTakeIndex
<1>6. CASE CloseBegin(t) \/ CloseAgain(t) \/ CloseEnqueue(t)
  BY <1>6 DEF CloseBegin, CloseAgain, CloseEnqueue
<1>7. CASE CloseOutOfMemory(t) \/ CloseJoin(t)
  BY <1>7 DEF CloseOutOfMemory, CloseJoin, LatchFault
<1> QED BY <1>1, <1>2, <1>3, <1>4, <1>5, <1>6, <1>7 DEF Call, Proceed

(* Once the file failed, stream and index stay as they are.                *)
THEOREM FailureIsFinal == Spec => NothingWrittenAfterIoFailure
<1> USE DEF fileVars, writerVars
<1>1. ASSUME IInv, [Next]_vars, ioFailed
      PROVE  UNCHANGED <<written, persisted>>
  <2>1. ASSUME NEW t \in Threads, Call(t) \/ Proceed(t)
        PROVE  UNCHANGED <<written, persisted>>
    BY <2>1, CallsLeaveLog
  <2>2. CASE WriterPublish
    BY <1>1, <2>2 DEF WriterPublish, IInv, HandInv
  <2>3. CASE WriterWrite \/ WriterWriteFails \/ WriterBoundaryFails
    BY <1>1, <2>3 DEF WriterWrite, WriterWriteFails, WriterBoundaryFails
  <2>4. CASE WriterTakePacket \/ WriterTakeBarrier \/ WriterDrained \/ WriterSkip
    BY <2>4 DEF WriterTakePacket, WriterTakeBarrier, WriterDrained, WriterSkip
  <2>5. CASE WriterFlush \/ WriterFlushFails \/ WriterFlushSkipped
    BY <2>5 DEF WriterFlush, WriterFlushFails, WriterFlushSkipped, AfterFlush
  <2>6. CASE WriterCloseStream \/ WriterCloseFails \/ WriterComplete
    BY <2>6 DEF WriterCloseStream, WriterCloseFails, CloseFile, WriterComplete
  <2>7. CASE UNCHANGED vars
    BY <2>7 DEF vars
  <2> QED BY <1>1, <2>1, <2>2, <2>3, <2>4, <2>5, <2>6, <2>7 DEF Next, Writer
<1>2. IInv /\ [Next]_vars => [ioFailed => UNCHANGED <<written, persisted>>]_vars
  BY <1>1
<1> QED BY <1>2, Invariance, PTL DEF Spec, NothingWrittenAfterIoFailure

-----------------------------------------------------------------------------
(* The store implements the log: each step is one of its own, or none.      *)

(* After every step the durable packets are packets of the log.            *)
LEMMA DurableBounded ==
  ASSUME IInv, [Next]_vars, UNCHANGED accepted
  PROVE  Recovered' <= Len(accepted)
<1>1. TypeOK' /\ FileInv'
  BY StepInv DEF IInv
<1>2. visible' \in Nat /\ written' \in Nat /\ queuedPackets' \in Nat
  BY <1>1 DEF TypeOK
<1>3. Len(accepted) \in Nat
  BY DEF IInv, TypeOK
<1>4. visible' <= 2 * written' + 1 /\ written' <= Len(accepted) - queuedPackets'
  BY <1>1 DEF FileInv, Taken
<1> QED BY <1>2, <1>3, <1>4, HalfBounded DEF Recovered

(* What the log calls status.                                              *)
Status == IF open THEN "open" ELSE IF ioFailed THEN "damaged" ELSE "complete"

LEMMA Hardens ==
  ASSUME IInv, [Next]_vars, wpc \in {"packet", "publish", "barrier"}, UNCHANGED <<open, accepted>>,
         visible' \in Nat, visible <= visible', hand.kind = "close" => wpc = "barrier"
  PROVE  [Log!Next]_<<accepted, Recovered, Status>>
<1>1. open /\ open'
  <2>1. wpc # "exited" /\ wpc # "complete"
    OBVIOUS
  <2>2. open
    BY <2>1 DEF IInv, CloseItemInv
  <2> QED BY <2>2
<1>2. Recovered \in Nat /\ Recovered' \in Nat /\ Recovered <= Recovered'
  BY RecoveredGrows DEF IInv
<1>3. Recovered' <= Len(accepted)
  BY DurableBounded
<1>4. Recovered' \in Recovered..Len(accepted)
  BY <1>2, <1>3 DEF IInv, TypeOK
<1> QED BY <1>1, <1>4 DEF Log!Next, Log!Harden, Status

LEMMA LogStep ==
  ASSUME IInv, [Next]_vars
  PROVE  [Log!Next]_<<accepted, Recovered, Status>>
<1> USE DEF queueVars, statusVars, faultVars, fileVars
<1>1. ASSUME NEW t \in Threads, Call(t) \/ Proceed(t)
      PROVE  [Log!Next]_<<accepted, Recovered, Status>>
  <2>1. Recovered' = Recovered /\ Status' = Status
    BY <1>1, CallsLeaveLog DEF Recovered, Status
  <2>2. CASE UNCHANGED accepted
    BY <2>1, <2>2
  <2>3. CASE open /\ \E p \in Packet : accepted' = Append(accepted, p)
    BY <2>1, <2>3 DEF Log!Next, Log!Accept, Status
  <2> QED BY <1>1, <2>2, <2>3, CallsLeaveLog
<1>2. CASE WriterWrite
  <2>1. wpc = "packet" /\ hand.kind = "packet" /\ UNCHANGED <<open, accepted>>
    BY <1>2 DEF IInv, HandInv, WriterWrite, PutInStream
  <2>2. visible \in Nat /\ written \in Nat /\ visible <= 2 * written
    BY <1>2 DEF IInv, TypeOK, FileInv, WriterWrite
  <2>3. visible' \in Nat /\ visible <= visible'
    BY <1>2, <2>2 DEF WriterWrite, VisibleAfterWrite
  <2> QED BY <2>1, <2>3, Hardens
<1>3. CASE WriterWriteFails
  <2>1. wpc = "packet" /\ hand.kind = "packet" /\ UNCHANGED <<open, accepted>>
    BY <1>3 DEF IInv, HandInv, WriterWriteFails
  <2>2. visible \in Nat /\ written \in Nat /\ visible' \in visible..2 * written + 1
    BY <1>3 DEF IInv, TypeOK, WriterWriteFails
  <2>3. visible' \in Nat /\ visible <= visible'
    BY <2>2
  <2> QED BY <2>1, <2>3, Hardens
<1>4. CASE WriterBoundaryFails
  <2>1. wpc = "packet" /\ hand.kind = "packet" /\ UNCHANGED <<open, accepted>>
    BY <1>4 DEF IInv, HandInv, WriterBoundaryFails
  <2>2. visible \in Nat /\ written \in Nat /\ visible' \in visible..2 * (written + 1)
    BY <1>4 DEF IInv, TypeOK, WriterBoundaryFails
  <2>3. visible' \in Nat /\ visible <= visible'
    BY <2>2
  <2> QED BY <2>1, <2>3, Hardens
<1>5. CASE WriterFlush
  <2>1. wpc = "barrier" /\ UNCHANGED <<open, accepted>>
    BY <1>5 DEF WriterFlush, AfterFlush
  <2>2. visible \in Nat /\ written \in Nat /\ visible <= 2 * written /\ visible' = 2 * written
    BY <1>5 DEF IInv, TypeOK, FileInv, WriterFlush
  <2>3. visible' \in Nat /\ visible <= visible'
    BY <2>2
  <2> QED BY <2>1, <2>3, Hardens
<1>6. CASE WriterFlushFails
  <2>1. wpc = "barrier" /\ UNCHANGED <<open, accepted>>
    BY <1>6 DEF WriterFlushFails, AfterFlush
  <2>2. visible \in Nat /\ written \in Nat /\ visible' \in visible..2 * written
    BY <1>6 DEF IInv, TypeOK, WriterFlushFails
  <2>3. visible' \in Nat /\ visible <= visible'
    BY <2>2
  <2> QED BY <2>1, <2>3, Hardens
<1>7. CASE WriterTakePacket \/ WriterTakeBarrier \/ WriterDrained \/ WriterSkip
             \/ WriterPublish \/ WriterFlushSkipped \/ WriterComplete
  <2>1. UNCHANGED <<accepted, visible, open, ioFailed>>
    BY <1>7 DEF WriterTakePacket, WriterTakeBarrier, WriterDrained, WriterSkip,
      WriterPublish, WriterFlushSkipped, AfterFlush, WriterComplete
  <2> QED BY <2>1 DEF Recovered, Status
<1>8. ASSUME CloseFile
      PROVE  /\ open /\ ~open' /\ UNCHANGED accepted
             /\ Recovered' \in Recovered..Len(accepted)
             /\ ~ioFailed => Recovered = Len(accepted) /\ Recovered' = Recovered
  <2>1. wpc = "closeStream" /\ ~open' /\ UNCHANGED accepted
    BY <1>8 DEF CloseFile
  <2>2. open
    <3>1. wpc # "exited" /\ wpc # "complete"
      BY <2>1
    <3> QED BY <3>1 DEF IInv, CloseItemInv
  <2>3. visible \in Nat /\ written \in Nat /\ visible <= 2 * written + 1
    BY DEF IInv, TypeOK, FileInv
  <2>4. visible' \in Nat /\ visible <= visible'
    BY <1>8, <2>3 DEF CloseFile
  <2>5. Recovered \in Nat /\ Recovered' \in Nat /\ Recovered <= Recovered'
    BY <2>4, RecoveredGrows DEF IInv
  <2>6. Recovered' <= Len(accepted)
    BY <2>1, DurableBounded
  <2>7. ASSUME ~ioFailed PROVE Recovered = Len(accepted) /\ Recovered' = Recovered
    <3>1. visible = 2 * Len(accepted) /\ visible' = visible
      BY <1>8, <2>1, <2>7 DEF CloseFile, IInv, SealInv, Sealed
    <3>2. Len(accepted) \in Nat
      BY DEF IInv, TypeOK
    <3> QED BY <3>1, <3>2, HalfGrows DEF Recovered
  <2>8. Len(accepted) \in Nat
    BY DEF IInv, TypeOK
  <2> QED BY <2>1, <2>2, <2>5, <2>6, <2>7, <2>8
<1>9. CASE WriterCloseFails
  <2>1. CloseFile /\ ioFailed'
    BY <1>9 DEF WriterCloseFails, LatchFault
  <2> QED BY <1>8, <2>1 DEF Log!Next, Log!Damage, Status
<1>10. CASE WriterCloseStream
  <2>1. CloseFile /\ ioFailed' = ioFailed
    BY <1>10 DEF WriterCloseStream
  <2>2. CASE ioFailed
    BY <1>8, <2>1, <2>2 DEF Log!Next, Log!Damage, Status
  <2>3. CASE ~ioFailed
    BY <1>8, <2>1, <2>3 DEF Log!Next, Log!Seal, Status
  <2> QED BY <2>2, <2>3
<1>11. CASE UNCHANGED vars
  BY <1>11 DEF vars, Recovered, Status
<1> QED BY <1>1, <1>2, <1>3, <1>4, <1>5, <1>6, <1>7, <1>9, <1>10, <1>11 DEF Next, Writer

(* Every behaviour of the store is one of the append-only durable log.     *)
THEOREM Refinement == Spec => ImplementsLog
<1>1. Init => Log!Init
  BY HalfGrows DEF Init, Log!Init, Recovered
<1>2. IInv /\ [Next]_vars => [Log!Next]_<<accepted, Recovered, Status>>
  BY LogStep
<1> QED BY <1>1, <1>2, Invariance, PTL DEF Spec, ImplementsLog, Log!Spec, Status
=============================================================================
