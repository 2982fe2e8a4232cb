----------------------------- MODULE PacketStore -----------------------------
(***************************************************************************)
(* The live packet store of a recording (src/src/record/PacketStore.cpp).  *)
(*                                                                         *)
(* Encoder and recorder threads append encoded packets; one writer thread  *)
(* takes work items off a bounded FIFO and writes them to packets.dat; an  *)
(* export takes a snapshot of the index behind a flush barrier; Close      *)
(* drains the queue and joins the writer.  Every step below is one         *)
(* critical section of AsyncPacketWriter::mutex_, or one piece of file     *)
(* I/O done by the writer thread outside it.                               *)
(*                                                                         *)
(* A packet is identified by its position in the order of acceptance.      *)
(* The file is measured in half packets: 2 * k means that k packets are    *)
(* complete in it, 2 * k + 1 that a torn part of packet k + 1 follows.     *)
(* Which operation failed first is left out of the latched fault: the      *)
(* store's own copy of it (LatchWriteFault) then always agrees with the    *)
(* writer's, as PacketStore::last_write_fault falls back to the writer.    *)
(***************************************************************************)
EXTENDS Integers, Sequences, FiniteSets, FiniteSetsExt

CONSTANTS
  Threads,           \* threads that call the store
  Sizes,             \* payload sizes
  MaxQueuedPackets,  \* PacketStoreWriterOptions::max_queued_packet_count
  MaxQueuedBytes,    \* PacketStoreWriterOptions::max_queued_payload_bytes
  MaxPackets,        \* bound: packets accepted in one behaviour
  None               \* no thread

ASSUME SizesAssumption == Sizes \subseteq Nat
ASSUME LimitsAssumption ==
  /\ MaxQueuedPackets \in Nat \ {0}
  /\ MaxQueuedBytes \in Nat \ {0}
  /\ MaxPackets \in Nat
ASSUME NoneAssumption == None \notin Threads

VARIABLES
  accepted,          \* packets accepted so far, oldest first (logical_stats_)
  work,              \* work_: packets and barriers not yet taken by the writer
  queuedPackets,     \* writer_stats_.queued_packet_count
  queuedBytes,       \* writer_stats_.queued_payload_bytes
  accepting, open, closing, closeWhenDrained, ioFailed,
  fault,             \* last_write_fault_.Failed()
  persisted,         \* persisted_index_: positions of the indexed packets
  wpc,               \* where the writer thread is
  hand,              \* the item the writer is working on
  streamOk,          \* stream_succeeded of the barrier being served
  written,           \* packets put into the stream
  visible,           \* half packets of the stream that have reached the file
  pc,                \* where each calling thread is
  completion,        \* the Completion each thread waits for
  closer,            \* the thread that holds close_mutex_
  joined,            \* the writer thread has been joined
  mark,              \* packets accepted when the thread's export call began
  snapshot,          \* the index that call returned
  result             \* how the thread's last call ended

queueVars  == <<accepted, work, queuedPackets, queuedBytes>>
statusVars == <<accepting, open, closing, closeWhenDrained>>
faultVars  == <<ioFailed, fault>>
fileVars   == <<written, visible>>
writerVars == <<persisted, wpc, hand, streamOk>>
exportVars == <<mark, snapshot>>
callVars   == <<pc, completion, closer, joined, exportVars, result>>
vars == <<queueVars, statusVars, faultVars, fileVars, writerVars, callVars>>

Packet == [size: Sizes, boundary: BOOLEAN]

(* A WorkItem: its kind, the packet it carries, the thread that waits.     *)
WorkItem(kind, k, t) == [kind |-> kind, packet |-> k, waiter |-> t]
PacketItem(k) == WorkItem("packet", k, None)
FlushItem(t)  == WorkItem("flush", 0, t)
CloseItem(t)  == WorkItem("close", 0, t)
NoItem        == WorkItem("none", 0, None)
Items == [kind: {"packet", "flush", "close"}, packet: Nat,
          waiter: Threads \cup {None}]

(* The packets a recovery scan of the file would return: the complete ones. *)
Recovered == visible \div 2

Init ==
  /\ accepted = <<>> /\ work = <<>> /\ queuedPackets = 0 /\ queuedBytes = 0
  /\ accepting = TRUE /\ open = TRUE /\ closing = FALSE
  /\ closeWhenDrained = FALSE
  /\ ioFailed = FALSE /\ fault = FALSE
  /\ persisted = <<>> /\ wpc = "wait" /\ hand = NoItem /\ streamOk = TRUE
  /\ written = 0 /\ visible = 0
  /\ pc = [t \in Threads |-> "idle"]
  /\ completion = [t \in Threads |-> "none"]
  /\ closer = None /\ joined = FALSE
  /\ mark = [t \in Threads |-> 0]
  /\ snapshot = [t \in Threads |-> <<>>]
  /\ result = [t \in Threads |-> "none"]

(* LatchFaultLocked: the first fault is kept, and no more is accepted.     *)
LatchFault(io) ==
  /\ fault' = TRUE
  /\ ioFailed' = IF io THEN TRUE ELSE ioFailed
  /\ accepting' = FALSE

(* A call begins, or ends with the given result.                           *)
Begin(t, loc) ==
  /\ pc' = [pc EXCEPT ![t] = loc]
  /\ result' = [result EXCEPT ![t] = "none"]
Return(t, r) ==
  /\ pc' = [pc EXCEPT ![t] = "idle"]
  /\ result' = [result EXCEPT ![t] = r]

-----------------------------------------------------------------------------
(* AppendPacket, called by thread t.                                       *)

(* Mutant: the size of the new packet is not counted against the limit.    *)
LimitPassed(size) ==
  \/ queuedPackets >= MaxQueuedPackets
  \/ size > MaxQueuedBytes
  \/ queuedBytes >= MaxQueuedBytes

LimitReached(size) ==
  \/ queuedPackets >= MaxQueuedPackets
  \/ size > MaxQueuedBytes
  \/ queuedBytes > MaxQueuedBytes - size

(* Mutant: the acceptance flag is not looked at, only the stream's.        *)
AppendWhileOpen(t, p) ==
  /\ pc[t] = "idle" /\ Len(accepted) < MaxPackets
  /\ open /\ ~LimitReached(p.size)
  /\ accepted' = Append(accepted, p)
  /\ work' = Append(work, PacketItem(Len(accepted) + 1))
  /\ queuedPackets' = queuedPackets + 1
  /\ queuedBytes' = queuedBytes + p.size
  /\ Return(t, "appended")
  /\ UNCHANGED <<statusVars, faultVars, fileVars, writerVars, completion,
                 closer, joined, exportVars>>

AppendAccepted(t, p) ==
  /\ pc[t] = "idle" /\ Len(accepted) < MaxPackets
  /\ accepting /\ open /\ ~LimitReached(p.size)
  /\ accepted' = Append(accepted, p)
  /\ work' = Append(work, PacketItem(Len(accepted) + 1))
  /\ queuedPackets' = queuedPackets + 1
  /\ queuedBytes' = queuedBytes + p.size
  /\ Return(t, "appended")
  /\ UNCHANGED <<statusVars, faultVars, fileVars, writerVars, completion,
                 closer, joined, exportVars>>

AppendOverflow(t, p) ==
  /\ pc[t] = "idle"
  /\ accepting /\ open /\ LimitReached(p.size)
  /\ LatchFault(FALSE)
  /\ Return(t, "failed")
  /\ UNCHANGED <<queueVars, open, closing, closeWhenDrained, fileVars, writerVars,
                 completion, closer, joined, exportVars>>

AppendRefused(t) ==
  /\ pc[t] = "idle" /\ ~(accepting /\ open)
  /\ Return(t, "failed")
  /\ UNCHANGED <<queueVars, statusVars, faultVars, fileVars, writerVars,
                 completion, closer, joined, exportVars>>

(* No memory for the copy of the payload, for a flush barrier or for the   *)
(* queue slot of either: the call fails with a latched fault.              *)
OutOfMemory(t) ==
  /\ pc[t] = "idle"
  /\ LatchFault(FALSE)
  /\ Return(t, "failed")
  /\ UNCHANGED <<queueVars, open, closing, closeWhenDrained, fileVars, writerVars,
                 completion, closer, joined, exportVars>>

-----------------------------------------------------------------------------
(* SnapshotForExport, called by thread t: Flush, then a copy of the index. *)

OpenSnapshot(t) ==
  /\ pc[t] = "idle"
  /\ mark' = [mark EXCEPT ![t] = Len(accepted)]
  /\ snapshot' = [snapshot EXCEPT ![t] = <<>>]

(* Mutant: a barrier may be queued behind the close item.                  *)
QueueBarrierWhileClosing(t) ==
  /\ OpenSnapshot(t) /\ ~joined
  /\ work' = Append(work, FlushItem(t))
  /\ completion' = [completion EXCEPT ![t] = "pending"]
  /\ Begin(t, "barrier")
  /\ UNCHANGED <<accepted, queuedPackets, queuedBytes, statusVars, faultVars,
                 fileVars, writerVars, closer, joined>>

SnapshotQueueBarrier(t) ==
  /\ OpenSnapshot(t) /\ ~joined /\ ~closing
  /\ work' = Append(work, FlushItem(t))
  /\ completion' = [completion EXCEPT ![t] = "pending"]
  /\ Begin(t, "barrier")
  /\ UNCHANGED <<accepted, queuedPackets, queuedBytes, statusVars, faultVars,
                 fileVars, writerVars, closer, joined>>

SnapshotAfterClose(t) ==
  /\ OpenSnapshot(t) /\ joined /\ ~fault
  /\ Begin(t, "index")
  /\ UNCHANGED <<queueVars, statusVars, faultVars, fileVars, writerVars,
                 completion, closer, joined>>

SnapshotRefused(t) ==
  /\ OpenSnapshot(t)
  /\ IF joined THEN fault ELSE closing
  /\ Return(t, "failed")
  /\ UNCHANGED <<queueVars, statusVars, faultVars, fileVars, writerVars,
                 completion, closer, joined>>

(* Mutant: the wait for the barrier ends before the barrier is answered.   *)
SnapshotWakesEarly(t) ==
  /\ pc[t] = "barrier" /\ completion[t] # "failed"
  /\ Begin(t, "index")
  /\ completion' = [completion EXCEPT ![t] = "none"]
  /\ UNCHANGED <<queueVars, statusVars, faultVars, fileVars, writerVars,
                 closer, joined, exportVars>>

SnapshotBarrierDone(t) ==
  /\ pc[t] = "barrier" /\ completion[t] = "ok"
  /\ Begin(t, "index")
  /\ completion' = [completion EXCEPT ![t] = "none"]
  /\ UNCHANGED <<queueVars, statusVars, faultVars, fileVars, writerVars,
                 closer, joined, exportVars>>

SnapshotBarrierFailed(t) ==
  /\ pc[t] = "barrier" /\ completion[t] = "failed"
  /\ Return(t, "failed")
  /\ completion' = [completion EXCEPT ![t] = "none"]
  /\ UNCHANGED <<queueVars, statusVars, faultVars, fileVars, writerVars,
                 closer, joined, exportVars>>

SnapshotTakeIndex(t) ==
  /\ pc[t] = "index"
  /\ snapshot' = [snapshot EXCEPT ![t] = persisted]
  /\ Return(t, "snapshot")
  /\ UNCHANGED <<queueVars, statusVars, faultVars, fileVars, writerVars,
                 completion, closer, joined, mark>>

-----------------------------------------------------------------------------
(* Close, called by thread t.                                              *)

CloseBegin(t) ==
  /\ pc[t] = "idle" /\ closer = None /\ ~joined
  /\ accepting' = FALSE /\ closing' = TRUE /\ closer' = t
  /\ Begin(t, "pushClose")
  /\ UNCHANGED <<queueVars, open, closeWhenDrained, faultVars, fileVars,
                 writerVars, completion, joined, exportVars>>

CloseAgain(t) ==
  /\ pc[t] = "idle" /\ closer = None /\ joined
  /\ accepting' = FALSE
  /\ Return(t, IF fault THEN "failed" ELSE "closed")
  /\ UNCHANGED <<queueVars, open, closing, closeWhenDrained, faultVars, fileVars,
                 writerVars, completion, closer, joined, exportVars>>

(* Mutant: the close item overtakes the packets that wait.                 *)
CloseJumpsQueue(t) ==
  /\ pc[t] = "pushClose"
  /\ Begin(t, "join")
  /\ work' = <<CloseItem(t)>> \o work
  /\ completion' = [completion EXCEPT ![t] = "pending"]
  /\ UNCHANGED <<accepted, queuedPackets, queuedBytes, statusVars, faultVars,
                 fileVars, writerVars, closer, joined, exportVars>>

CloseEnqueue(t) ==
  /\ pc[t] = "pushClose"
  /\ Begin(t, "join")
  /\ work' = Append(work, CloseItem(t))
  /\ completion' = [completion EXCEPT ![t] = "pending"]
  /\ UNCHANGED <<accepted, queuedPackets, queuedBytes, statusVars, faultVars,
                 fileVars, writerVars, closer, joined, exportVars>>

(* No memory for the close item: the writer leaves when it has drained.    *)
CloseOutOfMemory(t) ==
  /\ pc[t] = "pushClose"
  /\ Begin(t, "join")
  /\ closeWhenDrained' = TRUE
  /\ LatchFault(FALSE)
  /\ completion' = [completion EXCEPT ![t] = "failed"]
  /\ UNCHANGED <<queueVars, open, closing, fileVars, writerVars, closer, joined,
                 exportVars>>

CloseJoin(t) ==
  /\ pc[t] = "join" /\ completion[t] # "pending" /\ wpc = "exited"
  /\ joined' = TRUE /\ closer' = None
  /\ completion' = [completion EXCEPT ![t] = "none"]
  /\ Return(t, IF completion[t] = "ok" /\ ~fault THEN "closed" ELSE "failed")
  /\ UNCHANGED <<queueVars, statusVars, faultVars, fileVars, writerVars, exportVars>>

-----------------------------------------------------------------------------
(* The writer thread: AsyncPacketWriter::Run.                              *)

Goto(loc) == wpc' = loc
NextItem == Goto("wait") /\ hand' = NoItem

TakeItem(kinds) ==
  /\ wpc = "wait" /\ work # <<>> /\ Head(work).kind \in kinds
  /\ hand' = Head(work) /\ work' = Tail(work)

WriterTakePacket ==
  /\ TakeItem({"packet"})
  /\ queuedPackets' = queuedPackets - 1
  /\ queuedBytes' = queuedBytes - accepted[Head(work).packet].size
  /\ Goto("packet")
  /\ UNCHANGED <<accepted, statusVars, faultVars, fileVars, persisted, streamOk, callVars>>

WriterTakeBarrier ==
  /\ TakeItem({"flush", "close"})
  /\ Goto("barrier")
  /\ UNCHANGED <<accepted, queuedPackets, queuedBytes, statusVars, faultVars,
                 fileVars, persisted, streamOk, callVars>>

(* Mutant: the writer leaves as soon as it is asked to.                    *)
WriterLeavesEarly ==
  /\ wpc = "wait" /\ closeWhenDrained
  /\ hand' = CloseItem(None)
  /\ Goto("barrier")
  /\ UNCHANGED <<queueVars, statusVars, faultVars, fileVars, persisted, streamOk, callVars>>

WriterDrained ==
  /\ wpc = "wait" /\ work = <<>> /\ closeWhenDrained
  /\ hand' = CloseItem(None)
  /\ Goto("barrier")
  /\ UNCHANGED <<queueVars, statusVars, faultVars, fileVars, persisted, streamOk, callVars>>

WriterSkip ==
  /\ wpc = "packet" /\ ioFailed
  /\ NextItem
  /\ UNCHANGED <<queueVars, statusVars, faultVars, fileVars, persisted, streamOk, callVars>>

PutInStream ==
  /\ written' = written + 1
  /\ Goto("publish")
  /\ UNCHANGED <<queueVars, statusVars, faultVars, persisted, hand, streamOk, callVars>>

(* A boundary packet (key, config, discontinuity) is flushed; any other    *)
(* stays in the stream buffer, of which any part may already have spilled. *)
VisibleAfterWrite ==
  IF accepted[hand.packet].boundary THEN {2 * (written + 1)}
                                    ELSE visible..2 * (written + 1)

(* Mutant: a boundary packet is left in the stream buffer like any other.  *)
WriteUnflushed ==
  /\ wpc = "packet" /\ ~ioFailed
  /\ visible' \in visible..2 * (written + 1)
  /\ PutInStream

(* Mutant: packets are written whatever happened to the file before.       *)
WriteRegardless ==
  /\ wpc = "packet"
  /\ visible' \in VisibleAfterWrite
  /\ PutInStream

WriterWrite ==
  /\ wpc = "packet" /\ ~ioFailed
  /\ visible' \in VisibleAfterWrite
  /\ PutInStream

(* Mutant: the failed write is latched as a queue fault, not an I/O fault. *)
WriteFailsUnlatched ==
  /\ wpc = "packet" /\ ~ioFailed
  /\ visible' \in visible..2 * written + 1
  /\ LatchFault(FALSE)
  /\ NextItem
  /\ UNCHANGED <<queueVars, open, closing, closeWhenDrained, written, persisted,
                 streamOk, callVars>>

(* A failed write leaves part of the packet in the stream, of which any    *)
(* part has reached the file.                                              *)
WriterWriteFails ==
  /\ wpc = "packet" /\ ~ioFailed
  /\ visible' \in visible..2 * written + 1
  /\ LatchFault(TRUE)
  /\ NextItem
  /\ UNCHANGED <<queueVars, open, closing, closeWhenDrained, written, persisted,
                 streamOk, callVars>>

(* The flush of a boundary packet fails: all of it is in the stream.       *)
WriterBoundaryFails ==
  /\ wpc = "packet" /\ ~ioFailed /\ accepted[hand.packet].boundary
  /\ written' = written + 1
  /\ visible' \in visible..2 * (written + 1)
  /\ LatchFault(TRUE)
  /\ NextItem
  /\ UNCHANGED <<queueVars, open, closing, closeWhenDrained, persisted, streamOk,
                 callVars>>

WriterPublish ==
  /\ wpc = "publish"
  /\ persisted' = Append(persisted, hand.packet)
  /\ NextItem
  /\ UNCHANGED <<queueVars, statusVars, faultVars, fileVars, streamOk, callVars>>

AfterFlush(ok) ==
  /\ wpc = "barrier"
  /\ streamOk' = ok
  /\ Goto(IF hand.kind = "close" THEN "closeStream" ELSE "complete")
  /\ UNCHANGED <<queueVars, open, closing, closeWhenDrained, written, persisted,
                 hand, callVars>>

WriterFlush ==
  /\ ~ioFailed /\ visible' = 2 * written
  /\ AfterFlush(TRUE)
  /\ UNCHANGED <<accepting, faultVars>>

WriterFlushFails ==
  /\ ~ioFailed /\ visible' \in visible..2 * written
  /\ LatchFault(TRUE)
  /\ AfterFlush(FALSE)

WriterFlushSkipped ==
  /\ ioFailed
  /\ AfterFlush(FALSE)
  /\ UNCHANGED <<accepting, faultVars, visible>>

(* Closing a stream that failed still pushes out a part of its buffer.     *)
CloseFile ==
  /\ wpc = "closeStream"
  /\ open' = FALSE
  /\ visible' \in IF ioFailed THEN visible..2 * written + 1 ELSE {visible}
  /\ Goto("complete")
  /\ UNCHANGED <<queueVars, closing, closeWhenDrained, written, persisted, hand, callVars>>

WriterCloseStream ==
  /\ CloseFile
  /\ UNCHANGED <<accepting, faultVars, streamOk>>

WriterCloseFails ==
  /\ CloseFile
  /\ LatchFault(TRUE)
  /\ streamOk' = FALSE

WriterComplete ==
  /\ wpc = "complete"
  /\ completion' = [t \in Threads |->
       IF t # hand.waiter THEN completion[t]
       ELSE IF streamOk /\ ~fault THEN "ok" ELSE "failed"]
  /\ Goto(IF hand.kind = "close" THEN "exited" ELSE "wait") /\ hand' = NoItem
  /\ streamOk' = TRUE
  /\ UNCHANGED <<queueVars, statusVars, faultVars, fileVars, persisted,
                 pc, closer, joined, exportVars, result>>

-----------------------------------------------------------------------------
Writer ==
  \/ WriterTakePacket \/ WriterTakeBarrier \/ WriterDrained \/ WriterSkip
  \/ WriterWrite \/ WriterWriteFails \/ WriterBoundaryFails \/ WriterPublish
  \/ WriterFlush \/ WriterFlushFails \/ WriterFlushSkipped
  \/ WriterCloseStream \/ WriterCloseFails \/ WriterComplete

(* The steps that finish a call already begun.                             *)
Proceed(t) ==
  \/ SnapshotBarrierDone(t) \/ SnapshotBarrierFailed(t) \/ SnapshotTakeIndex(t)
  \/ CloseEnqueue(t) \/ CloseOutOfMemory(t) \/ CloseJoin(t)

Call(t) ==
  \/ \E p \in Packet : AppendAccepted(t, p) \/ AppendOverflow(t, p)
  \/ AppendRefused(t) \/ OutOfMemory(t)
  \/ SnapshotQueueBarrier(t) \/ SnapshotAfterClose(t) \/ SnapshotRefused(t)
  \/ CloseBegin(t) \/ CloseAgain(t)

Next == Writer \/ \E t \in Threads : Call(t) \/ Proceed(t)

Spec == Init /\ [][Next]_vars

(* The operating system schedules the writer thread and a caller inside a  *)
(* call; nothing obliges anyone to make another call.                      *)
FairSpec == Spec /\ WF_vars(Writer) /\ \A t \in Threads : WF_vars(Proceed(t))
-----------------------------------------------------------------------------
(* Properties.                                                             *)

WriterLocations ==
  {"wait", "packet", "publish", "barrier", "closeStream", "complete", "exited"}
CallLocations == {"idle", "barrier", "index", "pushClose", "join"}

(* The type of every variable (the state AsyncPacketWriter declares).      *)
TypeOK ==
  /\ accepted \in Seq(Packet)
  /\ work \in Seq(Items)
  /\ queuedPackets \in Nat /\ queuedBytes \in Int
  /\ accepting \in BOOLEAN /\ open \in BOOLEAN /\ closing \in BOOLEAN
  /\ closeWhenDrained \in BOOLEAN /\ ioFailed \in BOOLEAN /\ fault \in BOOLEAN
  /\ persisted \in Seq(Nat)
  /\ wpc \in WriterLocations /\ hand \in Items \cup {NoItem} /\ streamOk \in BOOLEAN
  /\ written \in Nat /\ visible \in Nat
  /\ pc \in [Threads -> CallLocations]
  /\ completion \in [Threads -> {"none", "pending", "ok", "failed"}]
  /\ closer \in Threads \cup {None} /\ joined \in BOOLEAN
  /\ mark \in [Threads -> Nat]
  /\ snapshot \in [Threads -> Seq(Nat)]
  /\ result \in [Threads -> {"none", "appended", "failed", "snapshot", "closed"}]

(* The index never skips, repeats or reorders an accepted packet, whatever *)
(* the interleaving of appends, barriers and failures: its n entries are   *)
(* the first n packets accepted.                                           *)
IndexInAcceptedOrder == persisted = [i \in 1..Len(persisted) |-> i]

QueuedIds == {work[i].packet : i \in {j \in DOMAIN work : work[j].kind = "packet"}}

(* The two counters that bound memory agree with the packets the deque     *)
(* really holds, and stay within the limits: neither the writer's early    *)
(* decrement nor a rejected packet lets them drift.                        *)
QueueAccounting ==
  /\ queuedPackets = Cardinality(QueuedIds)
  /\ queuedPackets <= MaxQueuedPackets
  /\ queuedBytes = MapThenSumSet(LAMBDA k : accepted[k].size, QueuedIds)
  /\ queuedBytes <= MaxQueuedBytes

(* An export that got its snapshot has in it, complete in the file, every  *)
(* packet accepted before its barrier was queued                           *)
(* (docs/capture_performance_plan.md:133).                                 *)
ExportSeesAcceptedPackets ==
  \A t \in Threads : result[t] = "snapshot" =>
    /\ mark[t] <= Len(snapshot[t])
    /\ mark[t] <= Recovered

(* Every entry of a snapshot handed to an export is complete in the file   *)
(* when it is handed over: "SnapshotForExport flushes writer visibility    *)
(* and copies paths plus the index under one lock so live export planning  *)
(* never observes a partial append" (src/src/record/README.md).            *)
ExportNeverSeesPartialAppend ==
  \A t \in Threads : result[t] = "snapshot" =>
    \A i \in DOMAIN snapshot[t] : snapshot[t][i] <= Recovered

(* A crash of the process at any step keeps every indexed packet up to the *)
(* last key, config or discontinuity packet: the flush precedes the index. *)
BoundaryPacketsSurviveCrash ==
  \A i \in DOMAIN persisted :
    accepted[persisted[i]].boundary => persisted[i] <= Recovered

(* A Close that reports success leaves every accepted packet recoverable   *)
(* (docs/capture_performance_plan.md:133-134).                             *)
CloseMakesAllRecoverable ==
  \A t \in Threads : result[t] = "closed" => Recovered = Len(accepted)

(* A rejected packet or a failed allocation does not cost the packets that *)
(* were accepted before it: unless the file itself failed, the writer      *)
(* drains them all before it exits.                                        *)
RejectionLosesNothingAccepted ==
  wpc = "exited" /\ ~ioFailed => Recovered = Len(accepted)

(* After a failed write nothing more goes into the stream or the index: a  *)
(* later success would leave a hole in the packet prefix.                  *)
NothingWrittenAfterIoFailure ==
  [][ioFailed => UNCHANGED <<written, persisted>>]_vars

(* No caller is left waiting: a flush barrier and a close are answered     *)
(* even when they race, and when the file or memory fails meanwhile.       *)
EveryCallReturns == \A t \in Threads : pc[t] # "idle" ~> pc[t] = "idle"

(* The store is an append-only log with a durable prefix, sealed by Close: *)
(* no interleaving of appends, barriers, failures and a close takes back   *)
(* a packet, shrinks what a recovery would find, accepts one after the     *)
(* seal, or seals a healthy file short of a packet.                        *)
Log == INSTANCE PacketLog WITH
         log     <- accepted,
         durable <- Recovered,
         status  <- IF open THEN "open"
                    ELSE IF ioFailed THEN "damaged" ELSE "complete"
ImplementsLog == Log!Spec
=============================================================================
