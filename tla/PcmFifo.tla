------------------------------ MODULE PcmFifo ------------------------------
(***************************************************************************)
(* MicMonitorPcmFifo of src/audio/MicMonitorSession.cpp: a ring of frames, *)
(* written in at most two pieces and read in at most two pieces.           *)
(***************************************************************************)
EXTENDS Integers, Sequences, FiniteSets

CONSTANTS
  Capacity,  \* capacity_frames_
  MaxPush,   \* bound: frames of one packet, some of more than Capacity
  MaxPop,    \* bound: frames asked for at once
  Frames     \* what tells one frame from another; 0 is silence

ASSUME FifoAssumption ==
  /\ {Capacity, MaxPush, MaxPop} \subseteq Nat \ {0}
  /\ IsFiniteSet(Frames) /\ Cardinality(Frames) > 1 /\ Frames = 0..Cardinality(Frames) - 1

VARIABLES
  bytes,  \* the ring, indexed from 0
  read,   \* read_frame_
  size,   \* size_frames_
  played, \* what the last Pop copied out
  given   \* history: the block of the last Push

fifoVars == <<bytes, read, size, played, given>>

Ring == 0..(Capacity - 1)
Fewer(a, b) == IF a < b THEN a ELSE b

FifoInit ==
  /\ bytes = [i \in Ring |-> 0] /\ read = 0 /\ size = 0 /\ played = <<>> /\ given = <<>>

\* count frames of a block, from its frame first on, go to the ring at i.
WriteFrames(ring, i, block, first, count) ==
  [j \in Ring |-> IF j \in i..(i + count - 1) THEN block[first + j - i] ELSE ring[j]]

\* Mutant: room is made without moving the end that is read.
MakeRoomAtWrite(n) == [read |-> read, size |-> Fewer(size, Capacity - n)]

\* Where the ring is read and how much it holds once there is room for n.
MakeRoom(n) ==
  IF size + n > Capacity
  THEN LET drop == size + n - Capacity
       IN [read |-> (read + drop) % Capacity, size |-> size - drop]
  ELSE [read |-> read, size |-> size]

Push(block) ==
  LET n == Fewer(Len(block), Capacity)
      skipped == Len(block) - n
      left == IF Len(block) >= Capacity THEN [read |-> 0, size |-> 0] ELSE MakeRoom(n)
      write == (left.read + left.size) % Capacity
      piece == Fewer(n, Capacity - write)
      once == WriteFrames(bytes, write, block, skipped + 1, piece)
  IN /\ bytes' = WriteFrames(once, 0, block, skipped + 1 + piece, n - piece)
     /\ read' = left.read /\ size' = left.size + n
     /\ played' = <<>> /\ given' = block

CopyFrames(i, count) == [j \in 1..count |-> bytes[i + j - 1]]

Pop(asked) ==
  LET n == Fewer(asked, size)
      piece == Fewer(n, Capacity - read)
  IN /\ played' = CopyFrames(read, piece) \o CopyFrames(0, n - piece)
     /\ read' = (read + n) % Capacity /\ size' = size - n
     /\ given' = <<>> /\ UNCHANGED bytes

\* Neighbouring frames of a packet differ, unless the packet is silent.
Sounds == Cardinality(Frames) - 1
Blocks ==
  {[i \in 1..n |-> 0] : n \in 1..MaxPush} \cup
  {[i \in 1..n |-> 1 + ((f + i) % Sounds)] : n \in 1..MaxPush, f \in Frames}

FifoNext ==
  \/ \E block \in Blocks : Push(block)
  \/ \E n \in 1..MaxPop : Pop(n)

FifoSpec == FifoInit /\ [][FifoNext]_fifoVars

-----------------------------------------------------------------------------
Queue == INSTANCE DropOldest WITH
  content <- [i \in 1..size |-> bytes[(read + i - 1) % Capacity]]

\* The ring with its two ends and its wrapped pieces is a queue that forgets
\* its oldest frames: no frame is played twice, out of order or from a block
\* that was dropped.
FifoIsQueue == Queue!Spec
=============================================================================
