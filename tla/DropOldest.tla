----------------------------- MODULE DropOldest -----------------------------
(***************************************************************************)
(* What the FIFO of the microphone check promises: a bounded queue of      *)
(* frames which forgets the oldest to make room, and hands out the rest in *)
(* the order they came.                                                    *)
(***************************************************************************)
EXTENDS Integers, Sequences

CONSTANTS Capacity, MaxPush, MaxPop, Frames

VARIABLES
  content,  \* the frames queued, oldest first
  played,   \* what the last Pop handed out
  given     \* the block of the last Push

LastOf(s, n) == IF Len(s) <= n THEN s ELSE SubSeq(s, Len(s) - n + 1, Len(s))

Init == content = <<>> /\ played = <<>> /\ given = <<>>

Push ==
  /\ given' \in Seq(Frames) /\ Len(given') \in 1..MaxPush
  /\ content' = LastOf(content \o given', Capacity)
  /\ played' = <<>>

Pop(n) ==
  LET taken == IF n < Len(content) THEN n ELSE Len(content)
  IN /\ played' = SubSeq(content, 1, taken)
     /\ content' = SubSeq(content, taken + 1, Len(content))
     /\ given' = <<>>

Next ==
  \/ Push
  \/ \E n \in 1..MaxPop : Pop(n)

Spec == Init /\ [][Next]_<<content, played, given>>
=============================================================================
