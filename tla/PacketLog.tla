------------------------------ MODULE PacketLog ------------------------------
(***************************************************************************)
(* What the live packet store promises: an append-only log of packets, a   *)
(* prefix of which is durable and only grows.  Closing seals the log: it   *)
(* ends complete, every packet durable, or, if the file failed, damaged.   *)
(***************************************************************************)
EXTENDS Integers, Sequences

CONSTANT Packet

VARIABLES
  log,      \* the packets accepted, oldest first
  durable,  \* how many of them a recovery of the file would find
  status    \* "open", "complete" or "damaged"

Init == log = <<>> /\ durable = 0 /\ status = "open"

Accept ==
  /\ status = "open"
  /\ \E p \in Packet : log' = Append(log, p)
  /\ UNCHANGED <<durable, status>>

Harden ==
  /\ status = "open"
  /\ durable' \in durable..Len(log)
  /\ UNCHANGED <<log, status>>

Seal ==
  /\ status = "open" /\ durable = Len(log)
  /\ status' = "complete"
  /\ UNCHANGED <<log, durable>>

(* A failed file gives up what has not reached it; closing it may still    *)
(* push a part of the rest.                                                *)
Damage ==
  /\ status = "open"
  /\ status' = "damaged"
  /\ durable' \in durable..Len(log)
  /\ UNCHANGED log

Next == Accept \/ Harden \/ Seal \/ Damage

Spec == Init /\ [][Next]_<<log, durable, status>>
=============================================================================
