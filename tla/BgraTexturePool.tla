--------------------------- MODULE BgraTexturePool ---------------------------
(***************************************************************************)
(* src/capture/BgraTexturePool.cpp: textures are created when first needed *)
(* up to a capacity, lent to whoever holds a lease, and come back to the   *)
(* pool when the lease is dropped, on whichever thread.  A texture is the  *)
(* frame last copied into it; which free texture is lent next is left open.*)
(***************************************************************************)
EXTENDS Integers, FiniteSets

CONSTANTS Textures   \* as many as the capacity of the pool

VARIABLES
  available,  \* textures in the pool
  created,    \* textures that exist
  slots,      \* allocated_slots: created, or being created
  picture     \* the frame in each texture, 0 when none

poolVars == <<available, created, slots, picture>>

PoolCapacity == Cardinality(Textures)

PoolInit ==
  /\ available = {} /\ created = {} /\ slots = 0
  /\ picture = [t \in Textures |-> 0]

PoolTypeOK ==
  /\ available \subseteq created /\ created \subseteq Textures
  /\ slots \in Cardinality(created)..PoolCapacity
  /\ picture \in [Textures -> Nat]

Exhausted == available = {} /\ slots >= PoolCapacity

Reuse(t) ==
  /\ t \in available
  /\ available' = available \ {t} /\ UNCHANGED <<created, slots, picture>>

\* The slot is taken under the lock, the texture is created outside it.
Reserve ==
  /\ available = {} /\ slots < PoolCapacity
  /\ slots' = slots + 1 /\ UNCHANGED <<available, created, picture>>

CreateTexture(t) ==
  /\ t \in Textures \ created
  /\ created' = created \cup {t} /\ UNCHANGED <<available, slots, picture>>

CreateFails == slots' = slots - 1 /\ UNCHANGED <<available, created, picture>>

CopyFrame(t, stamp) ==
  /\ picture' = [picture EXCEPT ![t] = stamp] /\ UNCHANGED <<available, created, slots>>

Return(leases) ==
  /\ available' = available \cup leases /\ UNCHANGED <<created, slots, picture>>
=============================================================================
