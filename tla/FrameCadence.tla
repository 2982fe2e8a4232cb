----------------------------- MODULE FrameCadence -----------------------------
(***************************************************************************)
(* VideoFrameCadence (src/capture/VideoFrameCadence.cpp): which of the     *)
(* frames Windows delivers are recorded, at most one for each slot of the  *)
(* target rate.  Times are scaled by the numerator of the rate, so that a  *)
(* slot is a whole number of them, and are words that wrap around at Word  *)
(* (2^64).                                                                 *)
(***************************************************************************)
EXTENDS Integers

CONSTANTS
  Cadences,  \* <<ticks * denominator, numerator>>: a slot, and one tick, scaled
  Word,      \* values of a word
  MaxTick,   \* bound: the largest time stamp
  MaxGap     \* bound: ticks between two frames

ASSUME CadenceAssumption ==
  /\ {Word, MaxTick, MaxGap} \subseteq Nat \ {0}
  /\ \A c \in Cadences : /\ c \in (Nat \ {0}) \X (Nat \ {0})
                         /\ c[1] >= c[2] /\ 2 * c[1] < Word   \* IsValid

VARIABLES
  cadence,  \* base_, last_timestamp_ticks_, next_due_scaled_; base is -1 before the first
  rate,     \* interval_scaled_ and target_fps_numerator
  offered,  \* the frame just evaluated: its stamp, and whether it was accepted
  history   \* stamps of the last two frames accepted; number, first of all

cadenceVars == <<cadence, rate, offered, history>>

Interval == rate[1]
Tick == rate[2]
Started == cadence.base >= 0

CadenceInit ==
  /\ rate \in Cadences
  /\ cadence = [base |-> -1, last |-> -1, due |-> 0]
  /\ offered = [stamp |-> -1, accepted |-> FALSE]
  /\ history = [before |-> -1, last |-> -1, count |-> 0, first |-> -1]

RebaseAt(t) == cadence' = [base |-> t, last |-> t, due |-> Interval]

\* Mutant: a late frame keeps the old grid, and the slots missed are made
\* up for by those that follow.
AdvanceBySlot(t, elapsed) ==
  IF cadence.due > Word - 1 - Interval THEN RebaseAt(t)
  ELSE cadence' = [cadence EXCEPT !.last = t, !.due = cadence.due + Interval]

\* Accepted, with the next slot to follow this one or the frame itself.
Advance(t, elapsed) ==
  LET lateness == IF elapsed > cadence.due THEN elapsed - cadence.due ELSE 0
  IN IF lateness >= Interval \/ cadence.due > Word - 1 - Interval
     THEN RebaseAt(t)
     ELSE cadence' = [cadence EXCEPT !.last = t, !.due = cadence.due + Interval]

Remember(t, accepted) ==
  /\ offered' = [stamp |-> t, accepted |-> accepted]
  /\ history' = IF accepted
                THEN [before |-> history.last, last |-> t, count |-> history.count + 1,
                      first |-> IF history.count = 0 THEN t ELSE history.first]
                ELSE history

\* Evaluate.  The frames of Windows come in order.
Evaluate(t) ==
  /\ LET ticks == t - cadence.base
         elapsed == (ticks * Tick) % Word
         early == elapsed < cadence.due /\ cadence.due - elapsed > Tick
     IN IF ~Started \/ ticks > (Word - 1) \div Tick
        THEN RebaseAt(t) /\ Remember(t, TRUE)
        ELSE IF early
        THEN cadence' = [cadence EXCEPT !.last = t] /\ Remember(t, FALSE)
        ELSE Advance(t, elapsed) /\ Remember(t, TRUE)
  /\ UNCHANGED rate

CadenceNext ==
  \E gap \in 1..MaxGap : cadence.last + gap <= MaxTick /\ Evaluate(cadence.last + gap)

CadenceSpec == CadenceInit /\ [][CadenceNext]_cadenceVars

-----------------------------------------------------------------------------
(* Properties.                                                             *)

Span(from, to) == (to - from) * rate[2]
\* A tick of rounding, and one for each time a word runs over.
Rounding(span) == rate[2] * (1 + span \div (Word - 2 * rate[1]))

\* The rate is kept, to rounding, and is not caught up with after a pause:
\* three frames accepted in a row span a slot, and n slots pass before
\* frame n after the first.  A frame a whole slot behind the last one is
\* never held back, not even when elapsed time exceeds a word
\* (src/capture/README.md:16, VideoFrameCadence.cpp:71).
CadencePaced ==
  [][LET t == offered'.stamp
         n == history.count
         all == Span(history.first, t)
     IN /\ offered'.accepted /\ n >= 2 => Span(history.before, t) >= Interval - Tick
        /\ offered'.accepted /\ n >= 1 => all >= n * Interval - Rounding(all)
        /\ n >= 1 /\ Span(history.last, t) >= Interval => offered'.accepted]_cadenceVars
=============================================================================
