---------------------------- MODULE PcmResampler ----------------------------
(***************************************************************************)
(* StreamingPcmResampler of src/audio/AudioResampler.cpp: a captured       *)
(* stream is converted block by block to the rate of its track.  An output *)
(* frame k is interpolated between the input frames around k times the     *)
(* ratio of the rates; a few frames of the blocks before are kept for it.  *)
(* What a sample is worth is left out: the model says which frames it is   *)
(* made of.                                                                *)
(***************************************************************************)
EXTENDS Integers

CONSTANTS
  Rates,      \* pairs of input and output rate
  MaxBlock,   \* bound: frames of a block
  MaxFrames   \* bound: frames of a stream

ASSUME ResamplerAssumption ==
  /\ Rates \subseteq (Nat \ {0}) \X (Nat \ {0})
  /\ {MaxBlock, MaxFrames} \subseteq Nat \ {0}

VARIABLES
  rates,     \* input_format_.sample_rate and output_sample_rate_
  total,     \* total_input_frame_count_
  made,      \* total_output_frame_count_
  kept,      \* frames in history_samples_
  converted  \* how the last block went: none, done, empty or lost

resamplerVars == <<rates, total, made, kept, converted>>

ResamplerInit ==
  /\ rates \in Rates
  /\ total = 0 /\ made = 0 /\ kept = 0 /\ converted = "none"

\* Input frames of one output frame, rounded up.
Ratio == (rates[1] + rates[2] - 1) \div rates[2]

\* Mutant: only the frames between two output frames are kept.
HistoryOfOneStep == Ratio - 1

HistoryLimit == Ratio + 2

\* Output frames that a stream of n input frames makes.
OutputFrames(n) == (n * rates[2]) \div rates[1]

\* The input frame at or before output frame k.
SourceFrame(k) == (k * rates[1]) \div rates[2]

Refused(why) ==
  converted' = why /\ UNCHANGED <<rates, total, made, kept>>

Convert(n) ==
  LET end == total + n
      target == OutputFrames(end)
      needed == {SourceFrame(k) : k \in made..(target - 1)}
  IN /\ end <= MaxFrames
     /\ IF rates[1] = rates[2]
        THEN /\ total' = end /\ made' = made + n /\ converted' = "done"
             /\ UNCHANGED <<rates, kept>>
        ELSE IF target = made THEN Refused("empty")
        ELSE IF ~(needed \subseteq (total - kept)..(end - 1)) THEN Refused("lost")
        ELSE /\ total' = end /\ made' = target /\ converted' = "done"
             /\ kept' = IF kept + n < HistoryLimit THEN kept + n ELSE HistoryLimit
             /\ UNCHANGED rates

ResamplerNext == \E n \in 1..MaxBlock : Convert(n)

ResamplerSpec == ResamplerInit /\ [][ResamplerNext]_resamplerVars

-----------------------------------------------------------------------------
\* However a stream is cut into blocks, the frames kept are those the next
\* output needs; a block that spans one output frame is converted; and the
\* track is as long as the stream, to the frame, after each block.
BlocksConvert ==
  [][/\ converted' # "lost"
     /\ (total' = total /\ converted' = "empty") =>
          OutputFrames(total + Ratio) > made
     /\ made' * rates[1] \in (total' * rates[2] - rates[1] + 1)..(total' * rates[2])
    ]_resamplerVars
=============================================================================
