------------------------------- MODULE MC_Parts -------------------------------
(***************************************************************************)
(* Parts that share nothing with one another while they work: the two      *)
(* buffers of PCM, the cadence of frames, the plans of exports, the bytes  *)
(* of a sample, the set-up of a recording, the settings file.  A behaviour *)
(* is one of a part while the others stand at their start.  Processes of   *)
(* the application are interchangeable.                                    *)
(***************************************************************************)
EXTENDS PcmFifo, PcmResampler, FrameCadence, ExportPlan, Mp4Samples, RecordingSetup,
        SettingsFiles, TLC

CommonRates == {<<147, 160>>, <<160, 147>>, <<2, 1>>, <<1, 3>>, <<3, 2>>,
                <<6, 1>>, <<5, 7>>, <<1, 1>>}
CommonCadences == {<<5, 2>>, <<3, 1>>, <<7, 3>>, <<4, 4>>, <<10, 3>>}
CommonFormats == {[encoding |-> "float32", rate |-> 48000, channels |-> 2],
                  [encoding |-> "int16", rate |-> 44100, channels |-> 1],
                  [encoding |-> "float32", rate |-> 96000, channels |-> 8],
                  [encoding |-> "int24", rate |-> 48000, channels |-> 2]}
\* SPS, PPS, an IDR slice with zeros in it, the unit of one byte.
CommonUnits == {<<103, 66, 0, 31>>, <<104, 1>>, <<101, 0, 0, 3, 1>>, <<10>>}
CommonCodes == {<<0, 0, 1>>, <<0, 0, 0, 1>>}

AppSymmetry == Permutations(Apps)

ResamplerRests == ResamplerInit /\ rates = <<1, 1>>
CadenceRests == CadenceInit /\ rate = <<3, 1>>
SetupRests ==
  /\ SetupInit
  /\ options = [audio |-> {}, required |-> {}, first |-> 2, rate |-> 0, size |-> Source]
FilesRest == starts = 0 /\ FilesInit /\ roots["canonical"] = NewRoot

Init ==
  /\ FifoInit /\ ExportInit /\ SamplesInit
  /\ \/ ResamplerInit /\ CadenceRests /\ SetupRests /\ FilesRest
     \/ ResamplerRests /\ CadenceInit /\ SetupRests /\ FilesRest
     \/ ResamplerRests /\ CadenceRests /\ SetupInit /\ FilesRest
     \/ ResamplerRests /\ CadenceRests /\ SetupRests /\ FilesInit

FifoAlone ==
  /\ FilesRest /\ ResamplerRests /\ CadenceRests /\ ExportInit /\ SamplesInit /\ SetupRests
  /\ FifoNext
  /\ UNCHANGED <<resamplerVars, cadenceVars, index, sampleVars, setupVars, filesVars>>
ResamplerAlone ==
  /\ FilesRest /\ FifoInit /\ CadenceRests /\ ExportInit /\ SamplesInit /\ SetupRests
  /\ ResamplerNext
  /\ UNCHANGED <<fifoVars, cadenceVars, index, sampleVars, setupVars, filesVars>>
CadenceAlone ==
  /\ FilesRest /\ FifoInit /\ ResamplerRests /\ ExportInit /\ SamplesInit /\ SetupRests
  /\ CadenceNext
  /\ UNCHANGED <<fifoVars, resamplerVars, index, sampleVars, setupVars, filesVars>>
ExportsAlone ==
  /\ FilesRest /\ FifoInit /\ ResamplerRests /\ CadenceRests /\ SamplesInit /\ SetupRests
  /\ ExportNext
  /\ UNCHANGED <<fifoVars, resamplerVars, cadenceVars, sampleVars, setupVars, filesVars>>
SamplesAlone ==
  /\ FilesRest /\ FifoInit /\ ResamplerRests /\ CadenceRests /\ ExportInit /\ SetupRests
  /\ SamplesNext
  /\ UNCHANGED <<fifoVars, resamplerVars, cadenceVars, index, setupVars, filesVars>>
SetupAlone ==
  /\ FilesRest /\ FifoInit /\ ResamplerRests /\ CadenceRests /\ ExportInit /\ SamplesInit
  /\ SetupNext
  /\ UNCHANGED <<fifoVars, resamplerVars, cadenceVars, index, sampleVars, filesVars>>

FilesAlone ==
  /\ FifoInit /\ ResamplerRests /\ CadenceRests /\ ExportInit /\ SamplesInit /\ SetupRests
  /\ FilesNext
  /\ UNCHANGED <<fifoVars, resamplerVars, cadenceVars, index, sampleVars, setupVars>>

Next == \/ FifoAlone \/ ResamplerAlone \/ CadenceAlone \/ ExportsAlone
        \/ SamplesAlone \/ SetupAlone \/ FilesAlone
Spec == Init /\ [][Next]_<<fifoVars, resamplerVars, cadenceVars, index, sampleVars, setupVars,
                          filesVars>>
=============================================================================
