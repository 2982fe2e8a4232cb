----------------------------- MODULE SetupProofs -----------------------------
(***************************************************************************)
(* Proofs about RecordingSetup, for any formats the endpoints answer with, *)
(* any sizes and rates, and any first track.                               *)
(***************************************************************************)
EXTENDS RecordingSetup, TLAPS

-----------------------------------------------------------------------------
(* Which stages follow which step.                                         *)

PastStart == {"prepared", "startThread", "startCapture", "capturing"}
PastAudioLive == {"exports"} \cup PastStart
PastThread == {"audioLive"} \cup PastAudioLive
PastSession == {"thread"} \cup PastThread
Coding == {"aac", "aacTransform", "aacActivate", "aacStream"}
PastChain == Coding \cup PastSession
PastStore == {"converter", "texture"} \cup PastChain
PastEncoder == {"probing", "startup", "codec", "store"} \cup Configuring \cup PastStore
PastRecording == {"probe"} \cup PastEncoder
PastDevice == {"recording"} \cup PastRecording
PastMonitor == {"device"} \cup PastDevice
PastAudio == {"monitor", "bootstrap"} \cup PastMonitor
PastCom == {"audio"} \cup PastAudio

-----------------------------------------------------------------------------
(* The tracks that were planned, with the formats they were planned for.   *)

SourceNames == {"system", "microphone"}
Answers == [options.audio -> Formats \cup {Unavailable}]

PlanInv ==
  /\ options \in SetupOptions
  /\ plan \in Seq([id : Nat, source : SourceNames])
  /\ HasAudio /\ stage \in PastAudio => plan # <<>>
  /\ stage = "com" \/ ~HasAudio => plan = <<>>
  /\ plan # <<>> =>
       /\ answered \in Answers /\ options.first \in Nat \ {0}
       /\ \A i \in 1..Len(plan) :
            /\ plan[i].id = options.first + i - 1
            /\ plan[i].source \in options.audio /\ Included(answered[plan[i].source])
       /\ \A s \in options.required : \E i \in 1..Len(plan) : plan[i].source = s
  /\ tracks = BuildPreflightTracks(plan, answered)
  /\ stage = "audio" => HasAudio

(* What the preflight includes.                                            *)
LEMMA Inclusion ==
  ASSUME NEW answers
  PROVE  LET list == IncludedSources(answers)
         IN /\ list \in Seq(SourceNames)
            /\ \A i \in 1..Len(list) : list[i] \in options.audio /\ Included(answers[list[i]])
            /\ \A s \in SourceNames :
                 s \in options.audio /\ Included(answers[s]) => \E i \in 1..Len(list) : list[i] = s
<1> DEFINE In(s) == s \in options.audio /\ Included(answers[s])
           Right(list) == /\ list \in Seq(SourceNames)
                          /\ \A i \in 1..Len(list) : In(list[i])
                          /\ \A s \in SourceNames : In(s) => \E i \in 1..Len(list) : list[i] = s
<1>1. IncludedSources(answers) = (IF In("system") THEN <<"system">> ELSE <<>>)
                                   \o (IF In("microphone") THEN <<"microphone">> ELSE <<>>)
  BY DEF IncludedSources
<1>2. SUFFICES Right(IncludedSources(answers))
  OBVIOUS
<1> HIDE DEF In
<1>3. CASE In("system") /\ In("microphone")
  <2> DEFINE both == <<"system">> \o <<"microphone">>
  <2>1. IncludedSources(answers) = both
    BY <1>1, <1>3
  <2>2. both \in Seq(SourceNames) /\ Len(both) = 2 /\ both[1] = "system" /\ both[2] = "microphone"
    BY DEF SourceNames
  <2> HIDE DEF both
  <2> QED  BY <1>3, <2>1, <2>2 DEF SourceNames
<1>4. CASE In("system") /\ ~In("microphone")
  <2> DEFINE one == <<"system">>
  <2>1. IncludedSources(answers) = one
    BY <1>1, <1>4
  <2>2. one \in Seq(SourceNames) /\ Len(one) = 1 /\ one[1] = "system"
    BY DEF SourceNames
  <2> HIDE DEF one
  <2> QED  BY <1>4, <2>1, <2>2 DEF SourceNames
<1>5. CASE ~In("system") /\ In("microphone")
  <2> DEFINE one == <<"microphone">>
  <2>1. IncludedSources(answers) = one
    BY <1>1, <1>5
  <2>2. one \in Seq(SourceNames) /\ Len(one) = 1 /\ one[1] = "microphone"
    BY DEF SourceNames
  <2> HIDE DEF one
  <2> QED  BY <1>5, <2>1, <2>2 DEF SourceNames
<1>6. CASE ~In("system") /\ ~In("microphone")
  <2>1. IncludedSources(answers) = <<>>
    BY <1>1, <1>6
  <2> QED  BY <1>6, <2>1 DEF SourceNames
<1> QED  BY ONLY <1>3, <1>4, <1>5, <1>6

LEMMA PlanStart == SetupInit => PlanInv
<1> SUFFICES ASSUME SetupInit PROVE PlanInv
  OBVIOUS
<1>1. tracks = BuildPreflightTracks(plan, answered)
  BY DEF SetupInit, BuildPreflightTracks
<1> QED  BY <1>1 DEF SetupInit, PlanInv, PastAudio, PastMonitor, PastDevice, PastRecording,
         PastEncoder,
         PastStore, PastChain, PastSession, PastThread, PastAudioLive, PastStart, Coding,
         Configuring

planVars == <<options, answered, plan, tracks>>

(* The preflight's tracks are numbered on from the first.                  *)
LEMMA PreflightPlans == PlanInv /\ AudioPreflight => PlanInv'
<1> SUFFICES ASSUME PlanInv, AudioPreflight PROVE PlanInv'
  OBVIOUS
<1>0. options \in SetupOptions /\ UNCHANGED options /\ HasAudio /\ stage = "audio" /\ stage' # "audio"
  BY DEF PlanInv, AudioPreflight, Make
<1>1. PICK answers \in Answers :
        LET included == IncludedSources(answers)
            usable == /\ ValidatePreflightOptions
                      /\ \A s \in options.required : Included(answers[s])
                      /\ PlanFits(included)
            p == BuildAudioTrackPlan(included)
        IN /\ Make("audio", IF usable THEN "monitor" ELSE "unwinding")
           /\ answered' = answers
           /\ plan' = (IF usable THEN p ELSE <<>>)
           /\ tracks' = (IF usable THEN BuildPreflightTracks(p, answers) ELSE <<>>)
  BY DEF AudioPreflight, Answers
<1> DEFINE included == IncludedSources(answers)
           usable == /\ ValidatePreflightOptions
                     /\ \A s \in options.required : Included(answers[s])
                     /\ PlanFits(included)
           p == BuildAudioTrackPlan(included)
<1>2. /\ options.first \in Nat /\ options.audio \subseteq SourceNames /\ options.required \subseteq options.audio
  <2>1. \A o \in SetupOptions : /\ o.first \in FirstTracks /\ o.audio \subseteq ToSet(Sources)
                                /\ o.required \subseteq o.audio
    BY DEF SetupOptions
  <2>2. ToSet(Sources) \subseteq SourceNames
    BY DEF ToSet, Sources, SourceNames
  <2>3. FirstTracks \subseteq Nat
    BY SetupAssumption
  <2> QED  BY <1>0, <2>1, <2>2, <2>3
<1>3. /\ included \in Seq(SourceNames)
      /\ \A i \in 1..Len(included) : included[i] \in options.audio /\ Included(answers[included[i]])
      /\ \A s \in SourceNames : s \in options.audio /\ Included(answers[s]) =>
                                \E i \in 1..Len(included) : included[i] = s
  BY Inclusion
<1> HIDE DEF included
<1>4. CASE usable
  <2>1. plan' = p /\ tracks' = BuildPreflightTracks(p, answers) /\ answered' = answers
    BY <1>1, <1>4 DEF usable, included, p
  <2>2. options.first # 0 /\ included # <<>> /\ \A s \in options.required : Included(answers[s])
    BY <1>4 DEF ValidatePreflightOptions, PlanFits
  <2>3. /\ p = [i \in 1..Len(included) |-> [id |-> options.first + i - 1, source |-> included[i]]]
        /\ Len(included) \in Nat /\ Len(included) # 0
    BY <1>3, <2>2 DEF BuildAudioTrackPlan
  <2> HIDE DEF p
  <2>4. /\ p \in Seq([id : Nat, source : SourceNames]) /\ Len(p) = Len(included) /\ p # <<>>
        /\ \A i \in 1..Len(p) : p[i].id = options.first + i - 1 /\ p[i].source = included[i]
    <3>1. \A i \in 1..Len(included) :
             [id |-> options.first + i - 1, source |-> included[i]] \in [id : Nat, source : SourceNames]
      BY <1>2, <1>3, <2>2, <2>3
    <3>2. p \in [1..Len(included) -> [id : Nat, source : SourceNames]]
      BY <2>3, <3>1
    <3>3. p \in Seq([id : Nat, source : SourceNames]) /\ Len(p) = Len(included)
      BY <2>3, <3>2
    <3> QED  BY <2>3, <3>3
  <2>5. \A s \in options.required : \E i \in 1..Len(p) : p[i].source = s
    BY <1>2, <1>3, <2>2, <2>4
  <2>6. answered' \in Answers'
    BY <1>0, <2>1 DEF Answers
  <2>7. \A i \in 1..Len(p) : p[i].source \in options.audio /\ Included(answers[p[i].source])
    BY <1>3, <2>4
  <2>8. \A i \in 1..Len(p) : Included(answered[plan[i].source])'
    BY <1>0, <2>1, <2>7 DEF Included, OutputRate
  <2>9. tracks' = BuildPreflightTracks(plan, answered)'
    BY <1>0, <2>1 DEF BuildPreflightTracks, Prepared, OutputRate
  <2>10. plan' # <<>> =>
           /\ answered' \in Answers' /\ options'.first \in Nat \ {0}
           /\ \A i \in 1..Len(plan') :
                /\ plan'[i].id = options'.first + i - 1
                /\ plan'[i].source \in options'.audio /\ Included(answered[plan[i].source])'
           /\ \A s \in options'.required : \E i \in 1..Len(plan') : plan'[i].source = s
    BY <1>0, <1>2, <2>1, <2>2, <2>4, <2>5, <2>6, <2>7, <2>8
  <2>11. /\ options' \in SetupOptions /\ plan' \in Seq([id : Nat, source : SourceNames])
         /\ HasAudio' /\ plan' # <<>> /\ stage' \notin {"com", "audio"}
    BY <1>0, <1>1, <2>1, <2>4 DEF HasAudio, Make
  <2>12. SetupOptions' = SetupOptions
    BY DEF SetupOptions
  <2> QED  BY <2>9, <2>10, <2>11, <2>12 DEF PlanInv
<1>5. CASE ~usable
  <2>1. plan' = <<>> /\ tracks' = <<>> /\ stage' = "unwinding"
    BY <1>1, <1>5 DEF usable, included, Make
  <2>2. tracks' = BuildPreflightTracks(plan, answered)'
    BY <2>1 DEF BuildPreflightTracks
  <2> QED  BY <1>0, <2>1, <2>2 DEF PlanInv, PastAudio, PastMonitor, PastDevice, PastRecording,
           PastEncoder,
           PastStore, PastChain, PastSession, PastThread, PastAudioLive, PastStart, Coding,
           Configuring
<1> QED  BY <1>4, <1>5

(* A step that leaves the plan alone, on from a stage to one behind it.    *)
LEMMA PlanStays ==
  ASSUME PlanInv, UNCHANGED planVars, stage' # "com" \/ UNCHANGED stage,
         HasAudio /\ stage' \in PastAudio => stage \in PastAudio,
         stage' = "audio" => HasAudio
  PROVE  PlanInv'
<1>2. tracks' = BuildPreflightTracks(plan, answered)'
  BY DEF planVars, PlanInv, BuildPreflightTracks, Prepared, OutputRate
<1>3. SetupOptions' = SetupOptions /\ Answers' = Answers /\ HasAudio' = HasAudio
  BY DEF SetupOptions, Answers, planVars, HasAudio
<1>4. plan # <<>> => \A i \in 1..Len(plan) : Included(answered[plan[i].source])'
  BY DEF planVars, PlanInv, Included, OutputRate
<1>5. plan' # <<>> =>
         /\ answered' \in Answers' /\ options'.first \in Nat \ {0}
         /\ \A i \in 1..Len(plan') :
              /\ plan'[i].id = options'.first + i - 1
              /\ plan'[i].source \in options'.audio /\ Included(answered[plan[i].source])'
         /\ \A s \in options'.required : \E i \in 1..Len(plan') : plan'[i].source = s
  BY <1>3, <1>4 DEF planVars, PlanInv
<1>6. /\ options' \in SetupOptions /\ plan' \in Seq([id : Nat, source : SourceNames])
      /\ HasAudio' /\ stage' \in PastAudio => plan' # <<>>
      /\ stage' = "com" \/ ~HasAudio' => plan' = <<>>
      /\ stage' = "audio" => HasAudio'
  BY <1>3 DEF planVars, PlanInv
<1> QED  BY <1>2, <1>3, <1>5, <1>6 DEF PlanInv

LEMMA PlanStep == PlanInv /\ [SetupNext]_setupVars => PlanInv'
<1> SUFFICES ASSUME PlanInv, [SetupNext]_setupVars PROVE PlanInv'
  OBVIOUS
<1> USE DEF PastCom, PastAudio, PastMonitor, PastDevice, PastRecording, PastEncoder, PastStore,
         PastChain,
     PastSession, PastThread, PastAudioLive, PastStart, Coding, Configuring
<1> DEFINE On == /\ UNCHANGED planVars /\ (stage' # "com" \/ UNCHANGED stage)
                 /\ (HasAudio /\ stage' \in PastAudio => stage \in PastAudio)
                 /\ (stage' = "audio" => HasAudio)
<1>1. StepFails => On
  BY DEF planVars, audioVars, mediaVars, StepFails, Preparing
<1>2. PrepareCom => On
  BY DEF planVars, audioVars, mediaVars, PrepareCom, Make
<1>3. ResolveMonitor => On
  BY DEF planVars, audioVars, mediaVars, ResolveMonitor
<1>4. BootstrapMonitor => On
  BY DEF planVars, audioVars, mediaVars, BootstrapMonitor
<1>5. CreateForMonitor => On
  BY DEF planVars, audioVars, mediaVars, CreateForMonitor, Make
<1>6. RecordingPreflight => On
  BY DEF planVars, audioVars, mediaVars, RecordingPreflight, Make
<1>7. ProbeStarts => On
  BY DEF planVars, audioVars, mediaVars, ProbeStarts, Make
<1>8. ProbeEnds => On
  BY DEF planVars, audioVars, mediaVars, ProbeEnds
<1>9. EncoderStartup => On
  BY DEF planVars, audioVars, mediaVars, EncoderStartup
<1>10. EnumerateActivates => On
  BY DEF planVars, audioVars, mediaVars, EnumerateActivates, ConfigureStep
<1>11. ActivateEncoder => On
  BY DEF planVars, audioVars, mediaVars, ActivateEncoder
<1>12. QueryTransformTraits => On
  BY DEF planVars, audioVars, mediaVars, QueryTransformTraits, ConfigureStep
<1>13. AttachDxgiDeviceManager => On
  BY DEF planVars, audioVars, mediaVars, AttachDxgiDeviceManager, ConfigureStep
<1>14. ApplyCodecSettings => On
  BY DEF planVars, audioVars, mediaVars, ApplyCodecSettings, ConfigureStep
<1>15. SetOutputType => On
  BY DEF planVars, audioVars, mediaVars, SetOutputType, ConfigureStep
<1>16. SetInputType => On
  BY DEF planVars, audioVars, mediaVars, SetInputType, ConfigureStep
<1>17. EncoderRejected => On
  BY DEF planVars, audioVars, mediaVars, EncoderRejected
<1>18. CreateStore => On
  BY DEF planVars, audioVars, mediaVars, CreateStore, Make
<1>19. PrepareConverter => On
  BY DEF planVars, audioVars, mediaVars, PrepareConverter
<1>20. PrepareChain => On
  BY DEF planVars, audioVars, mediaVars, PrepareChain, Make
<1>21. AacStartup => On
  BY DEF planVars, audioVars, mediaVars, AacStartup
<1>22. EnumerateAacEncoders => On
  BY DEF planVars, audioVars, mediaVars, EnumerateAacEncoders, ConfigureStep
<1>23. TryConfigureActivate => On
  BY DEF planVars, audioVars, mediaVars, TryConfigureActivate, ConfigureStep
<1>24. AacInitialized => On
  BY DEF planVars, audioVars, mediaVars, AacInitialized, Make
<1>25. AacRejected => On
  BY DEF planVars, audioVars, mediaVars, AacRejected
<1>26. BindAudio => On
  BY DEF planVars, audioVars, mediaVars, BindAudio, Make
<1>27. CreateEncodeThread => On
  BY DEF planVars, audioVars, mediaVars, CreateEncodeThread, Make
<1>28. PrepareAudioLive => On
  BY DEF planVars, audioVars, mediaVars, PrepareAudioLive, Make
<1>29. StartExports => On
  BY DEF planVars, audioVars, mediaVars, StartExports, Make
<1>30. StartAudio => On
  BY DEF planVars, audioVars, mediaVars, StartAudio, Make
<1>31. StartThread => On
  BY DEF planVars, audioVars, mediaVars, StartThread, Make
<1>32. StartScreen => On
  BY DEF planVars, audioVars, mediaVars, StartScreen, Make
<1>33. StartUndone => On
  BY DEF planVars, audioVars, mediaVars, StartUndone
<1>34. PipelineEnds => On
  BY DEF planVars, audioVars, mediaVars, PipelineEnds
<1>35. DestroyNext => On
  BY DEF planVars, audioVars, mediaVars, DestroyNext
<1>36. Destroyed => On
  BY DEF planVars, audioVars, mediaVars, Destroyed
<1>37. UNCHANGED setupVars => On
  BY DEF planVars, setupVars, audioVars, PlanInv
<1> HIDE DEF On
<1>38. On => PlanInv'
  BY PlanStays DEF On
<1> QED  BY <1>1, <1>2, <1>3, <1>4, <1>5, <1>6, <1>7, <1>8, <1>9, <1>10, <1>11, <1>12, <1>13,
         <1>14, <1>15, <1>16, <1>17, <1>18, <1>19, <1>20, <1>21, <1>22, <1>23, <1>24, <1>25,
         <1>26, <1>27, <1>28, <1>29, <1>30, <1>31, <1>32, <1>33, <1>34, <1>35, <1>36, <1>37,
         <1>38, PreflightPlans DEF SetupNext

-----------------------------------------------------------------------------
(* The encoders that were initialized, one for each track in turn.         *)

Prepareds == [encoding : {"int16"}, rate : Nat, channels : Nat]
BeforeCoding == ({"com"} \cup PastCom) \ PastChain

CoderInv ==
  /\ encoders \in Seq([id : Nat, format : Prepareds])
  /\ stage \in PastChain =>
       /\ Len(encoders) <= Len(plan)
       /\ \A i \in 1..Len(encoders) :
            /\ encoders[i].id = plan[i].id /\ encoders[i].format = tracks[i].prepared
            /\ AacOutputIsReady(encoders[i].format)
  /\ stage \in Coding \ {"aac"} => Len(encoders) < Len(plan)
  /\ stage = "aacStream" => AacOutputIsReady(NextFormat)
  /\ stage \in PastSession => Len(encoders) = Len(plan)
  /\ stage \in Coding => HasAudio
  /\ stage \in BeforeCoding => encoders = <<>>

(* A list is searched by ids that differ.                                  *)
LEMMA ByIdFinds ==
  ASSUME NEW list, NEW n \in Nat, DOMAIN list = 1..n,
         \A i, j \in 1..n : list[i].id = list[j].id => i = j,
         NEW k \in 1..n
  PROVE  ById(list, list[k].id) = list[k]
<1> DEFINE found == CHOOSE i \in DOMAIN list : list[i].id = list[k].id
<1>1. found \in DOMAIN list /\ list[found].id = list[k].id
  OBVIOUS
<1>2. found = k
  BY <1>1
<1> QED  BY <1>2 DEF ById

(* What the plan says of the tracks.                                       *)
LEMMA TracksAre ==
  PlanInv =>
    /\ DOMAIN plan = 1..Len(plan) /\ DOMAIN tracks = 1..Len(plan) /\ Len(plan) \in Nat
    /\ \A i \in 1..Len(plan) :
         /\ tracks[i].id = plan[i].id /\ plan[i].id \in Nat /\ plan[i].source \in SourceNames
         /\ tracks[i].captured = answered[plan[i].source]
         /\ tracks[i].prepared = Prepared(answered[plan[i].source])
         /\ tracks[i].prepared \in Prepareds
         /\ ById(tracks, plan[i].id) = tracks[i]
    /\ \A i, j \in 1..Len(plan) : plan[i].id = plan[j].id => i = j
<1> SUFFICES ASSUME PlanInv
             PROVE  /\ DOMAIN plan = 1..Len(plan) /\ DOMAIN tracks = 1..Len(plan) /\ Len(plan) \in Nat
                    /\ \A i \in 1..Len(plan) :
                         /\ tracks[i].id = plan[i].id /\ plan[i].id \in Nat /\ plan[i].source \in SourceNames
                         /\ tracks[i].captured = answered[plan[i].source]
                         /\ tracks[i].prepared = Prepared(answered[plan[i].source])
                         /\ tracks[i].prepared \in Prepareds
                         /\ ById(tracks, plan[i].id) = tracks[i]
                    /\ \A i, j \in 1..Len(plan) : plan[i].id = plan[j].id => i = j
  OBVIOUS
<1>1. plan \in Seq([id : Nat, source : SourceNames]) /\ DOMAIN plan = 1..Len(plan) /\ Len(plan) \in Nat
  BY DEF PlanInv
<1>2. tracks = [i \in 1..Len(plan) |-> [id |-> plan[i].id, captured |-> answered[plan[i].source],
                                        prepared |-> Prepared(answered[plan[i].source])]]
  BY <1>1 DEF PlanInv, BuildPreflightTracks
<1>3. \A i \in 1..Len(plan) :
        /\ tracks[i].id = plan[i].id /\ plan[i].id \in Nat /\ plan[i].source \in SourceNames
        /\ tracks[i].captured = answered[plan[i].source]
        /\ tracks[i].prepared = Prepared(answered[plan[i].source])
  <2> DEFINE planned == [id : Nat, source : SourceNames]
  <2>0. plan \in Seq(planned)
    BY <1>1
  <2> HIDE DEF planned
  <2>1. \A i \in 1..Len(plan) : plan[i] \in planned
    BY <2>0
  <2>2. \A i \in 1..Len(plan) : plan[i].id \in Nat /\ plan[i].source \in SourceNames
    BY <2>1 DEF planned
  <2>3. \A i \in 1..Len(plan) :
          tracks[i] = [id |-> plan[i].id, captured |-> answered[plan[i].source],
                       prepared |-> Prepared(answered[plan[i].source])]
    BY <1>2
  <2> SUFFICES ASSUME NEW i \in 1..Len(plan)
               PROVE  /\ tracks[i].id = plan[i].id /\ plan[i].id \in Nat /\ plan[i].source \in SourceNames
                      /\ tracks[i].captured = answered[plan[i].source]
                      /\ tracks[i].prepared = Prepared(answered[plan[i].source])
    OBVIOUS
  <2>4. tracks[i] = [id |-> plan[i].id, captured |-> answered[plan[i].source],
                     prepared |-> Prepared(answered[plan[i].source])]
    BY <2>3
  <2>5. /\ tracks[i].id = plan[i].id /\ tracks[i].captured = answered[plan[i].source]
        /\ tracks[i].prepared = Prepared(answered[plan[i].source])
    BY ONLY <2>4
  <2> QED  BY <2>2, <2>5
<1>4. \A i, j \in 1..Len(plan) : plan[i].id = plan[j].id => i = j
  <2> SUFFICES ASSUME NEW i \in 1..Len(plan), NEW j \in 1..Len(plan), plan[i].id = plan[j].id
               PROVE  i = j
    OBVIOUS
  <2>1. plan # <<>>
    BY <1>1
  <2>2. /\ plan[i].id = options.first + i - 1 /\ plan[j].id = options.first + j - 1
        /\ options.first \in Nat /\ i \in Nat /\ j \in Nat
    BY <1>1, <2>1 DEF PlanInv
  <2> QED  BY ONLY <2>2, plan[i].id = plan[j].id
<1>5. \A i \in 1..Len(plan) : Prepared(answered[plan[i].source]) \in Prepareds
  <2> SUFFICES ASSUME NEW i \in 1..Len(plan) PROVE Prepared(answered[plan[i].source]) \in Prepareds
    OBVIOUS
  <2> DEFINE f == answered[plan[i].source]
  <2>1. plan # <<>>
    BY <1>1
  <2>2. f \in Formats \cup {Unavailable} /\ Included(f)
    BY <2>1 DEF PlanInv, Answers
  <2>3. f.channels \in Nat
    BY <2>2, SetupAssumption DEF Unavailable
  <2> HIDE DEF f
  <2>4. Prepared(f) \in Prepareds
    BY <2>2, <2>3 DEF Included, Prepared, Prepareds
  <2> QED  BY <2>4 DEF f
<1>6. \A i \in 1..Len(plan) : ById(tracks, tracks[i].id) = tracks[i]
  <2>1. DOMAIN tracks = 1..Len(plan)
    BY <1>2
  <2>2. \A i, j \in 1..Len(plan) : tracks[i].id = tracks[j].id => i = j
    BY <1>3, <1>4
  <2> QED  BY ONLY <1>1, <2>1, <2>2, ByIdFinds
<1> QED  BY <1>1, <1>2, <1>3, <1>4, <1>5, <1>6

(* The next encoder is for the next track.                                 *)
LEMMA NextIs ==
  ASSUME PlanInv, Len(encoders) \in Nat, Len(encoders) < Len(plan)
  PROVE  /\ NextTrack = plan[Len(encoders) + 1].id /\ NextTrack \in Nat
         /\ NextFormat = tracks[Len(encoders) + 1].prepared /\ NextFormat \in Prepareds
<1>1. Len(encoders) + 1 \in 1..Len(plan)
  BY TracksAre
<1> QED  BY <1>1, TracksAre DEF NextTrack, NextFormat

LEMMA CoderStart == SetupInit => CoderInv
BY DEF SetupInit, CoderInv, BeforeCoding, PastCom, PastAudio, PastMonitor, PastDevice,
   PastRecording,
   PastEncoder, PastStore, PastChain, PastSession, PastThread, PastAudioLive, PastStart, Coding, Configuring

(* A step that leaves plan and encoders alone.                             *)
CoderOn ==
  /\ UNCHANGED <<planVars, encoders>>
  /\ stage' \in PastChain => stage \in PastChain \/ encoders = <<>>
  /\ stage' \in Coding \ {"aac"} => Len(encoders) < Len(plan)
  /\ stage' = "aacStream" => AacOutputIsReady(NextFormat)
  /\ stage' \in PastSession => Len(encoders) = Len(plan)
  /\ stage' \in Coding => HasAudio
  /\ stage' \in BeforeCoding => stage \in BeforeCoding

LEMMA CoderStays == PlanInv /\ CoderInv /\ CoderOn => CoderInv'
<1> SUFFICES ASSUME PlanInv, CoderInv, CoderOn PROVE CoderInv'
  OBVIOUS
<1>1. HasAudio' = HasAudio /\ NextFormat' = NextFormat
  BY DEF CoderOn, planVars, HasAudio, NextFormat, NextTrack, ById
<1>2. Len(encoders) \in Nat /\ Len(plan) \in Nat /\ Len(<<>>) = 0
  BY DEF CoderInv, PlanInv
<1>3. stage' \in PastChain =>
       /\ Len(encoders) <= Len(plan)
       /\ \A i \in 1..Len(encoders) :
            /\ encoders[i].id = plan[i].id /\ encoders[i].format = tracks[i].prepared
            /\ AacOutputIsReady(encoders[i].format)
  BY <1>2 DEF CoderInv, CoderOn
<1> QED  BY <1>1, <1>3 DEF CoderInv, CoderOn, planVars, AacOutputIsReady

(* The steps that do not.                                                  *)
LEMMA CoderOther ==
  ASSUME PlanInv, CoderInv, AudioPreflight \/ AacInitialized \/ AacRejected \/ DestroyNext
  PROVE  CoderInv'
<1> USE DEF BeforeCoding, PastCom, PastAudio, PastMonitor, PastDevice, PastRecording, PastEncoder,
         PastStore,
     PastChain, PastSession, PastThread, PastAudioLive, PastStart, Coding, Configuring
<1>1. CASE AudioPreflight
  <2>1. encoders = <<>> /\ encoders' = <<>> /\ stage' \in {"monitor", "unwinding"}
    BY <1>1 DEF CoderInv, AudioPreflight, Make, mediaVars
  <2> QED  BY <2>1 DEF CoderInv
<1>2. CASE AacInitialized
  <2>1. /\ stage = "aacStream" /\ stage' = "aac" /\ UNCHANGED planVars
        /\ encoders' = Append(encoders, [id |-> NextTrack, format |-> NextFormat])
    BY <1>2 DEF AacInitialized, Make, planVars, audioVars
  <2>2. /\ encoders \in Seq([id : Nat, format : Prepareds]) /\ Len(encoders) < Len(plan)
        /\ AacOutputIsReady(NextFormat) /\ HasAudio /\ HasAudio' = HasAudio
    BY <2>1 DEF CoderInv, HasAudio, planVars
  <2>3. Len(encoders) \in Nat /\ Len(plan) \in Nat
    BY <2>2 DEF PlanInv
  <2>4. [id |-> NextTrack, format |-> NextFormat] \in [id : Nat, format : Prepareds]
    BY <2>2, <2>3, NextIs
  <2>5. /\ encoders' \in Seq([id : Nat, format : Prepareds]) /\ Len(encoders') = Len(encoders) + 1
        /\ \A i \in 1..Len(encoders) : encoders'[i] = encoders[i]
        /\ encoders'[Len(encoders) + 1] = [id |-> NextTrack, format |-> NextFormat]
    BY <2>1, <2>2, <2>4
  <2>6. \A i \in 1..Len(encoders') :
          /\ encoders'[i].id = plan[i].id /\ encoders'[i].format = tracks[i].prepared
          /\ AacOutputIsReady(encoders'[i].format)
    <3> SUFFICES ASSUME NEW i \in 1..Len(encoders')
                 PROVE  /\ encoders'[i].id = plan[i].id /\ encoders'[i].format = tracks[i].prepared
                        /\ AacOutputIsReady(encoders'[i].format)
      OBVIOUS
    <3>1. CASE i \in 1..Len(encoders)
      BY <2>1, <2>5, <3>1 DEF CoderInv
    <3>2. CASE i = Len(encoders) + 1
      BY <2>2, <2>3, <2>5, <3>2, NextIs
    <3> QED  BY <2>3, <2>5, <3>1, <3>2
  <2>7. Len(encoders') <= Len(plan)
    BY <2>2, <2>3, <2>5
  <2> QED  BY <2>1, <2>2, <2>5, <2>6, <2>7 DEF CoderInv, planVars, AacOutputIsReady
<1>3. CASE AacRejected
  BY <1>3 DEF AacRejected, CoderInv
<1>4. CASE DestroyNext
  <2>1. stage' = "unwinding" /\ (encoders' = <<>> \/ encoders' = encoders)
    BY <1>4 DEF DestroyNext
  <2> DEFINE initialized == [id : Nat, format : Prepareds]
  <2>2. encoders \in Seq(initialized)
    BY DEF CoderInv
  <2> HIDE DEF initialized
  <2>3. encoders' \in Seq(initialized)
    <3>1. <<>> \in Seq(initialized)
      OBVIOUS
    <3> QED  BY ONLY <2>1, <2>2, <3>1, Zenon
  <2> QED  BY <2>1, <2>3 DEF CoderInv, initialized
<1> QED  BY <1>1, <1>2, <1>3, <1>4

LEMMA CoderStep == PlanInv /\ CoderInv /\ [SetupNext]_setupVars => CoderInv'
<1> SUFFICES ASSUME PlanInv, CoderInv, [SetupNext]_setupVars PROVE CoderInv'
  OBVIOUS
<1> USE DEF BeforeCoding, PastCom, PastAudio, PastMonitor, PastDevice, PastRecording, PastEncoder,
         PastStore,
     PastChain, PastSession, PastThread, PastAudioLive, PastStart, Coding, Configuring
<1>1. StepFails => CoderOn
  BY DEF CoderOn, planVars, audioVars, mediaVars, CoderInv, StepFails, Preparing
<1>2. PrepareCom => CoderOn
  BY DEF CoderOn, planVars, audioVars, mediaVars, CoderInv, PrepareCom, Make
<1>3. ResolveMonitor => CoderOn
  BY DEF CoderOn, planVars, audioVars, mediaVars, CoderInv, ResolveMonitor
<1>4. BootstrapMonitor => CoderOn
  BY DEF CoderOn, planVars, audioVars, mediaVars, CoderInv, BootstrapMonitor
<1>5. CreateForMonitor => CoderOn
  BY DEF CoderOn, planVars, audioVars, mediaVars, CoderInv, CreateForMonitor, Make
<1>6. RecordingPreflight => CoderOn
  BY DEF CoderOn, planVars, audioVars, mediaVars, CoderInv, RecordingPreflight, Make
<1>7. ProbeStarts => CoderOn
  BY DEF CoderOn, planVars, audioVars, mediaVars, CoderInv, ProbeStarts, Make
<1>8. ProbeEnds => CoderOn
  BY DEF CoderOn, planVars, audioVars, mediaVars, CoderInv, ProbeEnds
<1>9. EncoderStartup => CoderOn
  BY DEF CoderOn, planVars, audioVars, mediaVars, CoderInv, EncoderStartup
<1>10. EnumerateActivates => CoderOn
  BY DEF CoderOn, planVars, audioVars, mediaVars, CoderInv, EnumerateActivates, ConfigureStep
<1>11. ActivateEncoder => CoderOn
  BY DEF CoderOn, planVars, audioVars, mediaVars, CoderInv, ActivateEncoder
<1>12. QueryTransformTraits => CoderOn
  BY DEF CoderOn, planVars, audioVars, mediaVars, CoderInv, QueryTransformTraits, ConfigureStep
<1>13. AttachDxgiDeviceManager => CoderOn
  BY DEF CoderOn, planVars, audioVars, mediaVars, CoderInv, AttachDxgiDeviceManager, ConfigureStep
<1>14. ApplyCodecSettings => CoderOn
  BY DEF CoderOn, planVars, audioVars, mediaVars, CoderInv, ApplyCodecSettings, ConfigureStep
<1>15. SetOutputType => CoderOn
  BY DEF CoderOn, planVars, audioVars, mediaVars, CoderInv, SetOutputType, ConfigureStep
<1>16. SetInputType => CoderOn
  BY DEF CoderOn, planVars, audioVars, mediaVars, CoderInv, SetInputType, ConfigureStep
<1>17. EncoderRejected => CoderOn
  BY DEF CoderOn, planVars, audioVars, mediaVars, CoderInv, EncoderRejected
<1>18. CreateStore => CoderOn
  BY DEF CoderOn, planVars, audioVars, mediaVars, CoderInv, CreateStore, Make
<1>19. PrepareConverter => CoderOn
  BY DEF CoderOn, planVars, audioVars, mediaVars, CoderInv, PrepareConverter
<1>20. PrepareChain => CoderOn
  BY DEF CoderOn, planVars, audioVars, mediaVars, CoderInv, PrepareChain, Make, PlanInv
<1>21. AacStartup => CoderOn
  BY DEF CoderOn, planVars, audioVars, mediaVars, CoderInv, AacStartup
<1>22. EnumerateAacEncoders => CoderOn
  BY DEF CoderOn, planVars, audioVars, mediaVars, CoderInv, EnumerateAacEncoders, ConfigureStep
<1>23. TryConfigureActivate => CoderOn
  BY DEF CoderOn, planVars, audioVars, mediaVars, CoderInv, TryConfigureActivate, ConfigureStep
<1>24. BindAudio => CoderOn
  BY DEF CoderOn, planVars, audioVars, mediaVars, CoderInv, BindAudio, Make
<1>25. CreateEncodeThread => CoderOn
  BY DEF CoderOn, planVars, audioVars, mediaVars, CoderInv, CreateEncodeThread, Make
<1>26. PrepareAudioLive => CoderOn
  BY DEF CoderOn, planVars, audioVars, mediaVars, CoderInv, PrepareAudioLive, Make
<1>27. StartExports => CoderOn
  BY DEF CoderOn, planVars, audioVars, mediaVars, CoderInv, StartExports, Make
<1>28. StartAudio => CoderOn
  BY DEF CoderOn, planVars, audioVars, mediaVars, CoderInv, StartAudio, Make
<1>29. StartThread => CoderOn
  BY DEF CoderOn, planVars, audioVars, mediaVars, CoderInv, StartThread, Make
<1>30. StartScreen => CoderOn
  BY DEF CoderOn, planVars, audioVars, mediaVars, CoderInv, StartScreen, Make
<1>31. StartUndone => CoderOn
  BY DEF CoderOn, planVars, audioVars, mediaVars, CoderInv, StartUndone
<1>32. PipelineEnds => CoderOn
  BY DEF CoderOn, planVars, audioVars, mediaVars, CoderInv, PipelineEnds
<1>33. Destroyed => CoderOn
  BY DEF CoderOn, planVars, audioVars, mediaVars, CoderInv, Destroyed
<1>34. UNCHANGED setupVars => CoderOn
  BY DEF CoderOn, planVars, setupVars, audioVars, mediaVars, CoderInv
<1>35. CoderOn => CoderInv'
  BY CoderStays
<1> QED  BY <1>1, <1>2, <1>3, <1>4, <1>5, <1>6, <1>7, <1>8, <1>9, <1>10, <1>11, <1>12, <1>13,
         <1>14, <1>15, <1>16, <1>17, <1>18, <1>19, <1>20, <1>21, <1>22, <1>23, <1>24, <1>25,
         <1>26, <1>27, <1>28, <1>29, <1>30, <1>31, <1>32, <1>33, <1>34, <1>35,
         CoderOther DEF SetupNext

-----------------------------------------------------------------------------
(* What exists at which stage, and what it uses.                           *)

Objects == {"com", "audio", "device", "recording", "encoder", "store", "chain", "aac", "session",
            "thread", "audioLive", "exports", "sources", "encoding", "capturing"}

LiveInv ==
  /\ live \subseteq Objects
  /\ stage \in PastCom => "com" \in live
  /\ HasAudio /\ stage \in PastAudio => "audio" \in live
  /\ stage \in PastDevice => "device" \in live
  /\ stage \in PastRecording => "recording" \in live
  /\ stage \in PastEncoder => "encoder" \in live
  /\ stage \in PastStore => "store" \in live
  /\ stage \in PastChain => "chain" \in live
  /\ HasAudio /\ stage \in PastSession => "session" \in live
  /\ stage \in PastThread => "thread" \in live
  /\ HasAudio /\ stage \in PastAudioLive => "audioLive" \in live
  /\ stage \in ({"com"} \cup PastCom) \ PastSession => "session" \notin live
  /\ stage = "audioLive" => HasAudio
  /\ stage = "gone" => live = {}

UsesInv ==
  /\ "encoder" \in live => "device" \in live /\ "com" \in live
  /\ "chain" \in live => /\ "encoder" \in live /\ "device" \in live
                         /\ "store" \in live /\ "recording" \in live
  /\ "aac" \in live => "com" \in live /\ "audio" \in live
  /\ "session" \in live => "aac" \in live /\ "store" \in live /\ "audio" \in live
  /\ "thread" \in live => "chain" \in live
  /\ "audioLive" \in live => "session" \in live
  /\ "exports" \in live => "store" \in live
  /\ "sources" \in live => "audioLive" \in live
  /\ "encoding" \in live => "thread" \in live /\ "chain" \in live
  /\ "capturing" \in live => "thread" \in live /\ "device" \in live

\* Media Foundation is started for the encoders of the audio, for that of the
\* video from its own start to its reset, and for what is on the stack.
CountInv ==
  /\ mfStarted \in BOOLEAN
  /\ startups = Len(encoders) + (IF mfStarted THEN 1 ELSE 0) + (IF stage \in OnStack THEN 1 ELSE 0)
  /\ stage \in Configuring \cup {"codec"} => mfStarted
  /\ stage \in ({"com"} \cup PastCom) \ (PastStore \cup {"codec", "store"} \cup Configuring) => ~mfStarted
  /\ mfStarted => "encoder" \in live
  /\ encoders # <<>> => "aac" \in live

UnwindInv == LiveInv /\ UsesInv /\ CountInv

(* The uses are those of the table.                                        *)
LEMMA UsesSaid ==
  ASSUME LiveInv, UsesInv
  PROVE  \A o \in live : Uses[o] \subseteq live
<1> SUFFICES ASSUME NEW o \in live PROVE Uses[o] \subseteq live
  OBVIOUS
<1>1. o \in Objects
  BY DEF LiveInv
<1>2. /\ Uses["com"] = {} /\ Uses["audio"] = {} /\ Uses["device"] = {} /\ Uses["recording"] = {}
      /\ Uses["encoder"] = {"device", "com"} /\ Uses["store"] = {}
      /\ Uses["chain"] = {"encoder", "device", "store", "recording"}
      /\ Uses["aac"] = {"com", "audio"} /\ Uses["session"] = {"aac", "store", "audio"}
      /\ Uses["thread"] = {"chain"} /\ Uses["audioLive"] = {"session"} /\ Uses["exports"] = {"store"}
      /\ Uses["sources"] = {"audioLive"} /\ Uses["encoding"] = {"thread", "chain"}
      /\ Uses["capturing"] = {"thread", "device"}
  BY DEF Uses
<1>3. CASE o \in {"com", "audio", "device", "recording", "store"}
  BY <1>2, <1>3
<1>4. CASE o \in {"encoder", "chain", "aac", "session", "thread"}
  BY <1>2, <1>4 DEF UsesInv
<1>5. CASE o \in {"audioLive", "exports", "sources", "encoding", "capturing"}
  BY <1>2, <1>5 DEF UsesInv
<1> QED  BY <1>1, <1>3, <1>4, <1>5 DEF Objects

(* The order of the destructor.                                            *)
LEMMA TeardownIs ==
  /\ DOMAIN Teardown = 1..15
  /\ Teardown[1] = "capturing" /\ Teardown[2] = "sources" /\ Teardown[3] = "encoding"
  /\ Teardown[4] = "audioLive" /\ Teardown[5] = "exports" /\ Teardown[6] = "thread"
  /\ Teardown[7] = "session" /\ Teardown[8] = "aac" /\ Teardown[9] = "audio"
  /\ Teardown[10] = "chain" /\ Teardown[11] = "recording" /\ Teardown[12] = "store"
  /\ Teardown[13] = "encoder" /\ Teardown[14] = "device" /\ Teardown[15] = "com"
BY DEF Teardown

LEMMA TeardownIsAll == ToSet(Teardown) = Objects
BY TeardownIs DEF ToSet, Objects

(* What uses an object is taken down before it.                            *)
LEMMA UsersGoFirst ==
  ASSUME UsesInv, NEW i \in DOMAIN Teardown, \A j \in 1..(i - 1) : Teardown[j] \notin live,
         live' = live \ {Teardown[i]}
  PROVE  UsesInv'
<1>1. i \in 1..15
  BY TeardownIs
<1>2. i = 1 => UsesInv'
  <2> SUFFICES ASSUME i = 1 PROVE UsesInv'
    OBVIOUS
  <2>1. live' = live \ {"capturing"}
    BY TeardownIs
  <2> QED  BY ONLY UsesInv, <2>1 DEF UsesInv
<1>3. i = 2 => UsesInv'
  <2> SUFFICES ASSUME i = 2 PROVE UsesInv'
    OBVIOUS
  <2>1. live' = live \ {"sources"}
    BY TeardownIs
  <2> QED  BY ONLY UsesInv, <2>1 DEF UsesInv
<1>4. i = 3 => UsesInv'
  <2> SUFFICES ASSUME i = 3 PROVE UsesInv'
    OBVIOUS
  <2>1. live' = live \ {"encoding"}
    BY TeardownIs
  <2> QED  BY ONLY UsesInv, <2>1 DEF UsesInv
<1>5. i = 4 => UsesInv'
  <2> SUFFICES ASSUME i = 4 PROVE UsesInv'
    OBVIOUS
  <2>1. "sources" \notin live
    BY TeardownIs
  <2>2. live' = live \ {"audioLive"}
    BY TeardownIs
  <2> QED  BY ONLY UsesInv, <2>1, <2>2 DEF UsesInv
<1>6. i = 5 => UsesInv'
  <2> SUFFICES ASSUME i = 5 PROVE UsesInv'
    OBVIOUS
  <2>1. live' = live \ {"exports"}
    BY TeardownIs
  <2> QED  BY ONLY UsesInv, <2>1 DEF UsesInv
<1>7. i = 6 => UsesInv'
  <2> SUFFICES ASSUME i = 6 PROVE UsesInv'
    OBVIOUS
  <2>1. "capturing" \notin live /\ "encoding" \notin live
    BY TeardownIs
  <2>2. live' = live \ {"thread"}
    BY TeardownIs
  <2> QED  BY ONLY UsesInv, <2>1, <2>2 DEF UsesInv
<1>8. i = 7 => UsesInv'
  <2> SUFFICES ASSUME i = 7 PROVE UsesInv'
    OBVIOUS
  <2>1. "audioLive" \notin live
    BY TeardownIs
  <2>2. live' = live \ {"session"}
    BY TeardownIs
  <2> QED  BY ONLY UsesInv, <2>1, <2>2 DEF UsesInv
<1>9. i = 8 => UsesInv'
  <2> SUFFICES ASSUME i = 8 PROVE UsesInv'
    OBVIOUS
  <2>1. "session" \notin live
    BY TeardownIs
  <2>2. live' = live \ {"aac"}
    BY TeardownIs
  <2> QED  BY ONLY UsesInv, <2>1, <2>2 DEF UsesInv
<1>10. i = 9 => UsesInv'
  <2> SUFFICES ASSUME i = 9 PROVE UsesInv'
    OBVIOUS
  <2>1. "session" \notin live /\ "aac" \notin live
    BY TeardownIs
  <2>2. live' = live \ {"audio"}
    BY TeardownIs
  <2> QED  BY ONLY UsesInv, <2>1, <2>2 DEF UsesInv
<1>11. i = 10 => UsesInv'
  <2> SUFFICES ASSUME i = 10 PROVE UsesInv'
    OBVIOUS
  <2>1. "encoding" \notin live /\ "thread" \notin live
    BY TeardownIs
  <2>2. live' = live \ {"chain"}
    BY TeardownIs
  <2> QED  BY ONLY UsesInv, <2>1, <2>2 DEF UsesInv
<1>12. i = 11 => UsesInv'
  <2> SUFFICES ASSUME i = 11 PROVE UsesInv'
    OBVIOUS
  <2>1. "chain" \notin live
    BY TeardownIs
  <2>2. live' = live \ {"recording"}
    BY TeardownIs
  <2> QED  BY ONLY UsesInv, <2>1, <2>2 DEF UsesInv
<1>13. i = 12 => UsesInv'
  <2> SUFFICES ASSUME i = 12 PROVE UsesInv'
    OBVIOUS
  <2>1. "exports" \notin live /\ "session" \notin live /\ "chain" \notin live
    BY TeardownIs
  <2>2. live' = live \ {"store"}
    BY TeardownIs
  <2> QED  BY ONLY UsesInv, <2>1, <2>2 DEF UsesInv
<1>14. i = 13 => UsesInv'
  <2> SUFFICES ASSUME i = 13 PROVE UsesInv'
    OBVIOUS
  <2>1. "chain" \notin live
    BY TeardownIs
  <2>2. live' = live \ {"encoder"}
    BY TeardownIs
  <2> QED  BY ONLY UsesInv, <2>1, <2>2 DEF UsesInv
<1>15. i = 14 => UsesInv'
  <2> SUFFICES ASSUME i = 14 PROVE UsesInv'
    OBVIOUS
  <2>1. "capturing" \notin live /\ "chain" \notin live /\ "encoder" \notin live
    BY TeardownIs
  <2>2. live' = live \ {"device"}
    BY TeardownIs
  <2> QED  BY ONLY UsesInv, <2>1, <2>2 DEF UsesInv
<1>16. i = 15 => UsesInv'
  <2> SUFFICES ASSUME i = 15 PROVE UsesInv'
    OBVIOUS
  <2>1. "aac" \notin live /\ "encoder" \notin live
    BY TeardownIs
  <2>2. live' = live \ {"com"}
    BY TeardownIs
  <2> QED  BY ONLY UsesInv, <2>1, <2>2 DEF UsesInv
<1> QED
  <2>1. \/ i = 1 \/ i = 2 \/ i = 3 \/ i = 4 \/ i = 5
        \/ i = 6 \/ i = 7 \/ i = 8 \/ i = 9 \/ i = 10
        \/ i = 11 \/ i = 12 \/ i = 13 \/ i = 14 \/ i = 15
    BY <1>1
  <2> QED  BY ONLY <2>1, <1>2, <1>3, <1>4, <1>5, <1>6, <1>7, <1>8,
         <1>9, <1>10, <1>11, <1>12, <1>13, <1>14, <1>15, <1>16

LEMMA UnwindStart == SetupInit => UnwindInv
<1> SUFFICES ASSUME SetupInit PROVE UnwindInv
  OBVIOUS
<1> USE DEF SetupInit, PastCom, PastAudio, PastMonitor, PastDevice, PastRecording, PastEncoder,
         PastStore, PastChain,
     PastSession, PastThread, PastAudioLive, PastStart, Coding, Configuring
<1>1. LiveInv
  BY DEF LiveInv
<1>2. UsesInv
  BY DEF UsesInv
<1>3. CountInv
  <2>1. encoders = <<>> /\ Len(encoders) = 0 /\ mfStarted = FALSE /\ startups = 0 /\ stage = "com"
    OBVIOUS
  <2>2. startups = Len(encoders) + (IF mfStarted THEN 1 ELSE 0) + (IF stage \in OnStack THEN 1 ELSE 0)
    BY ONLY <2>1 DEF OnStack
  <2> QED  BY <2>1, <2>2 DEF CountInv
<1> QED  BY <1>1, <1>2, <1>3 DEF UnwindInv

(* The destructor frees what was started with what had started it.         *)
LEMMA DestructorUnwinds ==
  ASSUME UnwindInv, encoders \in Seq([id : Nat, format : Prepareds]), DestroyNext
  PROVE  UnwindInv'
<1>1. PICK i \in DOMAIN Teardown :
        /\ stage = "unwinding" /\ Teardown[i] \in live
        /\ \A j \in 1..(i - 1) : Teardown[j] \notin live
        /\ live' = live \ {Teardown[i]}
        /\ encoders' = (IF Teardown[i] = "aac" THEN <<>> ELSE encoders)
        /\ mfStarted' = (mfStarted /\ Teardown[i] # "encoder")
        /\ startups' = startups - (IF Teardown[i] = "aac" THEN Len(encoders) ELSE 0)
                                - (IF Teardown[i] = "encoder" /\ mfStarted THEN 1 ELSE 0)
        /\ UNCHANGED <<options, stage>>
  BY DEF DestroyNext
<1> DEFINE object == Teardown[i]
<1> USE DEF PastCom, PastAudio, PastMonitor, PastDevice, PastRecording, PastEncoder, PastStore,
         PastChain,
     PastSession, PastThread, PastAudioLive, PastStart, Coding, Configuring
<1>2. LiveInv'
  BY <1>1 DEF UnwindInv, LiveInv, HasAudio
<1>3. UsesInv'
  BY <1>1, UsersGoFirst DEF UnwindInv
<1>4. CountInv'
  <2>1. /\ mfStarted \in BOOLEAN /\ Len(encoders) \in Nat /\ Len(<<>>) = 0 /\ stage \notin OnStack
        /\ startups = Len(encoders) + (IF mfStarted THEN 1 ELSE 0) /\ CountInv
    BY <1>1 DEF UnwindInv, CountInv, OnStack
  <2>2. CASE object = "aac"
    <3>1. mfStarted' = mfStarted
      BY <1>1, <2>1, <2>2
    <3>2. encoders' = <<>> /\ startups' = startups - Len(encoders) /\ stage' = stage /\ live' = live \ {"aac"}
      BY <1>1, <2>1, <2>2
    <3>3. startups' = (IF mfStarted THEN 1 ELSE 0)
      BY ONLY <2>1, <3>2
    <3> QED  BY <2>1, <3>1, <3>2, <3>3, <1>1 DEF CountInv
  <2>3. CASE object = "encoder"
    <3>1. mfStarted' = FALSE
      BY <1>1, <2>1, <2>3, Zenon
    <3>2. /\ encoders' = encoders /\ startups' = startups - (IF mfStarted THEN 1 ELSE 0)
          /\ stage' = stage /\ live' = live \ {"encoder"}
      BY <1>1, <2>1, <2>3
    <3>3. startups' = Len(encoders)
      BY ONLY <2>1, <3>2
    <3> QED  BY <2>1, <3>1, <3>2, <3>3, <1>1 DEF CountInv
  <2>4. CASE object \notin {"aac", "encoder"}
    <3>1. mfStarted' = mfStarted
      <4>1. mfStarted' = (mfStarted /\ object # "encoder")
        BY <1>1
      <4>2. object # "encoder"
        BY <2>4
      <4> HIDE DEF object
      <4>3. mfStarted = TRUE => mfStarted' = TRUE
        BY ONLY <4>1, <4>2, Zenon
      <4>4. mfStarted = FALSE => mfStarted' = FALSE
        BY ONLY <4>1, <4>2, Zenon
      <4> QED  BY ONLY <2>1, <4>3, <4>4
    <3>2. encoders' = encoders /\ stage' = stage /\ live' = live \ {object}
      BY <1>1, <2>4
    <3>4. startups' = startups
      <4>1. startups' = startups - 0 - 0
        BY <1>1, <2>4
      <4>2. startups \in Int
        BY ONLY <2>1
      <4> QED  BY ONLY <4>1, <4>2
    <3> QED  BY <2>1, <2>4, <3>1, <3>2, <3>4, <1>1 DEF CountInv
  <2> QED  BY <2>2, <2>3, <2>4
<1> QED  BY <1>2, <1>3, <1>4 DEF UnwindInv

(* The audio binds when its encoders are there.                            *)
LEMMA BindUses ==
  ASSUME PlanInv, CoderInv, UnwindInv, BindAudio \/ AacInitialized
  PROVE  UsesInv'
<1> USE DEF PastCom, PastAudio, PastMonitor, PastDevice, PastRecording, PastEncoder, PastStore,
         PastChain,
     PastSession, PastThread, PastAudioLive, PastStart, Coding, Configuring
<1>1. CASE BindAudio
  <2>1. HasAudio /\ stage = "aac" /\ Len(encoders) = Len(plan) /\ live' = live \cup {"session"}
    BY <1>1 DEF BindAudio, Make, CoderInv
  <2>2. plan # <<>> /\ plan \in Seq([id : Nat, source : SourceNames])
    BY <2>1 DEF PlanInv
  <2>3. encoders # <<>>
    BY <2>1, <2>2
  <2>4. "aac" \in live /\ "store" \in live /\ "audio" \in live
    BY <2>1, <2>3 DEF UnwindInv, CountInv, LiveInv
  <2> QED  BY <2>1, <2>4 DEF UnwindInv, UsesInv
<1>2. CASE AacInitialized
  <2>1. HasAudio /\ stage = "aacStream" /\ live' = live \cup {"aac"}
    BY <1>2 DEF AacInitialized, Make, CoderInv
  <2>2. "com" \in live /\ "audio" \in live
    BY <2>1 DEF UnwindInv, LiveInv
  <2> QED  BY <2>1, <2>2 DEF UnwindInv, UsesInv
<1> QED  BY <1>1, <1>2

(* What exists at which stage.                                             *)
LEMMA LiveStep == UnwindInv /\ [SetupNext]_setupVars => LiveInv'
<1> SUFFICES ASSUME UnwindInv, [SetupNext]_setupVars PROVE LiveInv'
  OBVIOUS
<1> USE DEF PastCom, PastAudio, PastMonitor, PastDevice, PastRecording, PastEncoder, PastStore,
         PastChain,
     PastSession, PastThread, PastAudioLive, PastStart, Coding, Configuring
<1>1. StepFails => LiveInv'
  BY DEF UnwindInv, LiveInv, HasAudio, Objects, audioVars, mediaVars, StepFails, Preparing
<1>2. PrepareCom => LiveInv'
  BY DEF UnwindInv, LiveInv, HasAudio, Objects, audioVars, mediaVars, PrepareCom, Make
<1>3. AudioPreflight => LiveInv'
  BY DEF UnwindInv, LiveInv, HasAudio, Objects, audioVars, mediaVars, AudioPreflight, Make
<1>4. ResolveMonitor => LiveInv'
  BY DEF UnwindInv, LiveInv, HasAudio, Objects, audioVars, mediaVars, ResolveMonitor
<1>5. BootstrapMonitor => LiveInv'
  BY DEF UnwindInv, LiveInv, HasAudio, Objects, audioVars, mediaVars, BootstrapMonitor
<1>6. CreateForMonitor => LiveInv'
  BY DEF UnwindInv, LiveInv, HasAudio, Objects, audioVars, mediaVars, CreateForMonitor, Make
<1>7. RecordingPreflight => LiveInv'
  BY DEF UnwindInv, LiveInv, HasAudio, Objects, audioVars, mediaVars, RecordingPreflight, Make
<1>8. ProbeStarts => LiveInv'
  BY DEF UnwindInv, LiveInv, HasAudio, Objects, audioVars, mediaVars, ProbeStarts, Make
<1>9. ProbeEnds => LiveInv'
  BY DEF UnwindInv, LiveInv, HasAudio, Objects, audioVars, mediaVars, ProbeEnds
<1>10. EncoderStartup => LiveInv'
  BY DEF UnwindInv, LiveInv, HasAudio, Objects, audioVars, mediaVars, EncoderStartup
<1>11. EnumerateActivates => LiveInv'
  BY DEF UnwindInv, LiveInv, HasAudio, Objects, audioVars, mediaVars, EnumerateActivates,
     ConfigureStep
<1>12. ActivateEncoder => LiveInv'
  BY DEF UnwindInv, LiveInv, HasAudio, Objects, audioVars, mediaVars, ActivateEncoder
<1>13. QueryTransformTraits => LiveInv'
  BY DEF UnwindInv, LiveInv, HasAudio, Objects, audioVars, mediaVars, QueryTransformTraits,
     ConfigureStep
<1>14. AttachDxgiDeviceManager => LiveInv'
  BY DEF UnwindInv, LiveInv, HasAudio, Objects, audioVars, mediaVars, AttachDxgiDeviceManager,
     ConfigureStep
<1>15. ApplyCodecSettings => LiveInv'
  BY DEF UnwindInv, LiveInv, HasAudio, Objects, audioVars, mediaVars, ApplyCodecSettings,
     ConfigureStep
<1>16. SetOutputType => LiveInv'
  BY DEF UnwindInv, LiveInv, HasAudio, Objects, audioVars, mediaVars, SetOutputType, ConfigureStep
<1>17. SetInputType => LiveInv'
  BY DEF UnwindInv, LiveInv, HasAudio, Objects, audioVars, mediaVars, SetInputType, ConfigureStep
<1>18. EncoderRejected => LiveInv'
  BY DEF UnwindInv, LiveInv, HasAudio, Objects, audioVars, mediaVars, EncoderRejected
<1>19. CreateStore => LiveInv'
  BY DEF UnwindInv, LiveInv, HasAudio, Objects, audioVars, mediaVars, CreateStore, Make
<1>20. PrepareConverter => LiveInv'
  BY DEF UnwindInv, LiveInv, HasAudio, Objects, audioVars, mediaVars, PrepareConverter
<1>21. PrepareChain => LiveInv'
  BY DEF UnwindInv, LiveInv, HasAudio, Objects, audioVars, mediaVars, PrepareChain, Make
<1>22. AacStartup => LiveInv'
  BY DEF UnwindInv, LiveInv, HasAudio, Objects, audioVars, mediaVars, AacStartup
<1>23. EnumerateAacEncoders => LiveInv'
  BY DEF UnwindInv, LiveInv, HasAudio, Objects, audioVars, mediaVars, EnumerateAacEncoders,
     ConfigureStep
<1>24. TryConfigureActivate => LiveInv'
  BY DEF UnwindInv, LiveInv, HasAudio, Objects, audioVars, mediaVars, TryConfigureActivate,
     ConfigureStep
<1>25. AacInitialized => LiveInv'
  BY DEF UnwindInv, LiveInv, HasAudio, Objects, audioVars, mediaVars, AacInitialized, Make
<1>26. AacRejected => LiveInv'
  BY DEF UnwindInv, LiveInv, HasAudio, Objects, audioVars, mediaVars, AacRejected
<1>27. BindAudio => LiveInv'
  BY DEF UnwindInv, LiveInv, HasAudio, Objects, audioVars, mediaVars, BindAudio, Make
<1>28. CreateEncodeThread => LiveInv'
  BY DEF UnwindInv, LiveInv, HasAudio, Objects, audioVars, mediaVars, CreateEncodeThread, Make
<1>29. PrepareAudioLive => LiveInv'
  BY DEF UnwindInv, LiveInv, HasAudio, Objects, audioVars, mediaVars, PrepareAudioLive, Make
<1>30. StartExports => LiveInv'
  BY DEF UnwindInv, LiveInv, HasAudio, Objects, audioVars, mediaVars, StartExports, Make
<1>31. StartAudio => LiveInv'
  BY DEF UnwindInv, LiveInv, HasAudio, Objects, audioVars, mediaVars, StartAudio, Make
<1>32. StartThread => LiveInv'
  BY DEF UnwindInv, LiveInv, HasAudio, Objects, audioVars, mediaVars, StartThread, Make
<1>33. StartScreen => LiveInv'
  BY DEF UnwindInv, LiveInv, HasAudio, Objects, audioVars, mediaVars, StartScreen, Make
<1>34. StartUndone => LiveInv'
  BY DEF UnwindInv, LiveInv, HasAudio, Objects, audioVars, mediaVars, StartUndone
<1>35. PipelineEnds => LiveInv'
  BY DEF UnwindInv, LiveInv, HasAudio, Objects, audioVars, mediaVars, PipelineEnds
<1>36. DestroyNext => LiveInv'
  BY DEF UnwindInv, LiveInv, HasAudio, Objects, audioVars, mediaVars, DestroyNext
<1>37. Destroyed => LiveInv'
  BY TeardownIsAll DEF UnwindInv, LiveInv, HasAudio, Objects, audioVars, mediaVars, Destroyed
<1>38. UNCHANGED setupVars => LiveInv'
  BY DEF setupVars, UnwindInv, LiveInv, HasAudio, Objects, audioVars, mediaVars
<1> QED  BY <1>1, <1>2, <1>3, <1>4, <1>5, <1>6, <1>7, <1>8, <1>9, <1>10, <1>11, <1>12, <1>13,
         <1>14, <1>15, <1>16, <1>17, <1>18, <1>19, <1>20, <1>21, <1>22, <1>23, <1>24, <1>25,
         <1>26, <1>27, <1>28, <1>29, <1>30, <1>31, <1>32, <1>33, <1>34, <1>35, <1>36, <1>37,
         <1>38 DEF SetupNext

(* What uses what.                                                         *)
LEMMA UsesStep == PlanInv /\ CoderInv /\ UnwindInv /\ [SetupNext]_setupVars => UsesInv'
<1> SUFFICES ASSUME PlanInv, CoderInv, UnwindInv, [SetupNext]_setupVars PROVE UsesInv'
  OBVIOUS
<1> USE DEF PastCom, PastAudio, PastMonitor, PastDevice, PastRecording, PastEncoder, PastStore,
         PastChain,
     PastSession, PastThread, PastAudioLive, PastStart, Coding, Configuring
<1>1. StepFails => UsesInv'
  BY DEF UnwindInv, LiveInv, UsesInv, HasAudio, audioVars, mediaVars, StepFails, Preparing
<1>2. PrepareCom => UsesInv'
  BY DEF UnwindInv, LiveInv, UsesInv, HasAudio, audioVars, mediaVars, PrepareCom, Make
<1>3. AudioPreflight => UsesInv'
  BY DEF UnwindInv, LiveInv, UsesInv, HasAudio, audioVars, mediaVars, AudioPreflight, Make
<1>4. ResolveMonitor => UsesInv'
  BY DEF UnwindInv, LiveInv, UsesInv, HasAudio, audioVars, mediaVars, ResolveMonitor
<1>5. BootstrapMonitor => UsesInv'
  BY DEF UnwindInv, LiveInv, UsesInv, HasAudio, audioVars, mediaVars, BootstrapMonitor
<1>6. CreateForMonitor => UsesInv'
  BY DEF UnwindInv, LiveInv, UsesInv, HasAudio, audioVars, mediaVars, CreateForMonitor, Make
<1>7. RecordingPreflight => UsesInv'
  BY DEF UnwindInv, LiveInv, UsesInv, HasAudio, audioVars, mediaVars, RecordingPreflight, Make
<1>8. ProbeStarts => UsesInv'
  BY DEF UnwindInv, LiveInv, UsesInv, HasAudio, audioVars, mediaVars, ProbeStarts, Make
<1>9. ProbeEnds => UsesInv'
  BY DEF UnwindInv, LiveInv, UsesInv, HasAudio, audioVars, mediaVars, ProbeEnds
<1>10. EncoderStartup => UsesInv'
  BY DEF UnwindInv, LiveInv, UsesInv, HasAudio, audioVars, mediaVars, EncoderStartup
<1>11. EnumerateActivates => UsesInv'
  BY DEF UnwindInv, LiveInv, UsesInv, HasAudio, audioVars, mediaVars, EnumerateActivates,
     ConfigureStep
<1>12. ActivateEncoder => UsesInv'
  BY DEF UnwindInv, LiveInv, UsesInv, HasAudio, audioVars, mediaVars, ActivateEncoder
<1>13. QueryTransformTraits => UsesInv'
  BY DEF UnwindInv, LiveInv, UsesInv, HasAudio, audioVars, mediaVars, QueryTransformTraits,
     ConfigureStep
<1>14. AttachDxgiDeviceManager => UsesInv'
  BY DEF UnwindInv, LiveInv, UsesInv, HasAudio, audioVars, mediaVars, AttachDxgiDeviceManager,
     ConfigureStep
<1>15. ApplyCodecSettings => UsesInv'
  BY DEF UnwindInv, LiveInv, UsesInv, HasAudio, audioVars, mediaVars, ApplyCodecSettings,
     ConfigureStep
<1>16. SetOutputType => UsesInv'
  BY DEF UnwindInv, LiveInv, UsesInv, HasAudio, audioVars, mediaVars, SetOutputType, ConfigureStep
<1>17. SetInputType => UsesInv'
  BY DEF UnwindInv, LiveInv, UsesInv, HasAudio, audioVars, mediaVars, SetInputType, ConfigureStep
<1>18. EncoderRejected => UsesInv'
  BY DEF UnwindInv, LiveInv, UsesInv, HasAudio, audioVars, mediaVars, EncoderRejected
<1>19. CreateStore => UsesInv'
  BY DEF UnwindInv, LiveInv, UsesInv, HasAudio, audioVars, mediaVars, CreateStore, Make
<1>20. PrepareConverter => UsesInv'
  BY DEF UnwindInv, LiveInv, UsesInv, HasAudio, audioVars, mediaVars, PrepareConverter
<1>21. PrepareChain => UsesInv'
  BY DEF UnwindInv, LiveInv, UsesInv, HasAudio, audioVars, mediaVars, PrepareChain, Make
<1>22. AacStartup => UsesInv'
  BY DEF UnwindInv, LiveInv, UsesInv, HasAudio, audioVars, mediaVars, AacStartup
<1>23. EnumerateAacEncoders => UsesInv'
  BY DEF UnwindInv, LiveInv, UsesInv, HasAudio, audioVars, mediaVars, EnumerateAacEncoders,
     ConfigureStep
<1>24. TryConfigureActivate => UsesInv'
  BY DEF UnwindInv, LiveInv, UsesInv, HasAudio, audioVars, mediaVars, TryConfigureActivate,
     ConfigureStep
<1>25. AacRejected => UsesInv'
  BY DEF UnwindInv, LiveInv, UsesInv, HasAudio, audioVars, mediaVars, AacRejected
<1>26. CreateEncodeThread => UsesInv'
  BY DEF UnwindInv, LiveInv, UsesInv, HasAudio, audioVars, mediaVars, CreateEncodeThread, Make
<1>27. PrepareAudioLive => UsesInv'
  BY DEF UnwindInv, LiveInv, UsesInv, HasAudio, audioVars, mediaVars, PrepareAudioLive, Make
<1>28. StartExports => UsesInv'
  BY DEF UnwindInv, LiveInv, UsesInv, HasAudio, audioVars, mediaVars, StartExports, Make
<1>29. StartAudio => UsesInv'
  BY DEF UnwindInv, LiveInv, UsesInv, HasAudio, audioVars, mediaVars, StartAudio, Make
<1>30. StartThread => UsesInv'
  BY DEF UnwindInv, LiveInv, UsesInv, HasAudio, audioVars, mediaVars, StartThread, Make
<1>31. StartScreen => UsesInv'
  BY DEF UnwindInv, LiveInv, UsesInv, HasAudio, audioVars, mediaVars, StartScreen, Make
<1>32. StartUndone => UsesInv'
  BY DEF UnwindInv, LiveInv, UsesInv, HasAudio, audioVars, mediaVars, StartUndone
<1>33. PipelineEnds => UsesInv'
  BY DEF UnwindInv, LiveInv, UsesInv, HasAudio, audioVars, mediaVars, PipelineEnds
<1>34. Destroyed => UsesInv'
  BY DEF UnwindInv, LiveInv, UsesInv, HasAudio, audioVars, mediaVars, Destroyed
<1>35. UNCHANGED setupVars => UsesInv'
  BY DEF setupVars, UnwindInv, LiveInv, UsesInv, HasAudio, audioVars, mediaVars
<1> QED  BY <1>1, <1>2, <1>3, <1>4, <1>5, <1>6, <1>7, <1>8, <1>9, <1>10, <1>11, <1>12, <1>13,
         <1>14, <1>15, <1>16, <1>17, <1>18, <1>19, <1>20, <1>21, <1>22, <1>23, <1>24, <1>25,
         <1>26, <1>27, <1>28, <1>29, <1>30, <1>31, <1>32, <1>33, <1>34, <1>35,
         DestructorUnwinds, BindUses DEF UnwindInv, CoderInv, SetupNext

(* The steps that start, end or unwind something.                          *)
LEMMA CountOther ==
  ASSUME UnwindInv, encoders \in Seq([id : Nat, format : Prepareds]),
         EncoderStartup \/ EncoderRejected \/ AacRejected \/ StartAudio \/ StartUndone
  PROVE  CountInv'
<1> USE DEF PastCom, PastAudio, PastMonitor, PastDevice, PastRecording, PastEncoder, PastStore,
         PastChain,
     PastSession, PastThread, PastAudioLive, PastStart, Coding, Configuring
<1>0. /\ mfStarted \in BOOLEAN /\ Len(encoders) \in Nat /\ Len(<<>>) = 0 /\ CountInv
      /\ startups = Len(encoders) + (IF mfStarted THEN 1 ELSE 0) + (IF stage \in OnStack THEN 1 ELSE 0)
  BY DEF UnwindInv, CountInv
<1>1. CASE EncoderStartup
  <2>1. /\ stage = "startup" /\ stage' = "enumerate" /\ UNCHANGED <<live, encoders>>
        /\ mfStarted' = TRUE /\ startups' = startups + 1
    BY <1>1 DEF EncoderStartup
  <2>2. mfStarted = FALSE
    BY <1>0, <2>1 DEF CountInv
  <2>3. stage \notin OnStack /\ stage' \notin OnStack
    BY <2>1 DEF OnStack
  <2>4. startups' = Len(encoders) + 1
    BY ONLY <1>0, <2>1, <2>2, <2>3
  <2>5. "encoder" \in live
    BY <2>1 DEF UnwindInv, LiveInv
  <2>6. mfStarted' \in BOOLEAN /\ (IF mfStarted' THEN 1 ELSE 0) = 1
    BY ONLY <2>1
  <2>7. /\ startups' = Len(encoders') + (IF mfStarted' THEN 1 ELSE 0) + (IF stage' \in OnStack THEN 1 ELSE 0)
        /\ mfStarted' /\ "encoder" \in live' /\ (encoders' # <<>> => "aac" \in live')
    BY <1>0, <2>1, <2>3, <2>4, <2>5, <2>6 DEF CountInv
  <2>8. stage' \in Configuring
    BY <2>1
  <2>9. stage' \notin ({"com"} \cup PastCom) \ (PastStore \cup {"codec", "store"} \cup Configuring)
    BY <2>8
  <2> HIDE DEF PastCom, PastAudio, PastMonitor, PastDevice, PastRecording, PastEncoder, PastStore,
           PastChain,
     PastSession, PastThread, PastAudioLive, PastStart, Coding, Configuring
  <2> QED  BY ONLY <2>6, <2>7, <2>9 DEF CountInv
<1>2. CASE EncoderRejected
  <2>1. /\ stage \in Configuring /\ stage' = "unwinding" /\ UNCHANGED <<live, encoders>>
        /\ mfStarted' = FALSE /\ startups' = startups - 1
    BY <1>2 DEF EncoderRejected
  <2>2. mfStarted = TRUE
    BY <1>0, <2>1 DEF CountInv
  <2>3. stage \notin OnStack /\ stage' \notin OnStack
    BY <2>1 DEF OnStack
  <2>4. (IF mfStarted THEN 1 ELSE 0) = 1 /\ (IF mfStarted' THEN 1 ELSE 0) = 0 /\ mfStarted' \in BOOLEAN
    BY ONLY <2>1, <2>2
  <2>5. startups = Len(encoders) + 1
    BY ONLY <1>0, <2>3, <2>4
  <2>6. startups' = Len(encoders') + (IF mfStarted' THEN 1 ELSE 0) + (IF stage' \in OnStack THEN 1 ELSE 0)
    BY ONLY <1>0, <2>1, <2>3, <2>4, <2>5
  <2>7. ~mfStarted' /\ (encoders' # <<>> => "aac" \in live')
    BY <1>0, <2>1 DEF CountInv
  <2>8. stage' \notin Configuring \cup {"codec"}
    BY <2>1
  <2>9. ~mfStarted'
    BY <2>7
  <2> QED  BY ONLY <2>1, <2>4, <2>6, <2>7, <2>8, <2>9 DEF CountInv
<1>3. CASE AacRejected
  <2>1. /\ stage' = "unwinding" /\ encoders' = <<>> /\ live' = live \ {"aac"} /\ mfStarted' = mfStarted
        /\ startups' = startups - Len(encoders) - (IF stage \in OnStack THEN 1 ELSE 0)
    BY <1>3 DEF AacRejected
  <2>2. stage' \notin OnStack
    BY <2>1 DEF OnStack
  <2>3. startups' = (IF mfStarted THEN 1 ELSE 0)
    <3> DEFINE a == IF mfStarted THEN 1 ELSE 0
               b == IF stage \in OnStack THEN 1 ELSE 0
    <3>1. a \in Int /\ b \in Int
      OBVIOUS
    <3>2. startups = Len(encoders) + a + b /\ startups' = startups - Len(encoders) - b
      BY <1>0, <2>1
    <3> HIDE DEF a, b
    <3>3. startups' = a
      BY ONLY <1>0, <3>1, <3>2
    <3> QED  BY <3>3 DEF a
  <2>4. mfStarted' => "encoder" \in live'
    BY <1>0, <2>1 DEF CountInv
  <2>5. startups' = Len(encoders') + (IF mfStarted' THEN 1 ELSE 0) + (IF stage' \in OnStack THEN 1 ELSE 0)
    <3>1. Len(encoders') = 0 /\ (IF stage' \in OnStack THEN 1 ELSE 0) = 0
      BY <2>1, <2>2
    <3>2. (IF mfStarted' THEN 1 ELSE 0) = startups' /\ startups' \in Int
      BY <2>1, <2>3
    <3> QED  BY ONLY <3>1, <3>2
  <2>6. mfStarted' \in BOOLEAN /\ stage' \notin Configuring \cup {"codec"} /\ stage' \notin {"com"} \cup PastCom
    BY <1>0, <2>1
  <2> QED  BY ONLY <2>1, <2>4, <2>5, <2>6 DEF CountInv, OnStack
<1>4. CASE StartAudio \/ StartUndone
  <2>1. /\ UNCHANGED <<encoders, mfStarted, startups>> /\ ("aac" \in live => "aac" \in live')
        /\ ("encoder" \in live => "encoder" \in live')
        /\ stage \in {"prepared", "startThread", "startCapture"} /\ stage' \in {"startThread", "unwinding"}
    BY <1>4 DEF StartAudio, StartUndone, Make, mediaVars
  <2>2. stage \notin OnStack /\ stage' \notin OnStack
    BY <2>1 DEF OnStack
  <2> QED  BY <1>0, <2>1, <2>2 DEF CountInv
<1> QED  BY <1>1, <1>2, <1>3, <1>4

(* What is started.                                                        *)
LEMMA CountStep == CoderInv /\ UnwindInv /\ [SetupNext]_setupVars => CountInv'
<1> SUFFICES ASSUME CoderInv, UnwindInv, [SetupNext]_setupVars PROVE CountInv'
  OBVIOUS
<1> USE DEF PastCom, PastAudio, PastMonitor, PastDevice, PastRecording, PastEncoder, PastStore,
         PastChain,
     PastSession, PastThread, PastAudioLive, PastStart, Coding, Configuring
<1>1. StepFails => CountInv'
  BY DEF UnwindInv, CountInv, OnStack, audioVars, mediaVars, CoderInv, StepFails, Preparing
<1>2. PrepareCom => CountInv'
  BY DEF UnwindInv, CountInv, OnStack, audioVars, mediaVars, CoderInv, PrepareCom, Make
<1>3. AudioPreflight => CountInv'
  BY DEF UnwindInv, CountInv, OnStack, audioVars, mediaVars, CoderInv, AudioPreflight, Make
<1>4. ResolveMonitor => CountInv'
  BY DEF UnwindInv, CountInv, OnStack, audioVars, mediaVars, CoderInv, ResolveMonitor
<1>5. BootstrapMonitor => CountInv'
  BY DEF UnwindInv, CountInv, OnStack, audioVars, mediaVars, CoderInv, BootstrapMonitor
<1>6. CreateForMonitor => CountInv'
  BY DEF UnwindInv, CountInv, OnStack, audioVars, mediaVars, CoderInv, CreateForMonitor, Make
<1>7. RecordingPreflight => CountInv'
  BY DEF UnwindInv, CountInv, OnStack, audioVars, mediaVars, CoderInv, RecordingPreflight, Make
<1>8. ProbeStarts => CountInv'
  BY DEF UnwindInv, CountInv, OnStack, audioVars, mediaVars, CoderInv, ProbeStarts, Make
<1>9. ProbeEnds => CountInv'
  BY DEF UnwindInv, CountInv, OnStack, audioVars, mediaVars, CoderInv, ProbeEnds
<1>10. EnumerateActivates => CountInv'
  BY DEF UnwindInv, CountInv, OnStack, audioVars, mediaVars, CoderInv, EnumerateActivates,
     ConfigureStep
<1>11. ActivateEncoder => CountInv'
  BY DEF UnwindInv, CountInv, OnStack, audioVars, mediaVars, CoderInv, ActivateEncoder
<1>12. QueryTransformTraits => CountInv'
  BY DEF UnwindInv, CountInv, OnStack, audioVars, mediaVars, CoderInv, QueryTransformTraits,
     ConfigureStep
<1>13. AttachDxgiDeviceManager => CountInv'
  BY DEF UnwindInv, CountInv, OnStack, audioVars, mediaVars, CoderInv, AttachDxgiDeviceManager,
     ConfigureStep
<1>14. ApplyCodecSettings => CountInv'
  BY DEF UnwindInv, CountInv, OnStack, audioVars, mediaVars, CoderInv, ApplyCodecSettings,
     ConfigureStep
<1>15. SetOutputType => CountInv'
  BY DEF UnwindInv, CountInv, OnStack, audioVars, mediaVars, CoderInv, SetOutputType, ConfigureStep
<1>16. SetInputType => CountInv'
  BY DEF UnwindInv, CountInv, OnStack, audioVars, mediaVars, CoderInv, SetInputType, ConfigureStep
<1>17. CreateStore => CountInv'
  BY DEF UnwindInv, CountInv, OnStack, audioVars, mediaVars, CoderInv, CreateStore, Make
<1>18. PrepareConverter => CountInv'
  BY DEF UnwindInv, CountInv, OnStack, audioVars, mediaVars, CoderInv, PrepareConverter
<1>19. PrepareChain => CountInv'
  BY DEF UnwindInv, CountInv, OnStack, audioVars, mediaVars, CoderInv, PrepareChain, Make
<1>20. AacStartup => CountInv'
  BY DEF UnwindInv, CountInv, OnStack, audioVars, mediaVars, CoderInv, AacStartup
<1>21. EnumerateAacEncoders => CountInv'
  BY DEF UnwindInv, CountInv, OnStack, audioVars, mediaVars, CoderInv, EnumerateAacEncoders,
     ConfigureStep
<1>22. TryConfigureActivate => CountInv'
  BY DEF UnwindInv, CountInv, OnStack, audioVars, mediaVars, CoderInv, TryConfigureActivate,
     ConfigureStep
<1>23. AacInitialized => CountInv'
  BY DEF UnwindInv, CountInv, OnStack, audioVars, mediaVars, CoderInv, AacInitialized, Make
<1>24. BindAudio => CountInv'
  BY DEF UnwindInv, CountInv, OnStack, audioVars, mediaVars, CoderInv, BindAudio, Make
<1>25. CreateEncodeThread => CountInv'
  BY DEF UnwindInv, CountInv, OnStack, audioVars, mediaVars, CoderInv, CreateEncodeThread, Make
<1>26. PrepareAudioLive => CountInv'
  BY DEF UnwindInv, CountInv, OnStack, audioVars, mediaVars, CoderInv, PrepareAudioLive, Make
<1>27. StartExports => CountInv'
  BY DEF UnwindInv, CountInv, OnStack, audioVars, mediaVars, CoderInv, StartExports, Make
<1>28. StartThread => CountInv'
  BY DEF UnwindInv, CountInv, OnStack, audioVars, mediaVars, CoderInv, StartThread, Make
<1>29. StartScreen => CountInv'
  BY DEF UnwindInv, CountInv, OnStack, audioVars, mediaVars, CoderInv, StartScreen, Make
<1>30. PipelineEnds => CountInv'
  BY DEF UnwindInv, CountInv, OnStack, audioVars, mediaVars, CoderInv, PipelineEnds
<1>31. Destroyed => CountInv'
  BY DEF UnwindInv, CountInv, OnStack, audioVars, mediaVars, CoderInv, Destroyed
<1>32. UNCHANGED setupVars => CountInv'
  BY DEF setupVars, UnwindInv, CountInv, OnStack, audioVars, mediaVars, CoderInv
<1> QED  BY <1>1, <1>2, <1>3, <1>4, <1>5, <1>6, <1>7, <1>8, <1>9, <1>10, <1>11, <1>12, <1>13,
         <1>14, <1>15, <1>16, <1>17, <1>18, <1>19, <1>20, <1>21, <1>22, <1>23, <1>24, <1>25,
         <1>26, <1>27, <1>28, <1>29, <1>30, <1>31, <1>32,
         DestructorUnwinds, CountOther DEF UnwindInv, CoderInv, SetupNext

LEMMA UnwindStep == PlanInv /\ CoderInv /\ UnwindInv /\ [SetupNext]_setupVars => UnwindInv'
BY LiveStep, UsesStep, CountStep DEF UnwindInv

LEMMA UnwindSays == CoderInv /\ UnwindInv => SetupUnwinds
<1> SUFFICES ASSUME CoderInv, UnwindInv PROVE SetupUnwinds
  OBVIOUS
<1>1. \A o \in live : Uses[o] \subseteq live
  BY UsesSaid DEF UnwindInv
<1> DEFINE kept == IF mfStarted THEN 1 ELSE 0
           held == IF stage \in OnStack THEN 1 ELSE 0
<1>2. kept \in {0, 1} /\ held \in {0, 1} /\ Len(encoders) \in Nat /\ startups = Len(encoders) + kept + held
  BY DEF CoderInv, UnwindInv, CountInv
<1>3. /\ (mfStarted => "encoder" \in live) /\ (encoders # <<>> => "aac" \in live)
      /\ ("encoder" \in live => "com" \in live) /\ ("aac" \in live => "com" \in live)
  BY DEF UnwindInv, CountInv, UsesInv
<1>4. stage \in OnStack => "com" \in live
  BY DEF UnwindInv, LiveInv, OnStack, PastCom, PastAudio, PastMonitor, PastDevice, PastRecording,
     PastEncoder,
     PastStore, PastChain, Coding
<1>5. /\ (kept # 0 => mfStarted) /\ (held # 0 => stage \in OnStack) /\ (Len(encoders) # 0 => encoders # <<>>)
  BY DEF CoderInv
<1> HIDE DEF kept, held
<1>6. startups > 0 => "com" \in live
  <2>1. startups > 0 => kept # 0 \/ held # 0 \/ Len(encoders) # 0
    BY ONLY <1>2
  <2> QED  BY ONLY <2>1, <1>3, <1>4, <1>5
<1>7. stage = "gone" => live = {} /\ startups = 0
  <2> SUFFICES ASSUME stage = "gone" PROVE live = {} /\ startups = 0
    OBVIOUS
  <2>1. live = {} /\ stage \notin OnStack
    BY DEF UnwindInv, LiveInv, OnStack
  <2>2. kept = 0 /\ held = 0 /\ Len(encoders) = 0
    BY ONLY <1>2, <1>3, <1>5, <2>1
  <2> QED  BY ONLY <1>2, <2>1, <2>2
<1> QED  BY <1>1, <1>2, <1>3, <1>6, <1>7 DEF SetupUnwinds, kept, held

LEMMA PlanAlways == SetupSpec => []PlanInv
BY PlanStart, PlanStep, PTL DEF SetupSpec

LEMMA CoderAlways == SetupSpec => []CoderInv
BY PlanAlways, CoderStart, CoderStep, PTL DEF SetupSpec

(* Wherever the set-up of a recording fails or throws, what was made by    *)
(* then is taken down so that nothing that lives uses what is gone, Media  *)
(* Foundation is up for those that started it and under COM, and in the    *)
(* end nothing is left: the members' order in the destructor, the resets   *)
(* of the encoders, the stack's unwinding, for any formats and sizes.      *)
THEOREM SetupIsTakenDown == SetupSpec => []SetupUnwinds
<1>1. SetupSpec => []UnwindInv
  BY PlanAlways, CoderAlways, UnwindStart, UnwindStep, PTL DEF SetupSpec
<1> QED  BY <1>1, CoderAlways, UnwindSays, PTL

-----------------------------------------------------------------------------
(* What was agreed on by a stage: the sizes of the picture, the tracks of  *)
(* the store, the tracks of the session.                                   *)

Sized == {"traits", "manager", "codec", "outputType", "inputType", "store"} \cup PastStore

AgreeInv ==
  /\ video \in [config : Nat, monitor : Nat, media : Nat, from : Nat, to : Nat, texture : Nat]
  /\ stage \in {"bootstrap"} \cup PastMonitor /\ options.size # Source => video.config = options.size
  /\ stage \in PastMonitor => video.config # 0 /\ video.config % 2 = 0
  /\ stage \in Sized => video.media = video.config
  /\ stage \in {"texture"} \cup PastChain => video.from = video.monitor /\ video.to = video.media
  /\ stage \in PastChain => video.texture = video.media
  /\ stage \in PastStore => storeTracks = <<VideoTrackId>> \o Ids(plan) /\ IsInjective(storeTracks)
  /\ stage \in PastSession => session = (IF HasAudio THEN BuildAudioEncodeSessionTracks ELSE <<>>)
  /\ stage \in ({"com"} \cup PastCom) \ PastSession => session = <<>>

LEMMA AgreeStart == SetupInit => AgreeInv
BY DEF SetupInit, AgreeInv, Sized, PastCom, PastAudio, PastMonitor, PastDevice, PastRecording,
   PastEncoder, PastStore, PastChain,
     PastSession, PastThread, PastAudioLive, PastStart, Coding, Configuring

Agreed == <<planVars, video, storeTracks, session, encoders>>
AgreeOn ==
  /\ UNCHANGED Agreed
  /\ stage' \in {"bootstrap"} \cup PastMonitor => stage \in {"bootstrap"} \cup PastMonitor
  /\ stage' \in PastMonitor => stage \in PastMonitor
  /\ stage' \in Sized => stage \in Sized
  /\ stage' \in {"texture"} \cup PastChain => stage \in {"texture"} \cup PastChain
  /\ stage' \in PastChain => stage \in PastChain
  /\ stage' \in PastStore => stage \in PastStore
  /\ stage' \in PastSession => stage \in PastSession
  /\ stage' \in ({"com"} \cup PastCom) \ PastSession => stage \in ({"com"} \cup PastCom) \ PastSession

LEMMA AgreeStays == AgreeInv /\ AgreeOn => AgreeInv'
<1> SUFFICES ASSUME AgreeInv, AgreeOn PROVE AgreeInv'
  OBVIOUS
<1>1. /\ HasAudio' = HasAudio /\ BuildAudioEncodeSessionTracks' = BuildAudioEncodeSessionTracks
      /\ Ids(plan)' = Ids(plan) /\ IsInjective(storeTracks)' = IsInjective(storeTracks)
  BY DEF AgreeOn, Agreed, planVars, HasAudio, BuildAudioEncodeSessionTracks, Ids, ById
<1>2. stage' \in PastStore => storeTracks' = <<VideoTrackId>> \o Ids(plan)' /\ IsInjective(storeTracks)'
  BY <1>1 DEF AgreeInv, AgreeOn, Agreed
<1>3. stage' \in PastSession => session' = (IF HasAudio' THEN BuildAudioEncodeSessionTracks' ELSE <<>>)
  BY <1>1 DEF AgreeInv, AgreeOn, Agreed
<1>4. UNCHANGED <<video, session, options>>
  BY DEF AgreeOn, Agreed, planVars
<1> QED  BY <1>2, <1>3, <1>4 DEF AgreeInv, AgreeOn

(* The steps that agree on something.                                      *)
LEMMA AgreeOther ==
  ASSUME PlanInv, CoderInv, AgreeInv,
         AudioPreflight \/ ResolveMonitor \/ BootstrapMonitor \/ ActivateEncoder \/ CreateStore
           \/ PrepareConverter \/ PrepareChain \/ AacInitialized \/ AacRejected \/ BindAudio \/ DestroyNext
  PROVE  AgreeInv'
<1> USE DEF Sized, PastCom, PastAudio, PastMonitor, PastDevice, PastRecording, PastEncoder,
         PastStore, PastChain,
     PastSession, PastThread, PastAudioLive, PastStart, Coding, Configuring
<1>1. CASE AudioPreflight
  <2>1. /\ stage = "audio" /\ stage' \in {"monitor", "unwinding"} /\ UNCHANGED <<options, video, session>>
    BY <1>1 DEF AudioPreflight, Make
  <2> QED  BY <2>1 DEF AgreeInv
<1>2. CASE ResolveMonitor
  <2>1. PICK size \in MonitorSizes :
          video' = [video EXCEPT !.config = IF options.size = Source THEN Even(size) ELSE options.size]
    BY <1>2 DEF ResolveMonitor
  <2>2. size \in Nat /\ Even(size) \in Nat
    BY SetupAssumption DEF Even
  <2>3. options.size = Source \/ options.size \in Nat
    <3>1. \A o \in SetupOptions : o.size \in CustomSizes \cup {Source}
      BY DEF SetupOptions
    <3> QED  BY <3>1, SetupAssumption DEF PlanInv
  <2>4. /\ stage = "monitor" /\ stage' = "bootstrap" /\ UNCHANGED <<options, session>>
    BY <1>2 DEF ResolveMonitor
  <2> DEFINE chosen == IF options.size = Source THEN Even(size) ELSE options.size
  <2>5. chosen \in Nat /\ (options.size # Source => chosen = options.size)
    BY <2>2, <2>3
  <2>6. video' = [video EXCEPT !.config = chosen]
    BY <2>1
  <2> HIDE DEF chosen
  <2>7. /\ video' \in [config : Nat, monitor : Nat, media : Nat, from : Nat, to : Nat, texture : Nat]
        /\ video'.config = chosen
    BY <2>5, <2>6 DEF AgreeInv
  <2> QED  BY <2>4, <2>5, <2>7 DEF AgreeInv
<1>3. CASE BootstrapMonitor
  <2>1. PICK size \in MonitorSizes : size > 0 /\ video' = [video EXCEPT !.monitor = size]
    BY <1>3 DEF BootstrapMonitor
  <2>2. size \in Nat
    BY SetupAssumption
  <2>3. /\ video.config # 0 /\ video.config % 2 = 0
        /\ stage = "bootstrap" /\ stage' = "device" /\ UNCHANGED <<options, session>>
    BY <1>3 DEF BootstrapMonitor, ValidateMfHardwareH264EncoderConfig
  <2>4. /\ video' \in [config : Nat, monitor : Nat, media : Nat, from : Nat, to : Nat, texture : Nat]
        /\ video'.config = video.config
    BY <2>1, <2>2 DEF AgreeInv
  <2> QED  BY <2>3, <2>4 DEF AgreeInv
<1>4. CASE ActivateEncoder
  <2>1. /\ stage = "activate" /\ stage' = "traits" /\ UNCHANGED <<options, session>>
        /\ video' = [video EXCEPT !.media = video.config]
    BY <1>4 DEF ActivateEncoder, BuildMfHardwareH264EncoderMediaTypePlan
  <2>2. /\ video' \in [config : Nat, monitor : Nat, media : Nat, from : Nat, to : Nat, texture : Nat]
        /\ video'.config = video.config /\ video'.media = video.config
    BY <2>1 DEF AgreeInv
  <2> QED  BY <2>1, <2>2 DEF AgreeInv
<1>5. CASE CreateStore
  <2>1. /\ stage = "store" /\ stage' = "converter" /\ UNCHANGED <<planVars, video, session>>
        /\ storeTracks' = <<VideoTrackId>> \o Ids(plan) /\ IsInjective(<<VideoTrackId>> \o Ids(plan))
    BY <1>5 DEF CreateStore, Make, planVars, audioVars
  <2>2. Ids(plan)' = Ids(plan) /\ UNCHANGED options
    BY <2>1 DEF Ids, planVars
  <2>3. storeTracks' = <<VideoTrackId>> \o Ids(plan)' /\ IsInjective(storeTracks)'
    BY <2>1, <2>2
  <2> QED  BY <2>1, <2>2, <2>3 DEF AgreeInv
<1>6. CASE PrepareConverter
  <2>1. /\ stage = "converter" /\ stage' = "texture" /\ UNCHANGED <<planVars, storeTracks, session>>
        /\ video' = [video EXCEPT !.from = video.monitor, !.to = video.media]
    BY <1>6 DEF PrepareConverter, BuildGpuBgraToNv12Plan, planVars, audioVars
  <2>2. /\ video' \in [config : Nat, monitor : Nat, media : Nat, from : Nat, to : Nat, texture : Nat]
        /\ video'.config = video.config /\ video'.media = video.media /\ video'.monitor = video.monitor
        /\ video'.from = video.monitor /\ video'.to = video.media
    BY <2>1 DEF AgreeInv
  <2>3. Ids(plan)' = Ids(plan) /\ UNCHANGED options /\ IsInjective(storeTracks)' = IsInjective(storeTracks)
    BY <2>1 DEF Ids, planVars
  <2>4. storeTracks' = <<VideoTrackId>> \o Ids(plan)' /\ IsInjective(storeTracks)'
    BY <2>1, <2>3 DEF AgreeInv
  <2> QED  BY <2>1, <2>2, <2>3, <2>4 DEF AgreeInv
<1>7. CASE PrepareChain
  <2>1. /\ stage = "texture" /\ stage' = (IF HasAudio THEN "aac" ELSE "thread")
        /\ UNCHANGED <<planVars, storeTracks, session>> /\ video' = [video EXCEPT !.texture = video.media]
    BY <1>7 DEF PrepareChain, Make, planVars, audioVars
  <2>2. /\ video' \in [config : Nat, monitor : Nat, media : Nat, from : Nat, to : Nat, texture : Nat]
        /\ video'.config = video.config /\ video'.media = video.media /\ video'.monitor = video.monitor
        /\ video'.from = video.from /\ video'.to = video.to /\ video'.texture = video.media
    BY <2>1 DEF AgreeInv
  <2>3. /\ Ids(plan)' = Ids(plan) /\ UNCHANGED options /\ IsInjective(storeTracks)' = IsInjective(storeTracks)
        /\ HasAudio' = HasAudio
    BY <2>1 DEF Ids, planVars, HasAudio
  <2>4. storeTracks' = <<VideoTrackId>> \o Ids(plan)' /\ IsInjective(storeTracks)'
    BY <2>1, <2>3 DEF AgreeInv
  <2>5. session' = <<>> /\ (stage' = "thread" => ~HasAudio') /\ stage' \in {"aac", "thread"}
    BY <2>1, <2>3 DEF AgreeInv
  <2>6. stage' \in PastSession => session' = (IF HasAudio' THEN BuildAudioEncodeSessionTracks' ELSE <<>>)
    BY <2>5
  <2>7. UNCHANGED options
    BY <2>3
  <2> QED  BY <2>1, <2>2, <2>4, <2>5, <2>6, <2>7 DEF AgreeInv
<1>8. CASE AacInitialized \/ AacRejected \/ DestroyNext
  <2>1. /\ UNCHANGED <<planVars, video, storeTracks>> /\ stage' \in {"aac", "unwinding"}
        /\ (stage' = "aac" => stage = "aacStream" /\ UNCHANGED session)
    BY <1>8 DEF AacInitialized, AacRejected, DestroyNext, Make, planVars, audioVars
  <2>2. Ids(plan)' = Ids(plan) /\ UNCHANGED options /\ IsInjective(storeTracks)' = IsInjective(storeTracks)
    BY <2>1 DEF Ids, planVars
  <2>3. stage' \in PastStore => storeTracks' = <<VideoTrackId>> \o Ids(plan)' /\ IsInjective(storeTracks)'
    BY <2>1, <2>2 DEF AgreeInv
  <2> QED  BY <2>1, <2>2, <2>3 DEF AgreeInv
<1>9. CASE BindAudio
  <2>1. /\ stage = "aac" /\ stage' = "thread" /\ session' = BuildAudioEncodeSessionTracks
        /\ UNCHANGED <<planVars, video, storeTracks, encoders>>
    BY <1>9 DEF BindAudio, Make, planVars, audioVars, mediaVars
  <2>2. /\ Ids(plan)' = Ids(plan) /\ UNCHANGED options /\ IsInjective(storeTracks)' = IsInjective(storeTracks)
        /\ BuildAudioEncodeSessionTracks' = BuildAudioEncodeSessionTracks
    BY <2>1 DEF Ids, ById, planVars, BuildAudioEncodeSessionTracks
  <2>3. storeTracks' = <<VideoTrackId>> \o Ids(plan)' /\ IsInjective(storeTracks)'
    BY <2>1, <2>2 DEF AgreeInv
  <2>4. HasAudio'
    BY <2>1, <2>2 DEF CoderInv, HasAudio
  <2> QED  BY <2>1, <2>2, <2>3, <2>4 DEF AgreeInv
<1> QED  BY <1>1, <1>2, <1>3, <1>4, <1>5, <1>6, <1>7, <1>8, <1>9

LEMMA AgreeStep == PlanInv /\ CoderInv /\ AgreeInv /\ [SetupNext]_setupVars => AgreeInv'
<1> SUFFICES ASSUME PlanInv, CoderInv, AgreeInv, [SetupNext]_setupVars PROVE AgreeInv'
  OBVIOUS
<1> USE DEF Sized, PastCom, PastAudio, PastMonitor, PastDevice, PastRecording, PastEncoder,
         PastStore, PastChain,
     PastSession, PastThread, PastAudioLive, PastStart, Coding, Configuring
<1>1. StepFails => AgreeOn
  BY DEF AgreeOn, Agreed, planVars, audioVars, mediaVars, StepFails, Preparing
<1>2. PrepareCom => AgreeOn
  BY DEF AgreeOn, Agreed, planVars, audioVars, mediaVars, PrepareCom, Make
<1>3. CreateForMonitor => AgreeOn
  BY DEF AgreeOn, Agreed, planVars, audioVars, mediaVars, CreateForMonitor, Make
<1>4. RecordingPreflight => AgreeOn
  BY DEF AgreeOn, Agreed, planVars, audioVars, mediaVars, RecordingPreflight, Make
<1>5. ProbeStarts => AgreeOn
  BY DEF AgreeOn, Agreed, planVars, audioVars, mediaVars, ProbeStarts, Make
<1>6. ProbeEnds => AgreeOn
  BY DEF AgreeOn, Agreed, planVars, audioVars, mediaVars, ProbeEnds
<1>7. EncoderStartup => AgreeOn
  BY DEF AgreeOn, Agreed, planVars, audioVars, mediaVars, EncoderStartup
<1>8. EnumerateActivates => AgreeOn
  BY DEF AgreeOn, Agreed, planVars, audioVars, mediaVars, EnumerateActivates, ConfigureStep
<1>9. QueryTransformTraits => AgreeOn
  BY DEF AgreeOn, Agreed, planVars, audioVars, mediaVars, QueryTransformTraits, ConfigureStep
<1>10. AttachDxgiDeviceManager => AgreeOn
  BY DEF AgreeOn, Agreed, planVars, audioVars, mediaVars, AttachDxgiDeviceManager, ConfigureStep
<1>11. ApplyCodecSettings => AgreeOn
  BY DEF AgreeOn, Agreed, planVars, audioVars, mediaVars, ApplyCodecSettings, ConfigureStep
<1>12. SetOutputType => AgreeOn
  BY DEF AgreeOn, Agreed, planVars, audioVars, mediaVars, SetOutputType, ConfigureStep
<1>13. SetInputType => AgreeOn
  BY DEF AgreeOn, Agreed, planVars, audioVars, mediaVars, SetInputType, ConfigureStep
<1>14. EncoderRejected => AgreeOn
  BY DEF AgreeOn, Agreed, planVars, audioVars, mediaVars, EncoderRejected
<1>15. AacStartup => AgreeOn
  BY DEF AgreeOn, Agreed, planVars, audioVars, mediaVars, AacStartup
<1>16. EnumerateAacEncoders => AgreeOn
  BY DEF AgreeOn, Agreed, planVars, audioVars, mediaVars, EnumerateAacEncoders, ConfigureStep
<1>17. TryConfigureActivate => AgreeOn
  BY DEF AgreeOn, Agreed, planVars, audioVars, mediaVars, TryConfigureActivate, ConfigureStep
<1>18. CreateEncodeThread => AgreeOn
  BY DEF AgreeOn, Agreed, planVars, audioVars, mediaVars, CreateEncodeThread, Make
<1>19. PrepareAudioLive => AgreeOn
  BY DEF AgreeOn, Agreed, planVars, audioVars, mediaVars, PrepareAudioLive, Make
<1>20. StartExports => AgreeOn
  BY DEF AgreeOn, Agreed, planVars, audioVars, mediaVars, StartExports, Make
<1>21. StartAudio => AgreeOn
  BY DEF AgreeOn, Agreed, planVars, audioVars, mediaVars, StartAudio, Make
<1>22. StartThread => AgreeOn
  BY DEF AgreeOn, Agreed, planVars, audioVars, mediaVars, StartThread, Make
<1>23. StartScreen => AgreeOn
  BY DEF AgreeOn, Agreed, planVars, audioVars, mediaVars, StartScreen, Make
<1>24. StartUndone => AgreeOn
  BY DEF AgreeOn, Agreed, planVars, audioVars, mediaVars, StartUndone
<1>25. PipelineEnds => AgreeOn
  BY DEF AgreeOn, Agreed, planVars, audioVars, mediaVars, PipelineEnds
<1>26. Destroyed => AgreeOn
  BY DEF AgreeOn, Agreed, planVars, audioVars, mediaVars, Destroyed
<1>27. UNCHANGED setupVars => AgreeOn
  BY DEF AgreeOn, Agreed, planVars, setupVars, audioVars, mediaVars
<1>28. AgreeOn => AgreeInv'
  BY AgreeStays
<1> QED  BY <1>1, <1>2, <1>3, <1>4, <1>5, <1>6, <1>7, <1>8, <1>9, <1>10, <1>11, <1>12, <1>13,
         <1>14, <1>15, <1>16, <1>17, <1>18, <1>19, <1>20, <1>21, <1>22, <1>23, <1>24, <1>25,
         <1>26, <1>27, <1>28,
         AgreeOther DEF SetupNext

(* What is agreed on makes the tracks and the sizes agree.                 *)
LEMMA AgreeSays == PlanInv /\ CoderInv /\ AgreeInv => TracksAgree
<1> SUFFICES ASSUME PlanInv, CoderInv, AgreeInv, stage \in PastStart PROVE TracksAgree
  BY DEF TracksAgree, PastStart
<1> USE DEF PastCom, PastAudio, PastMonitor, PastDevice, PastRecording, PastEncoder, PastStore,
         PastChain,
     PastSession, PastThread, PastAudioLive, PastStart, Coding, Configuring
<1>1. /\ stage \in PastSession /\ stage \in PastChain /\ stage \in PastStore /\ stage \in Sized
      /\ stage \in PastMonitor /\ stage \in PastAudio
  BY DEF Sized
<1> HIDE DEF PastCom, PastAudio, PastMonitor, PastDevice, PastRecording, PastEncoder, PastStore,
         PastChain,
     PastSession, PastThread, PastAudioLive, PastStart, Coding, Configuring
<1>2. /\ DOMAIN plan = 1..Len(plan) /\ Len(plan) \in Nat
      /\ \A i, j \in 1..Len(plan) : plan[i].id = plan[j].id => i = j
  BY TracksAre
<1>3. HasAudio => plan # <<>>
  BY <1>1 DEF PlanInv
<1>4. ~HasAudio => plan = <<>> /\ Len(plan) = 0 /\ session = <<>>
  BY <1>1 DEF PlanInv, AgreeInv
<1>5. HasAudio => /\ DOMAIN session = 1..Len(plan)
                  /\ \A i \in 1..Len(plan) :
                       session[i] = [id |-> plan[i].id, input |-> ById(tracks, plan[i].id).captured,
                                     rate |-> ById(tracks, plan[i].id).prepared.rate,
                                     encoder |-> ById(encoders, plan[i].id).format]
  BY <1>1, <1>2 DEF AgreeInv, BuildAudioEncodeSessionTracks
<1>6. Ids(session) = Ids(plan)
  <2>1. CASE HasAudio
    BY <1>2, <1>5, <2>1 DEF Ids
  <2>2. CASE ~HasAudio
    BY <1>4, <2>2
  <2> QED  BY <2>1, <2>2
<1>7. IsInjective(storeTracks) /\ storeTracks = <<VideoTrackId>> \o Ids(session)
  BY <1>1, <1>6 DEF AgreeInv
<1>8. /\ DOMAIN Routes = 1..Len(plan)
      /\ \A i \in 1..Len(plan) : Routes[i] = [source |-> plan[i].source, id |-> plan[i].id]
  BY <1>2 DEF Routes
<1>9. ToSet(Routes) = {[source |-> plan[i].source, id |-> plan[i].id] : i \in 1..Len(plan)}
  BY <1>8 DEF ToSet
<1>10. options.required \subseteq {r.source : r \in ToSet(Routes)}
  <2> SUFFICES ASSUME NEW s \in options.required PROVE s \in {r.source : r \in ToSet(Routes)}
    OBVIOUS
  <2>1. HasAudio
    <3>1. \A o \in SetupOptions : o.required \subseteq o.audio
      BY DEF SetupOptions
    <3> QED  BY <3>1 DEF PlanInv, HasAudio
  <2>2. PICK i \in 1..Len(plan) : plan[i].source = s
    BY <1>3, <2>1 DEF PlanInv
  <2>3. [source |-> plan[i].source, id |-> plan[i].id] \in ToSet(Routes)
    BY <1>9
  <2>4. [source |-> plan[i].source, id |-> plan[i].id].source = s
    BY <2>2
  <2> QED  BY <2>3, <2>4
<1>11. ASSUME NEW i \in 1..Len(plan)
       PROVE  LET t == ById(session, plan[i].id)
                  f == answered[plan[i].source]
                  said == [id |-> plan[i].id, source |-> plan[i].source, format |-> t.encoder]
              IN /\ t.input = f /\ t.encoder = Prepared(f) /\ t.rate = t.encoder.rate
                 /\ said \in ToSet(BuildAudioRecordingMetadata) /\ AudioIsReady(said)
  <2> DEFINE t == ById(session, plan[i].id)
             f == answered[plan[i].source]
             said == [id |-> plan[i].id, source |-> plan[i].source, format |-> t.encoder]
  <2>1. HasAudio /\ plan # <<>>
    BY <1>2, <1>3, <1>4
  <2>2. /\ tracks[i].captured = f /\ tracks[i].prepared = Prepared(f)
        /\ ById(tracks, plan[i].id) = tracks[i] /\ Prepared(f) \in Prepareds
    BY TracksAre
  <2>3. /\ DOMAIN encoders = 1..Len(plan)
        /\ \A j \in 1..Len(plan) : /\ encoders[j].id = plan[j].id /\ encoders[j].format = tracks[j].prepared
                                   /\ AacOutputIsReady(encoders[j].format)
    BY <1>1 DEF CoderInv
  <2>4. ById(encoders, plan[i].id) = encoders[i]
    <3>1. \A j, k \in 1..Len(plan) : encoders[j].id = encoders[k].id => j = k
      BY <1>2, <2>3
    <3>2. ById(encoders, encoders[i].id) = encoders[i]
      BY ONLY <1>2, <2>3, <3>1, ByIdFinds
    <3> QED  BY <2>3, <3>2
  <2>5. DOMAIN session = 1..Len(plan) /\ \A j \in 1..Len(plan) : session[j].id = plan[j].id
    BY <1>5, <2>1
  <2>6. t = session[i]
    <3>1. \A j, k \in 1..Len(plan) : session[j].id = session[k].id => j = k
      BY <1>2, <2>5
    <3>2. ById(session, session[i].id) = session[i]
      BY ONLY <1>2, <2>5, <3>1, ByIdFinds
    <3> QED  BY <2>5, <3>2
  <2>7. t = [id |-> plan[i].id, input |-> f, rate |-> Prepared(f).rate, encoder |-> Prepared(f)]
    BY <1>5, <2>1, <2>2, <2>3, <2>4, <2>6
  <2>8. t.input = f /\ t.encoder = Prepared(f) /\ t.rate = t.encoder.rate
    BY ONLY <2>7
  <2>9. said \in ToSet(BuildAudioRecordingMetadata)
    <3>1. /\ DOMAIN BuildAudioRecordingMetadata = 1..Len(plan)
          /\ BuildAudioRecordingMetadata[i] = [id |-> plan[i].id, source |-> plan[i].source,
                                               format |-> ById(encoders, plan[i].id).format]
      BY <1>2 DEF BuildAudioRecordingMetadata
    <3>2. ById(encoders, plan[i].id).format = t.encoder
      BY <2>2, <2>3, <2>4, <2>8
    <3>3. BuildAudioRecordingMetadata[i] = said
      BY <3>1, <3>2
    <3> QED  BY <3>1, <3>3 DEF ToSet
  <2>10. AudioIsReady(said)
    <3>1. AacOutputIsReady(t.encoder)
      BY <2>2, <2>3, <2>8
    <3>2. plan[i].id # 0
      <4>1. options.first \in Nat \ {0} /\ plan[i].id = options.first + i - 1 /\ i \in Nat /\ i >= 1
        BY <1>2, <2>1 DEF PlanInv
      <4> QED  BY ONLY <4>1
    <3>3. said.id = plan[i].id /\ said.format = t.encoder
      OBVIOUS
    <3> QED  BY <3>1, <3>2, <3>3 DEF AudioIsReady, AacOutputIsReady
  <2> QED  BY <2>8, <2>9, <2>10
<1>12. \A r \in ToSet(Routes) :
         LET t == ById(session, r.id)
             f == answered[r.source]
             said == [id |-> r.id, source |-> r.source, format |-> t.encoder]
         IN /\ t.input = f /\ t.encoder = Prepared(f) /\ t.rate = t.encoder.rate
            /\ said \in ToSet(BuildAudioRecordingMetadata) /\ AudioIsReady(said)
  <2> TAKE r \in ToSet(Routes)
  <2>1. PICK i \in 1..Len(plan) : r = [source |-> plan[i].source, id |-> plan[i].id]
    BY <1>9
  <2>2. r.source = plan[i].source /\ r.id = plan[i].id
    BY <2>1
  <2> QED  BY <1>11, <2>2
<1>13. LET said == BuildVideoRecordingMetadata
       IN /\ {said.requested, said.media, said.output} = {video.texture}
          /\ said.source = video.monitor
          /\ video.texture % 2 = 0 /\ VideoIsReady(said)
          /\ options.size # Source => video.texture = options.size
  <2>1. /\ video.texture = video.media /\ video.media = video.config /\ video.to = video.media
        /\ video.from = video.monitor /\ video.config % 2 = 0 /\ video.config # 0 /\ video.config \in Nat
        /\ options.size # Source => video.config = options.size
    BY <1>1 DEF AgreeInv
  <2>2. /\ BuildVideoRecordingMetadata.requested = video.config
        /\ BuildVideoRecordingMetadata.media = video.media
        /\ BuildVideoRecordingMetadata.source = video.from
        /\ BuildVideoRecordingMetadata.output = video.to
    BY DEF BuildVideoRecordingMetadata
  <2>3. VideoIsReady(BuildVideoRecordingMetadata)
    BY <2>1, <2>2 DEF VideoIsReady
  <2> QED  BY <2>1, <2>2, <2>3
<1> QED  BY <1>7, <1>10, <1>12, <1>13 DEF TracksAgree

(* In every recording that is prepared the formats, the ids and the sizes  *)
(* that preflight, store, encoders, session, routes and manifest each look *)
(* up in lists of their own belong together, for any answers of the        *)
(* endpoints, any first track and any monitor, however it changes.         *)
THEOREM TracksBelongTogether == SetupSpec => []TracksAgree
<1>1. SetupSpec => []AgreeInv
  BY PlanAlways, CoderAlways, AgreeStart, AgreeStep, PTL DEF SetupSpec
<1> QED  BY <1>1, PlanAlways, CoderAlways, AgreeSays, PTL

=============================================================================
