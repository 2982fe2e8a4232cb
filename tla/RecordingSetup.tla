--------------------------- MODULE RecordingSetup ---------------------------
(***************************************************************************)
(* How a recording is set up and taken down: Prepare, StartCapture and the *)
(* destructor of the recorder's backend (src/record/VideoRecorderPipeline) *)
(* with the bootstrap of the video (VideoRecordingBootstrap, -RunSession,  *)
(* -Setup, the hardware encoder and its probe), the preflight and the AAC  *)
(* encoders of the audio (AudioCaptureEncodeSetup, AudioTrackPlan,         *)
(* AudioEncodeSessionBinding), and the tracks and the size of the picture  *)
(* that all of them have to agree on.                                      *)
(*                                                                         *)
(* Any step may fail, or throw; whatever was made by then is left to the   *)
(* destructor.  Between StartCapture and the destructor are the stages of  *)
(* Recorder, which stop what runs; the destructor copes with what is left, *)
(* here with everything.  A size is one number for width and height; it is *)
(* the monitor's when the monitor is enumerated, which happens twice.      *)
(***************************************************************************)
EXTENDS Integers, Sequences, SequencesExt

CONSTANTS
  Formats,       \* PCM formats an endpoint may answer with
  OutputRates,   \* output_sample_rate of the options; 0: that of the source
  FirstTracks,   \* first_track_id; the recorder takes 2
  MonitorSizes,  \* what a monitor may be
  CustomSizes,   \* custom_width, custom_height of the settings: even
  MaxTrackId     \* bound: the largest uint32_t

Unavailable == [encoding |-> "none", rate |-> 0, channels |-> 0]
VideoTrackId == 1

\* In the order their tracks are planned.
Sources == <<"system", "microphone">>

ASSUME SetupAssumption ==
  /\ \A f \in Formats : f.rate \in Nat /\ f.channels \in Nat
  /\ OutputRates \cup FirstTracks \subseteq 0..MaxTrackId \cup {0, 44100, 48000}
  /\ MaxTrackId \in Nat \ {0}
  /\ MonitorSizes \subseteq Nat
  /\ \A size \in CustomSizes : size \in Nat \ {0} /\ size % 2 = 0

VARIABLES
  options,     \* sources recorded and required, first track, output rate, size
  stage,       \* where Prepare, StartCapture or the destructor is
  live,        \* objects that exist and threads that run
  answered,    \* what each source answered
  plan,        \* AudioTrackPlan: track ids with their sources
  tracks,      \* AudioCaptureEncodePreflight: the formats of each track
  video,       \* sizes: of the encoder_config, of the bootstrap's monitor, of
               \* the encoder's media type, of the converter's plan, of the texture
  storeTracks, \* ids the packet store was created with
  encoders,    \* the AAC encoders, with the format each was initialized for
  session,     \* tracks of the AudioEncodeSession
  mfStarted,   \* mf_started_ of the hardware encoder
  startups     \* calls of MFStartup that no MFShutdown has balanced

audioVars == <<answered, plan, tracks>>
mediaVars == <<encoders, mfStarted, startups>>
setupVars == <<options, stage, live, audioVars, video, storeTracks, session, mediaVars>>

HasAudio == options.audio # {}

\* use_source_output_dimensions
Source == 0

SetupOptions ==
  {o \in [audio : SUBSET ToSet(Sources), required : SUBSET ToSet(Sources),
          first : FirstTracks, rate : OutputRates, size : CustomSizes \cup {Source}] :
     o.required \subseteq o.audio}

SetupInit ==
  /\ options \in SetupOptions
  /\ stage = "com" /\ live = {}
  /\ answered = <<>> /\ plan = <<>> /\ tracks = <<>>
  /\ video = [config |-> 0, monitor |-> 0, media |-> 0, from |-> 0, to |-> 0, texture |-> 0]
  /\ storeTracks = <<>> /\ session = <<>>
  /\ encoders = <<>> /\ mfStarted = FALSE /\ startups = 0

Make(object, next) ==
  live' = live \cup {object} /\ stage' = next

-----------------------------------------------------------------------------
(* The tracks.                                                             *)

ById(list, id) == list[CHOOSE i \in DOMAIN list : list[i].id = id]
Ids(list) == [i \in DOMAIN list |-> list[i].id]

OutputRate(f) == IF options.rate = 0 THEN f.rate ELSE options.rate

\* A source is included when it is there, in a format
\* that can be prepared for AAC, at a rate AAC is written in.
Included(f) ==
  f.encoding \in {"float32", "int16"} /\ OutputRate(f) \in {44100, 48000}

\* QuerySourceFormats, in the order of the sources.
IncludedSources(answers) ==
  LET included(s) == IF s \in options.audio /\ Included(answers[s]) THEN <<s>> ELSE <<>>
  IN included("system") \o included("microphone")

BuildAudioTrackPlan(sources) ==
  [i \in DOMAIN sources |-> [id |-> options.first + i - 1, source |-> sources[i]]]
ValidatePreflightOptions == options.first # 0 /\ options.audio # {}
PlanFits(sources) ==
  sources # <<>> /\ options.first + Len(sources) - 1 <= MaxTrackId

Prepared(f) == [encoding |-> "int16", rate |-> OutputRate(f), channels |-> f.channels]

\* Mutant: a track has the format of the source that was requested as it was.
TracksByPosition(p, formats) ==
  LET requested == SelectSeq(Sources, LAMBDA s : s \in options.audio)
  IN [i \in DOMAIN p |-> [id |-> p[i].id, captured |-> formats[requested[i]],
                          prepared |-> Prepared(formats[requested[i]])]]

BuildPreflightTracks(p, formats) ==
  [i \in DOMAIN p |-> [id |-> p[i].id, captured |-> formats[p[i].source],
                       prepared |-> Prepared(formats[p[i].source])]]

\* BuildAudioEncodeSessionTracks: the format slot and the encoder slot of
\* each planned track; there is one of each, and none beside.
Bindable == IsInjective(Ids(plan)) /\ Ids(tracks) = Ids(plan) /\ Ids(encoders) = Ids(plan)
BuildAudioEncodeSessionTracks ==
  [i \in DOMAIN plan |->
     LET id == plan[i].id
     IN [id |-> id, input |-> ById(tracks, id).captured,
         rate |-> ById(tracks, id).prepared.rate, encoder |-> ById(encoders, id).format]]

\* What a packet of a source is handed to (AudioSourceRouter), and what the
\* manifest says of a track (BuildAudioRecordingMetadata).
Routes == [i \in DOMAIN plan |-> [source |-> plan[i].source, id |-> plan[i].id]]
BuildAudioRecordingMetadata ==
  [i \in DOMAIN plan |-> [id |-> plan[i].id, source |-> plan[i].source,
                          format |-> ById(encoders, plan[i].id).format]]
BuildVideoRecordingMetadata ==
  [requested |-> video.config, media |-> video.media, source |-> video.from, output |-> video.to]

\* The muxer's conditions for the streams it makes of the manifest.
VideoIsReady(v) == v.media > 0
AudioIsReady(a) == a.id # 0 /\ a.format.rate \in {44100, 48000} /\ a.format.channels \in {1, 2, 6}

-----------------------------------------------------------------------------
(* Prepare.                                                                *)

Configuring == {"enumerate", "activate", "traits", "manager", "outputType", "inputType"}
Preparing ==
  {"com", "audio", "monitor", "bootstrap", "device", "recording", "probe", "probing", "startup",
   "codec", "store", "converter", "texture", "aac", "aacTransform", "aacActivate", "aacStream",
   "thread", "audioLive", "exports", "prepared", "startThread", "startCapture"} \cup Configuring
OnStack == {"probing", "aacTransform", "aacActivate", "aacStream"}

\* A step fails, or throws, before it has made anything of its own; what it
\* holds on its stack is unwound: a probe's Media Foundation session, an AAC
\* encoder not handed over yet.
StepFails ==
  /\ stage \in Preparing
  /\ stage' = "unwinding"
  /\ startups' = startups - (IF stage \in OnStack THEN 1 ELSE 0)
  /\ UNCHANGED <<options, live, audioVars, video, storeTracks, session, encoders, mfStarted>>

PrepareCom ==
  /\ stage = "com"
  /\ Make("com", IF HasAudio THEN "audio" ELSE "monitor")
  /\ UNCHANGED <<options, audioVars, video, storeTracks, session, mediaVars>>

AudioPreflight ==
  /\ stage = "audio"
  /\ \E answers \in [options.audio -> Formats \cup {Unavailable}] :
       LET included == IncludedSources(answers)
           usable == /\ ValidatePreflightOptions
                     /\ \A s \in options.required : Included(answers[s])
                     /\ PlanFits(included)
           p == BuildAudioTrackPlan(included)
       IN /\ Make("audio", IF usable THEN "monitor" ELSE "unwinding")
          /\ answered' = answers
          /\ plan' = (IF usable THEN p ELSE <<>>)
          /\ tracks' = (IF usable THEN BuildPreflightTracks(p, answers) ELSE <<>>)
  /\ UNCHANGED <<options, video, storeTracks, session, mediaVars>>

\* The recorder asks for the monitor to choose the size of the recording,
\* the bootstrap again for the size of the source: in between the monitor
\* may have changed its mode.
Even(size) == size - (size % 2)

ResolveMonitor ==
  /\ stage = "monitor" /\ stage' = "bootstrap"
  /\ \E size \in MonitorSizes :
       /\ size >= 2
       /\ video' = [video EXCEPT !.config = IF options.size = Source THEN Even(size)
                                           ELSE options.size]
  /\ UNCHANGED <<options, live, audioVars, storeTracks, session, mediaVars>>

ValidateMfHardwareH264EncoderConfig == video.config # 0 /\ video.config % 2 = 0

BootstrapMonitor ==
  /\ stage = "bootstrap" /\ stage' = "device" /\ ValidateMfHardwareH264EncoderConfig
  /\ \E size \in MonitorSizes : size > 0 /\ video' = [video EXCEPT !.monitor = size]
  /\ UNCHANGED <<options, live, audioVars, storeTracks, session, mediaVars>>

CreateForMonitor ==
  /\ stage = "device" /\ Make("device", "recording")
  /\ UNCHANGED <<options, audioVars, video, storeTracks, session, mediaVars>>

\* The preflight hands the monitor's size to the chain as its source.
ValidVideoPreflight == video.monitor # 0

RecordingPreflight ==
  /\ stage = "recording" /\ Make("recording", "probe")
  /\ ValidVideoPreflight /\ ValidateMfHardwareH264EncoderConfig
  /\ UNCHANGED <<options, audioVars, video, storeTracks, session, mediaVars>>

BuildMfHardwareH264EncoderMediaTypePlan == video.config

\* The encoder enumerates the hardware under a Media Foundation session of
\* its own before it starts the one it keeps.
ProbeStarts ==
  /\ stage = "probe" /\ ValidateMfHardwareH264EncoderConfig
  /\ Make("encoder", "probing") /\ startups' = startups + 1
  /\ UNCHANGED <<options, audioVars, video, storeTracks, session, encoders, mfStarted>>

ProbeEnds ==
  /\ stage = "probing"
  /\ stage' \in {"startup", "unwinding"}
  /\ startups' = startups - 1
  /\ UNCHANGED <<options, live, audioVars, video, storeTracks, session, encoders, mfStarted>>

EncoderStartup ==
  /\ stage = "startup" /\ stage' = "enumerate"
  /\ mfStarted' = TRUE /\ startups' = startups + 1
  /\ UNCHANGED <<options, live, audioVars, video, storeTracks, session, encoders>>

ConfigureStep(from, to) ==
  /\ stage = from /\ stage' = to
  /\ UNCHANGED <<options, live, audioVars, video, storeTracks, session, mediaVars>>
EnumerateActivates == ConfigureStep("enumerate", "activate")

ActivateEncoder ==
  /\ stage = "activate" /\ stage' = "traits"
  /\ video' = [video EXCEPT !.media = BuildMfHardwareH264EncoderMediaTypePlan]
  /\ UNCHANGED <<options, live, audioVars, storeTracks, session, mediaVars>>

QueryTransformTraits == ConfigureStep("traits", "manager")
AttachDxgiDeviceManager == ConfigureStep("manager", "codec")
\* A setting that is not supported or is rejected is noted and passed over.
ApplyCodecSettings == ConfigureStep("codec", "outputType")
SetOutputType == ConfigureStep("outputType", "inputType")
SetInputType == ConfigureStep("inputType", "store")

\* A step of the configuration is refused: Reset.
EncoderRejected ==
  /\ stage \in Configuring /\ stage' = "unwinding"
  /\ mfStarted' = FALSE /\ startups' = startups - 1
  /\ UNCHANGED <<options, live, audioVars, video, storeTracks, session, encoders>>

\* The store refuses an id that comes twice.
CreateStore ==
  LET ids == <<VideoTrackId>> \o Ids(plan)
  IN /\ stage = "store" /\ IsInjective(ids)
     /\ Make("store", "converter") /\ storeTracks' = ids
     /\ UNCHANGED <<options, audioVars, video, session, mediaVars>>

\* Until it is prepared the chain, with its converter and its NV12 texture,
\* is a local of the set-up.
BuildGpuBgraToNv12Plan == [from |-> video.monitor, to |-> video.media]

PrepareConverter ==
  LET conversion == BuildGpuBgraToNv12Plan
  IN /\ stage = "converter" /\ stage' = "texture"
     /\ conversion.from # 0 /\ conversion.to # 0 /\ conversion.to % 2 = 0
     /\ video' = [video EXCEPT !.from = conversion.from, !.to = conversion.to]
     /\ UNCHANGED <<options, live, audioVars, storeTracks, session, mediaVars>>

PrepareChain ==
  /\ stage = "texture" /\ Make("chain", IF HasAudio THEN "aac" ELSE "thread")
  /\ video' = [video EXCEPT !.texture = video.media]
  /\ UNCHANGED <<options, audioVars, storeTracks, session, mediaVars>>

NextTrack == plan[Len(encoders) + 1].id
NextFormat == ById(tracks, NextTrack).prepared

ValidateAacEncoderConfig == NextFormat.encoding = "int16" /\ NextFormat.rate # 0

AacStartup ==
  /\ stage = "aac" /\ Len(encoders) < Len(plan) /\ ValidateAacEncoderConfig
  /\ stage' = "aacTransform" /\ startups' = startups + 1
  /\ UNCHANGED <<options, live, audioVars, video, storeTracks, session, encoders, mfStarted>>

EnumerateAacEncoders == ConfigureStep("aacTransform", "aacActivate")

\* The transform answers with the media type it was given; one that is
\* refused leaves nothing behind, and the next is tried.
AacOutputIsReady(f) == f.rate \in {44100, 48000} /\ f.channels \in {1, 2, 6}
TryConfigureActivate ==
  ConfigureStep("aacActivate", "aacStream") /\ AacOutputIsReady(NextFormat)

AacInitialized ==
  /\ stage = "aacStream" /\ Make("aac", "aac")
  /\ encoders' = Append(encoders, [id |-> NextTrack, format |-> NextFormat])
  /\ UNCHANGED <<options, audioVars, video, storeTracks, session, mfStarted, startups>>

\* No transform takes the format, it does not start, or the tracks do not
\* bind: the encoder resets itself, the setup those it has.
AacRejected ==
  /\ stage \in {"aac", "aacTransform", "aacActivate", "aacStream"} /\ stage' = "unwinding"
  /\ encoders' = <<>> /\ live' = live \ {"aac"}
  /\ startups' = startups - Len(encoders) - (IF stage \in OnStack THEN 1 ELSE 0)
  /\ UNCHANGED <<options, audioVars, video, storeTracks, session, mfStarted>>

BindAudio ==
  /\ stage = "aac" /\ Len(encoders) = Len(plan) /\ Bindable
  /\ Make("session", "thread") /\ session' = BuildAudioEncodeSessionTracks
  /\ UNCHANGED <<options, audioVars, video, storeTracks, mediaVars>>

CreateEncodeThread ==
  /\ stage = "thread" /\ Make("thread", IF HasAudio THEN "audioLive" ELSE "exports")
  /\ UNCHANGED <<options, audioVars, video, storeTracks, session, mediaVars>>

\* Each route has to find its track in the session.
PrepareAudioLive ==
  /\ stage = "audioLive" /\ ToSet(Ids(Routes)) \subseteq ToSet(Ids(session))
  /\ Make("audioLive", "exports")
  /\ UNCHANGED <<options, audioVars, video, storeTracks, session, mediaVars>>

StartExports ==
  /\ stage = "exports" /\ Make("exports", "prepared")
  /\ UNCHANGED <<options, audioVars, video, storeTracks, session, mediaVars>>

-----------------------------------------------------------------------------
(* StartCapture: audio, the encode thread, the screen; what has started is *)
(* stopped again when the next one does not.                               *)

StartAudio ==
  /\ stage = "prepared"
  /\ IF HasAudio THEN Make("sources", "startThread") ELSE stage' = "startThread" /\ UNCHANGED live
  /\ UNCHANGED <<options, audioVars, video, storeTracks, session, mediaVars>>

StartThread ==
  /\ stage = "startThread" /\ Make("encoding", "startCapture")
  /\ UNCHANGED <<options, audioVars, video, storeTracks, session, mediaVars>>

StartScreen ==
  /\ stage = "startCapture" /\ Make("capturing", "capturing")
  /\ UNCHANGED <<options, audioVars, video, storeTracks, session, mediaVars>>

StartUndone ==
  /\ stage \in {"startThread", "startCapture"} /\ stage' = "unwinding"
  /\ live' = live \ {"encoding", "sources"}
  /\ UNCHANGED <<options, audioVars, video, storeTracks, session, mediaVars>>

PipelineEnds ==
  /\ stage = "capturing" /\ stage' = "unwinding"
  /\ UNCHANGED <<options, live, audioVars, video, storeTracks, session, mediaVars>>

-----------------------------------------------------------------------------
(* The destructor, in its order: StopCapture, StopAndDrain, the audio,     *)
(* DrainClipExports, ClosePacketStore, the encode thread; the audio        *)
(* session (its members backwards); bootstrap_.Reset(); CoUninitialize.    *)

\* Mutant: the bootstrap is reset before the audio session is.
BootstrapFirst ==
  <<"capturing", "sources", "encoding", "audioLive", "exports", "thread",
    "chain", "recording", "store", "encoder", "device", "session", "aac", "audio", "com">>

Teardown ==
  <<"capturing", "sources", "encoding", "audioLive", "exports", "thread",
    "session", "aac", "audio", "chain", "recording", "store", "encoder", "device", "com">>

\* The first one left.
DestroyNext ==
  \E i \in DOMAIN Teardown :
    LET object == Teardown[i]
    IN /\ stage = "unwinding" /\ object \in live
       /\ \A j \in 1..(i - 1) : Teardown[j] \notin live
       /\ live' = live \ {object}
       /\ encoders' = (IF object = "aac" THEN <<>> ELSE encoders)
       /\ session' = (IF object = "session" THEN <<>> ELSE session)
       /\ mfStarted' = (mfStarted /\ object # "encoder")
       /\ startups' = startups - (IF object = "aac" THEN Len(encoders) ELSE 0)
                               - (IF object = "encoder" /\ mfStarted THEN 1 ELSE 0)
       /\ UNCHANGED <<options, stage, audioVars, video, storeTracks>>

Destroyed ==
  /\ stage = "unwinding" /\ ToSet(Teardown) \cap live = {}
  /\ stage' = "gone"
  /\ UNCHANGED <<options, live, audioVars, video, storeTracks, session, mediaVars>>

SetupNext ==
  \/ StepFails \/ PrepareCom \/ AudioPreflight \/ ResolveMonitor \/ BootstrapMonitor
  \/ CreateForMonitor \/ RecordingPreflight \/ ProbeStarts \/ ProbeEnds \/ EncoderStartup
  \/ EnumerateActivates \/ ActivateEncoder \/ QueryTransformTraits \/ AttachDxgiDeviceManager
  \/ ApplyCodecSettings \/ SetOutputType \/ SetInputType \/ EncoderRejected
  \/ CreateStore \/ PrepareConverter \/ PrepareChain
  \/ AacStartup \/ EnumerateAacEncoders \/ TryConfigureActivate \/ AacInitialized \/ AacRejected
  \/ BindAudio
  \/ CreateEncodeThread \/ PrepareAudioLive \/ StartExports
  \/ StartAudio \/ StartThread \/ StartScreen \/ StartUndone \/ PipelineEnds
  \/ DestroyNext \/ Destroyed

SetupSpec == SetupInit /\ [][SetupNext]_setupVars

-----------------------------------------------------------------------------
(***************************************************************************)
(* Properties.                                                             *)
(***************************************************************************)
\* Whose pointers, devices or threads an object uses as long as it lives.
Uses ==
  [com |-> {}, audio |-> {}, device |-> {}, recording |-> {},
   encoder |-> {"device", "com"}, store |-> {},
   chain |-> {"encoder", "device", "store", "recording"},
   aac |-> {"com", "audio"}, session |-> {"aac", "store", "audio"},
   thread |-> {"chain"}, audioLive |-> {"session"}, exports |-> {"store"},
   sources |-> {"audioLive"}, encoding |-> {"thread", "chain"},
   capturing |-> {"thread", "device"}]

\* Wherever the set-up fails or throws, and in whatever order what was made
\* by then is taken down: nothing that lives uses what is gone, Media
\* Foundation is up for exactly those that started it and only under COM,
\* and in the end nothing is left.
SetupUnwinds ==
  /\ \A o \in live : Uses[o] \subseteq live
  /\ startups = Len(encoders) + (IF mfStarted THEN 1 ELSE 0)
                + (IF stage \in OnStack THEN 1 ELSE 0)
  /\ startups > 0 => "com" \in live
  /\ mfStarted => "encoder" \in live
  /\ encoders # <<>> => "aac" \in live
  /\ stage = "gone" => live = {} /\ startups = 0

\* A recording that is prepared has, for every source it requires, a track
\* in which the format the source answered with, the format its encoder was
\* initialized for, the id the store knows and what the manifest will say
\* belong together, although each is looked up in a list of its own and
\* sources may be left out; video is the first track and no id comes twice.
\* The pictures have the size the settings ask for on every way from the
\* converter over the texture and the encoder to the manifest, even and no
\* matter that the monitor's mode changed meanwhile, and what the manifest
\* will say the muxer accepts.
TracksAgree ==
  stage \in {"prepared", "startThread", "startCapture", "capturing"} =>
    /\ IsInjective(storeTracks) /\ storeTracks = <<VideoTrackId>> \o Ids(session)
    /\ options.required \subseteq {r.source : r \in ToSet(Routes)}
    /\ \A r \in ToSet(Routes) :
         LET t == ById(session, r.id)
             f == answered[r.source]
             said == [id |-> r.id, source |-> r.source, format |-> t.encoder]
         IN /\ t.input = f /\ t.encoder = Prepared(f) /\ t.rate = t.encoder.rate
            /\ said \in ToSet(BuildAudioRecordingMetadata) /\ AudioIsReady(said)
    /\ LET said == BuildVideoRecordingMetadata
       IN /\ {said.requested, said.media, said.output} = {video.texture}
          /\ said.source = video.monitor
          /\ video.texture % 2 = 0 /\ VideoIsReady(said)
          /\ options.size # Source => video.texture = options.size
=============================================================================
