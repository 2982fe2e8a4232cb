# A TLA+ verification of O'Louie

O'Louie is a Windows tray application that records a monitor and its audio,
saves clips and bookmarks of a running recording, and writes MP4 files. These
modules model what is hard in it: threads that share queues, devices that fail,
files that are half written, stops and shutdowns at any moment, and a process
that may die.

All source paths below are relative to the repository; `src/` inside it is the
C++ code, `docs/` its documentation.

## 1. Inventory

| Component | State it keeps | Operations | Talks to |
|---|---|---|---|
| Live packet store (`src/record/PacketStore.cpp`) | a bounded FIFO of packets and barriers, an index, `packets.dat`, latched write fault, acceptance and closing flags | `AppendPacket`, `SnapshotForExport` (flush barrier), `Close`, writer thread `Run` | called by the encode thread, the recorder worker, and through plans by the export worker |
| Recorder session (`VideoRecorderSession.cpp`) | session state, generation, stop and shutdown flags, worker thread, last clip event | `Start`, `StopAndSave`, `SaveLastClip`, `AddBookmarkAndSave`, `Shutdown`, `PublishState` | message thread above, pipeline worker below |
| Recorder pipeline (`VideoRecorderPipeline.cpp`) | stage flags, pending failure, latched faults, the devices, queues and store of one recording | prepare, start capture, tick, clip requests, stop, drains, manifest, close, recover, plan, MP4, cleanup | everything below |
| Recording set-up (`VideoRecorderPipeline::Prepare`, `src/encode/VideoRecording*.cpp`, `AudioCaptureEncodeSetup.cpp`) | the objects of one recording, tracks, picture sizes, Media Foundation's reference count | preflight, bootstrap, probe, initialization of encoders, binding, teardown | pipeline, devices |
| Clip exports (`VideoRecorderClip.cpp`, `ClipExportQueue.cpp`) | command queue, job queue, export worker | enqueue, pop, take, write, publish, shutdown | session, pipeline |
| Screen capture (`src/capture`) | running flag, callbacks under way, latched fault, texture pool, cadence | `Start`, `FrameArrived`, `CaptureItemClosed`, `Snapshot`, `Stop` | Windows.Graphics.Capture, encode thread |
| Video encoding (`src/encode/VideoEncodeThread.cpp`, `VideoRecordingSession.cpp`, `MfHardwareH264EncoderSession.cpp`) | frame queue, thread state, one NV12 texture, samples the transform holds, first failure | frames in, packets out, drains, `StopAndDrain`, `Fail` | capture callbacks, Media Foundation, packet store |
| Audio capture (`src/audio`) | capture threads, endpoints, continuity of each track, PCM queues, AAC encoders | start, tick, stop, drain, flush | WASAPI, pipeline, store |
| Manifest, MP4 publication, recovery (`SessionManifest.cpp`, `Mp4Muxer.cpp`, `DiskWriteFault.cpp`, `RecordingRecovery.cpp`) | session directories with packets, manifest, MP4 and their temporary files; a recovery worker | write temp, publish, scan, export, discard | pipeline, application host |
| Export plans and samples (`PacketStore.cpp`, `VideoExportPlan.cpp`, `MuxPlan.cpp`, `Mp4Muxer.cpp`) | none | select packets, plan, convert NAL units, check | pipeline, clips, recovery |
| Microphone check (`MicMonitorSession.cpp`) | session, worker, PCM ring | start, stop, shutdown, push, pop | application host |
| Application host (`src/app/AppHost.cpp`), hotkeys | current settings, pending reconfiguration, pending start, registered hotkeys | commands, settings transaction, state messages, shutdown | all of the above |
| Settings file and runtime root (`SettingsStore.cpp`, `RuntimePathMigration.cpp`, start-up of `AppHost.cpp`) | `settings.json`, its temporary, the old and the new data root, the single-instance mutexes, the output directory in use | migrate, load, rebase, save by replacement, create the output directory | application host, recordings |
| UI, diagnostics, performance counters, tools | - | drawing, formatting, counting | - |

The hard behaviours are in `PROJECT.json` under "hazards", each at its line
with the properties that would catch it going wrong.

## 2. Modules

    PacketLog            what the packet store promises
      ^ implemented by
    PacketStore          the store, its callers and its writer thread
    PacketStoreProofs    theorems and proofs (TLAPS)

    ClipExports          command queue, export queue and export worker
    MediaPath            capture sources, encode thread, the store from outside
      ^ both extended by
    Recorder             session, pipeline, and the composition of the three
    RecorderProofs       theorems and proofs (TLAPS)

    SessionFiles         what a recording leaves on disk, and the MP4 muxer
      ^ extended by
    Recovery             finalization seen from the disk, crashes and restarts,
                         the recovery session
    RecoveryProofs       theorems and proofs (TLAPS)

    BgraTexturePool      textures and their leases
      ^ extended by
    VideoCapture         the capture session and its callbacks
    VideoEncode          frame queue, encode thread, conversion, transform
      ^ both extended by
    VideoPath            the recorder's worker driving the two
    MC_VideoPath         for TLC: symmetry
    VideoMedia           the video half of MediaPath, for itself
      ^ implemented by
    VideoRefinement      VideoPath with the lost frames as history, and the map
    VideoPathProofs      theorems and proofs (TLAPS)

    CaptureThread        WASAPI capture threads: start, attempts, stop
    AudioTracks          continuity, PCM queues, round-robin drain
      ^ both extended by
    AudioCapture         the live audio session, driven by the recorder's worker
    AudioCaptureProofs   theorems and proofs (TLAPS)

    MicMonitor           the microphone check: commands, worker, sink
    Hotkeys              ReplaceAll and its rollback
      ^ both extended by
    AppHost              the message thread, settings transaction, recorder from outside
    MC_AppHost           for TLC: symmetry
    AppHostProofs        theorems and proofs (TLAPS)

    DropOldest           what the PCM ring promises
      ^ implemented by
    PcmFifo              the ring of the microphone check
    PcmResampler         which input frames an output frame is made of
    FrameCadence         which frames are recorded
    ExportPlan           which packets go into an export, at what times
    Mp4Samples           the bytes of video from encoder to MP4
    RecordingSetup       Prepare, StartCapture and the destructor of the backend
    SettingsFiles        start-up, migration, settings file
      ^ all extended by
    MC_Parts             for TLC: each of them alone, the others at their start
    PartsProofs          theorems about SettingsFiles, PcmFifo, PcmResampler,
                         FrameCadence and ExportPlan (TLAPS)
    SetupProofs          theorems about RecordingSetup (TLAPS)

Beside what a run needs, `TypeOK` in each composed module documents the types;
those of the packet store, of recovery, of audio capture and of the application
host are proved.

### PacketStore

One action per critical section of `AsyncPacketWriter::mutex_` and one per file
operation the writer does outside it. `accepted` is the history of accepted
packets (the code keeps its statistics, `logical_stats_`), `work` the deque,
`persisted` the published index, `wpc`/`hand` the writer's place and item,
`pc`/`completion` a caller's place and the `Completion` it waits on. The file
is measured in half packets so that a torn packet is a state of its own:
`written` is what is in the stream, `visible` what has left its buffer. A
boundary packet (key, config, discontinuity) is flushed when written; any other
may stay in the buffer, or any part of it may have spilled. `Recovered` is what
`PacketStore::Recover` would return after a crash at this very step.

A failed write, flush or close may leave any part of the buffered bytes in the
file. Out-of-memory branches of `Enqueue`, `Flush` and `Close` are actions.
The operation name inside the fault is left out, and so is the second copy of
the fault (`PacketStore::LatchWriteFault`): `last_write_fault()` falls back to
the writer's, so the two cannot be told apart.

The abstract specification `PacketLog` is an append-only log with a durable
prefix which a successful close seals complete. `ImplementsLog` maps the log to
`accepted`, the durable prefix to `Recovered` and the seal to the stream's end.

### ClipExports, MediaPath, Recorder

`Recorder` has the message thread (`upc`), the worker with its pipeline
(`wpc`), the encode thread, the export worker, and an environment that delivers
samples and fails. A pipeline stage is one action, or several where another
thread can see the difference: joining the encode thread, joining the export
worker, serving clip requests one by one.

- `did` is the set of the pipeline's flags (`prepare_attempted`, ...,
  `packet_store_closed`), `mode` how it goes on: run, cancelled, failed, thrown.
  `Cleanup` picks the next stage that is due exactly as the cleanup lambda does.
- `Ends(outcome, ...)` is the handling of a step's result: continue, remember
  the failure and finalize (`FinalizeRecording`), or abort into cleanup.
- `caller` is where `ProcessClipRequests` returns to; it is called from four
  places and ends early when the store has failed.
- `place` follows each sample from source to store. `"lost"` is a sample that
  was delivered and will never be stored. Frames dropped on purpose (rate
  limit, overflow policy) are not delivered samples in this sense; a frame that
  a full queue gives up for the newest goes back to `"none"` (`CaptureVideo`).
- The store is a component of its own: here it may fail at any moment while it
  is open, and loses any of what it had accepted.
- A step that throws (`WorkerThrows`) unwinds through the backend's destructor,
  which drains the audio, serves the waiting requests and closes the store.
- Every way out stops the capture, and `WgcMonitorCaptureSession::Stop` waits for
  its callbacks on a condition variable (`:778`): it may wait for ever, as run
  `video_stop` shows. `CaptureStopHangs` takes the worker to `"stuck"` wherever it
  makes that call; no fairness is asked of it, and who joins the worker waits on.

### SessionFiles, Recovery

The state is the disk: for each session directory where it is, whether
`packets.dat` holds exportable video, whether `session.json` is published, what
`session.json.tmp` and the temporary MP4 contain, and who published the MP4.
The recorder here is the `Recorder` pipeline seen from the disk: the steps that
create, write or publish a file, each of which may fail. `WriteFfmpegMp4` is one
procedure (`Mux(p)`), because recorder and recovery call the same code with the
same temporary name; check, removal, opening, writing and publishing are steps
of their own. A file that is open can be neither removed nor renamed, and its
directory cannot be moved (Windows without `FILE_SHARE_DELETE`).

`Crash` stops the process at any step and leaves the disk as it is; `Boot`
starts it again and scans, as `AppHost` does. The recovery session has
`ExportFirst`, `DiscardFirst` and one worker (`vpc`), whose result replaces the
candidates as in `WorkerMain`. The inspection of one session is one step of the
scan; a crash loses no completed write (the process dies, not the machine).

### BgraTexturePool, VideoCapture, VideoEncode, VideoPath

The threads are: Windows' two callbacks (`frameCall`, `closedCall`), the encode
thread (`step`), the transform (`input`, `output`), and the recorder's worker.
A frame is its stamp; a texture, the NV12 texture and a packet each say which
frame's picture they hold (`picture`), so an overwritten texture shows.

- A callback increments `active_callback_count`, looks at `running_`, copies the
  frame into a leased texture, submits it, and decrements and notifies in two
  steps; `Stop` marks, removes the handlers, looks at the count, blocks, and
  clears the runtime, all steps of their own. WGC raises `FrameArrived` one call
  at a time; a handler may be refused to be removed.
- The frame queue keeps the newest frames, the policy the recorder sets.
- `MfHardwareH264EncoderSession` submits without waiting for
  `METransformNeedInput`, keeps the samples the transform still holds, and its
  drains run in the encode thread (after each frame, until the queue is empty)
  and in the worker (at the end). A transform is assumed to give one packet for
  each input sample, in order. A drain at the end with nothing pending waits for
  `DrainComplete`, or times out.
- Left out: batch sizes, the order in which the pool lends, kinds of fault other
  than a lost device (merged), the store's own faults and audio (they are in
  `Recorder`). A frame whose size is not the converter's is refused.

### VideoMedia, VideoRefinement

`Recorder` sees the video of a recording through `MediaPath`: a frame has a
place, the encode thread has a state, and that is all. `VideoMedia` is that half
by itself, with the calls the worker makes, and `VideoIsMedia` says that
`VideoPath` implements it. A frame is its stamp; it is `"stored"` when a packet
has it, else `"queued"` when it is in the queue or popped and not yet submitted,
else `"encoder"` while its drain is under way. The source delivers while the
runtime of the capture is `"ready"`. `VideoPath` forgets frames that are gone,
so `VideoRefinement` adds `lost`, what has left the way to the store other than
through a full queue, as a history variable: it reads the steps and guards none.

### CaptureThread, AudioTracks, AudioCapture

`at[s]` is where the thread of a source is: `RunCaptureAttempt` before it has
started the client, capturing, draining, refused by its sink, waiting between
attempts, ending. Start, the startup event, the stop event, `running_` and
`last_result_` are variables of their own, since `Start` and `Stop` read them
across threads. Time is a small number; a block is the time it covers. The
device may deliver late, early or with a bad stamp, and may vanish and return.
`OnCapturedPcm` places a packet behind the one before and fills gaps with at
most `PacketFill` blocks of silence; a tick fills what lags behind the clock.
The sink's answer is looked at after `ReleaseBuffer`, whose own failure goes
first and may be one after which the thread reconnects (`AttemptRefused`).
`excused` remembers a packet whose refusal the code drops: so, or because a stop
finds the attempt under way, which is then a success (see section 5).

### MicMonitor, Hotkeys, AppHost

The message thread (`ui`) reads snapshots and gives commands in separate steps,
because workers publish in between. A worker publishes under its lock and calls
the sink, which posts, after it has left it (`micHand`, `recHand`). Messages of
a kind are one set (`posted`): handlers read the latest snapshot only.
`ReplaceAll` is one step per Win32 call; Windows may refuse each, the old
bindings too. `ApplySettings` changes hotkeys, startup entry and file in turn
and rolls back. The recorder is what the message thread sees of it.

### The parts of MC_Parts

- `PcmFifo`: the ring with its two-piece copies; `FifoIsQueue` is refinement of
  `DropOldest`.
- `PcmResampler`: which input frames `Convert` needs and which it keeps;
  interpolation itself is left out.
- `FrameCadence`: the code's arithmetic with words of `Word` values, time scaled
  by the numerator of the rate.
- `ExportPlan`: the index as the encoders fill it, jitter included; all of
  `QueryPacketRange`, the plans, the muxer's request, its streams and its
  checks. A packet is its place in the index, which is its order in the file, so
  that ranges are sets of places and `std::sort` is `InOrder`: the k-th element
  has k - 1 before it. Tracks are those of the manifest; decode times equal presentation
  times (no B-frames), never negative. `MissingAudioPackets` is a legitimate
  refusal (`require_all_audio_tracks`). FFmpeg's own refusals are not modelled;
  `DryRunPayloadRead` and `ValidateStreamSetup` are used by tools only.
- `Mp4Samples`: bytes as small sequences. NAL units never end in zero nor have a
  start code in them, which H.264 sees to; lengths take one number instead of
  two or four bytes. SPS or PPS as the last unit of a packet keep zeros that
  follow them.
- `RecordingSetup`: one action per object that is made or call that may fail.
  `StepFails` is any failure or exception after which the destructor clears up;
  `EncoderRejected` and `AacRejected` are the encoders' own `Reset`. A size is
  one number for width and height; the monitor is asked twice, as in the code.
  The AAC transform answers with the type it was given; a refused candidate
  leaves nothing. Mixed and process-loopback tracks are refused by
  `ValidatePreflightOptions` and are not inputs; the recorder requires every
  source it asks for and starts with track 2, the model also has optional ones.
  What the pipeline stops between `StartCapture` and the destructor is in
  `Recorder`; here the destructor finds everything still running.
- `SettingsFiles`: processes start, crash and save against the same disk. A save
  writes a temporary, flushes it to the operating system and replaces the file;
  the crash is one of the process. A root with an open log cannot be renamed. A
  recorder keeps the output directory of the settings it was made with
  (`CreateVideoRecorder`), and a recording or a recovery creates it, with the root
  it lies in (`CreateOutputDirectory`): after a migration that was cut short
  before the rebased settings were saved this brings the old root back, and every
  later start finds two. `strayed` remembers the roots that came back so.
  Recordings themselves, the other directories and the files in them are left out.

## 3. Runs

| Run | Question | Bounds | Result |
|---|---|---|---|
| `packet_store` | safety of the store, refinement of `PacketLog`, every flush and close answered | 2 threads, sizes 1 and 2, queue of 2 packets and 2 bytes, 2 packets, fairness | 576,142 states, holds |
| `recorder` | is a saved recording whole, is a stop final? | 2 frames, 1 audio block, every fault, 1 recording, no requests | 1,355,305 states, holds |
| `recorder_live` | no overlapping workers, store closed last, requests answered, stop and shutdown end unless the capture's stop hangs | no samples, topology fault, 1 request, 2 recordings, fairness | 289,535 states, holds |
| `recorder_encoder` | does an encoder failure preserve the recording? | 1 frame | violated: finding 1 |
| `recovery` | is anything exportable ever lost, hidden, replaced or published incomplete? | 2 sessions, 3 starts of the process | 1,019,675 states, holds |
| `recovery_retry` | can a failed export be retried? | 1 session, 2 starts | violated: finding 2 |
| `app` | settings, hotkeys, microphone check, recorder and tray consistent, workers joined | 2 layouts, 2 hotkeys, 1 recording per session | 2,398,167 states, holds |
| `app_outcome` | is every outcome shown? | as above | violated: finding 3 |
| `audio` | are tracks continuous, is loss reported, does a stop end each thread? | 2 sources, queues of 2 blocks, 7 units of time | 1,725,595 states, holds |
| `video` | do packets show their frames, is what was captured stored, is nothing cleared under a callback? | 3 frames, 3 textures, queue of 1, 2 surfaces | 2,718,073 states, holds |
| `video_stop` | does `Stop` of the capture return? | 1 frame | violated: finding 4 |
| `parts` | ring, resampler, cadence, exports, samples, set-up, settings file | below | 884,078 states, holds |

Why the bounds are enough.

- The store's properties relate one packet to its neighbour, to a barrier and
  to the close item: with two packets, two callers and a queue of two, every
  order of the four work items occurs, both limits are reached, and each failure
  occurs before, between and after. Two sizes are needed for the byte limit to
  bind before the packet limit.
- For the pipeline, two frames and a block are enough for one sample to be in
  the encoder, one in the queue and one stored when a fault occurs. No run has
  both samples and requests: they meet only in the store's fault, which both
  runs have. Two recordings in a row show what one leaves to the next.
- For recovery, a session of an earlier run and one that is being recorded are
  enough for every pair of recorder and worker steps, and three starts for a
  crash while recovering from a crash. The limit of the scan does not bind.
- Video: the pool is two larger than the queue, as in the code
  (`VideoRecorderPipeline.cpp:367`); with three frames one is in the callback,
  one queued and one converted, and a texture is used a second time.
- Audio: two sources are the most the recorder has. The clock is looked at at
  the start and at two `Instants`; a packet is the oldest its device has or the
  newest. That is enough for a gap within the tolerance, one longer than the
  silence one packet may bring (`Silence * PacketFill`), a late packet, and a
  lost endpoint before a stop.
- Host: two layouts tell old bindings from new ones, two hotkeys a set that is
  half registered; a recorder session is replaced any number of times.
- Parts: the ring of 3 takes pushes of up to 4 frames; eight ratios of rates,
  among them 44,100 : 48,000, with blocks of up to 7 and streams of 24 frames;
  five cadences with words of 32 values and stamps to 20, so that words run
  over; exports over up to 4 frames of video and 2 packets of audio at
  intervals of 1 to 3 for a nominal 2; three NAL units of four kinds in packets
  of any partition with both start codes; four formats and sizes that are odd,
  too small and custom.
- Settings: two processes and three starts, because a migration that is cut short,
  a start whose recording brings the old root back, and a start that finds two
  roots and loads, saves and records are three in a row. Files are of an older,
  the present or an unknown version. Processes are interchangeable (`SYMMETRY`);
  no property of the run is a liveness property.

Fairness. `FairSpec` of the store: weak fairness of the writer thread and of
callers inside a call. `FairSpec` of the recorder: weak fairness of the worker,
the encode thread, the export worker and of the message thread inside Start and
Shutdown. `FairSpec` of the video path: weak fairness of the callbacks, the
encode thread, the transform and the worker. This is what a scheduler gives,
together with the assumption that each device or system call the code makes
returns. That assumption covers calls of Windows, drivers and Media Foundation
only, none of the repository's own waits: those are modelled, and the one that
may last for ever, in the stop of the capture, is a step that nothing forces
(`CaptureStopHangs`) and that `StopIsAnswered` and `ShutdownReturns` name. Nothing makes the user command anything, a source deliver, or anything
fail. `audio` has no liveness property: that a stop ends is the step property
`StopIsDecisive`, a rank that each step of a stopped thread lowers.

Deadlock is checked except in `audio` and `parts`, whose behaviours end when
the session is over or a bound on data is reached. Elsewhere what has ended
says so by a step of its own (`Ended`, `Done`).

### Findings

1. `recorder_encoder`: an encoder failure makes the encode thread refuse
   frames; the refusal becomes a capture fault, which the tick looks at first
   and aborts, although `docs/implementation_gates.md:317` promises
   finalization.
2. `recovery_retry`: an export that fails after it has promoted
   `session.json.tmp` cannot be retried before the next start;
   `docs/implementation_gates.md:255`.
3. `app_outcome`: a recorder that was replaced counts its recordings from one
   again, so an outcome equal in number and state to the last one shown is
   never shown; `docs/implementation_gates.md:85`.
4. `video_stop`: `Stop` of the capture waits on a condition variable that the
   last callback notifies without the mutex; the notification can be lost and
   the stop of the recording hangs; `src/capture/README.md:16`. The recorder's
   worker makes this call, so a stop and a shutdown of the recorder end only if it
   returns.

Each of these runs checks the statement of the document; the passing runs check
what the code does guarantee instead.

## 4. Proofs

`PacketStoreProofs` proves, for every set of threads, every set of sizes and
every limit, what `packet_store` checks on its instance: `TypeCorrect`,
`IndexOrder`, `ExportSnapshot`, `BoundarySurvives`, `CloseRecoverable`,
`RejectionHarmless`, `QueueCounted`, `FailureIsFinal` and `Refinement`. The
assumptions are those named in `PacketStore`: sizes are natural numbers, limits
are positive, and no thread is called `None`.

The argument is one inductive invariant, `IInv`, of which the properties are
consequences. They are not inductive: that the index is in order, for instance,
needs to know where every packet that is not yet in it is. The parts:

- `QueueInv`: packet items in the queue carry consecutive numbers that end with
  the last packet accepted; the counter is their number.
- `HandInv`: what the writer holds, at each of its places.
- `FileInv`: between the number of packets written, the index, the packets
  queued and the one in hand nothing is missing as long as the file is sound;
  complete packets are a prefix of what is written.
- `FaultInv`: an I/O failure is a fault, and a fault ends acceptance.
- `CloserInv`, `CloseItemInv`, `CloseWaitInv`, `SealInv`: at most one close
  item exists, it is the last item of the queue, its waiter is the closer, and
  an ended writer leaves an empty queue and, unless the file failed, a complete
  file.
- `WaitInv`, `MarkInv`, `CoverInv`: a waiting caller's barrier is in the queue
  or in the writer's hand behind every packet accepted before its call, and an
  answered barrier means that those packets are complete in the file.

`QueueCounted` needs one more, `ByteInv`: the counter of bytes is the sum of the
sizes of the packets not yet taken. The property states the sum by a fold over
the set of packets queued, so the proof is one by induction: `NatSetInduction`
is induction on a set of numbers, from the well-founded order of the naturals;
`SumExists` makes a function that gives every set of packets its sum, packet by
packet; `FoldIsSum` says that a fold gives the same whatever order it takes the
elements in. `ByteInv` speaks of such functions, which a step moves along by one
packet, and `BytesAreSum` returns to the fold.

`RecoveryProofs` proves of `Recovery`, for any sessions, limit of the scan and
number of starts, `TypeCorrect`, `FinalStays`, `WholePublished`,
`ExportableKept` and `AllOffered`, from `RecoveryAssumption` (sessions are
finitely many positive numbers, the limit is a positive number) and an
inductive invariant with the parts

- `ProcessInv`: a process that does not run is nowhere in its code.
- `DirectoryInv`: a directory that was never created holds nothing; the live
  one was created by this very start of the process. This is what tells an
  interrupted recording from the live one.
- `ManifestInv`: while the recorder may still truncate `session.json.tmp`
  nothing depends on it, and from `CloseStore` on there is a manifest.
- `MuxInv`: whoever is between the muxer's first check and its publication
  works on a session with packets and a manifest. So the removal of a complete
  temporary MP4 never loses the recording: `ExportableKept`.
- `WholeInv`: between opening and publishing, nobody else opens the temporary
  MP4 of an interrupted recording, so what is renamed is whole:
  `WholePublished`.

`VideoPathProofs` proves of `VideoPath`, for any set of textures, length of the
queue, number of surfaces and of frames, and from no assumption on them,
`CallbacksSeeRuntime`, `PacketsShowTheirFrames`, and the invariant of the leases;
and from `EncodeAssumption` (the queue has room for a frame) and
`PoolAssumption` (there are finitely many textures, and the pool may make two
more than the queue holds: `VideoRecorderPipeline.cpp:367`), `CapturedIsStored`.
The argument has these parts, beside the shape of the state (`ShapeInv`):

- `StopInv`: `active_callback_count` is the number of calls past their
  increment, a call sees `running_` only while the session runs, and once `Stop`
  has seen no call, whatever calls there are began after its mark and turn back.
  Without the last of these a call could pass its look at `running_` between the
  look at the count and the clearing of the runtime.
- `LeaseInv`: a texture is available, or held by the callback, by the frame that
  is being encoded, or by one frame of the queue, and by no two of these.
- `PictureInv`: a texture that has been filled shows its frame, from the copy
  until it is converted. It needs `LeaseInv`: who copies holds the texture alone.
- `EncodeInv`: the one NV12 texture is written only while the transform holds no
  sample of an earlier frame that has still to be read.
- `ThreadInv`: what each state of the encode thread says of its queue and its
  drains, and that a failure of it has reached the recording by the end.
- `PoolInv`: textures are made only when none is free, and each that was made is
  free, in the callback, in the frame being encoded or in the queue. By the
  pigeonhole principle the pool never runs out under the assumption above.
- `OrderInv`: the stamps in the store, in the transform, in the hand of the
  encode thread, in the queue and in the callback ascend in this order.
- `CountInv`: the frames stored, in hand, queued and dropped are those accepted.
  With everything drained, and stamps that differ, each accepted frame that was
  not dropped is stored: `CapturedIsStored`.

`VideoPathProofs` ends with `VideoImplementsMedia`: under the same assumptions
`VideoPath`, with the history, implements `VideoMedia` by the mapping above.
What `Recorder` rests its properties on, and `RecorderProofs` its theorems, is
thus what the threads, textures and drains of `VideoPath` do: a frame that waits
is encoded or lost with a failed thread, a stopped thread has left nothing
queued, nothing is stored by a thread that has ended. Beside the above it takes:

- `StampInv`: the stamps in hand are those of frames, so that each is a sample.
- `StageInv`: when the runtime is there, by the stage of the worker; a callback
  that finds a fault is past its guard, so by `StopInv` the runtime is there.
- `DrainDetail`: a drain of the thread ends in the frame stored, the thread
  failed, or both: the store may take the packet and the session refuse for
  want of SPS and PPS. (`MediaPath` did not have the last; the attempt at the
  proof, and then TLC, showed it, and `EncodeFails` has it now.)
- `FailInv`: a thread that fails otherwise than by its device or encoder leaves
  nothing in its encoder. `Finalize` runs only after such failures or none, so
  its drain has nothing to store and is a stutter (`NothingLeft`).
- `OnePlaceEach`: while the thread has not failed a frame is in one place, which
  is `OrderInv` seen from the places. `LostOfStep`: only a thread that fails
  loses frames, and the queue is discarded only after that.

TLC agrees on the instance of the run `video` (`HistorySpec` has 2,760,194 states
there); it takes four to five minutes and is not a run of its own.

`RecorderProofs` proves of `Recorder`, for any samples, any number of
recordings and of requests and any capacities, `OneRecordingAtATime`,
`StopIsFinal`, `StoreClosesLast`, `SavedMeansComplete` and
`EveryRequestAnswered`, from `MediaAssumption` (no sample is both video and
audio) alone. The argument has these layers:

- `SessionInv`: a worker that is neither gone nor about to exit belongs to a
  session that is active or shuts down, and the message thread joins a worker
  before it makes the next.
- `StageInv`: which thread, source and queue may run at each stage. The cleanup
  goes by the flags of the pipeline, so the invariant says what they tell
  (`FlagInv`), in which order the stages run them down (`OrderInv`), and what the
  backend's destructor finds when a step has thrown and the flags are lost
  (`DestroyInv`). `StoreClosesLast` is inductive only together with these.
- `SaveInv`: `FaultInv` says that a fault that has been latched is one that will
  be reported; `KeepInv` says of a recording that goes on soundly that what
  is lost, the store or the encoder has failed for, and what each drain leaves
  behind it: nothing queued after the queue drain, nothing in an encoder after
  the encoder drain. With the check at the close of the store, nothing at all is
  lost in a recording that is then exported.
- `RequestInv`: a request that has no answer is in exactly one place, the
  command queue, the pipeline's hand, the export queue or the export worker,
  once; one that is in none was forgotten by a pipeline that threw or a session
  that shuts down. This gives "not twice", and "answered" once all of these
  places are empty.
- `ServiceInv`: requests are accepted only while the pipeline is before its
  capture stop (`TakingInv`), so that nothing comes into the command queue
  behind the clip drain, or behind the one of the destructor (`ServedInv`).

`AppHostProofs` proves of `AppHost`, for any hotkeys, layouts and number of
recordings, `SettingsReachRecorder`, `MicAndRecordingExclusive`,
`TrayFollowsRecorder`, `HotkeysAgree`, `PendingStartIsAwaited` and
`WorkersAreJoined`, from `HotkeysAssumption` (hotkeys are natural numbers, and
there are some: `ReplaceAll` takes them in order, so the least one is found by
well-founded induction). The parts of the invariant:

- `MicInv`, `RecInv`: how the state that a session shows follows where its
  worker is. The state is set in one step and announced in a later one.
- `WayInv`: what the message thread has read from a snapshot still holds when it
  acts on it, because only the message thread starts a worker. Without it
  neither exclusion nor joining is inductive: every check is a step before what
  it guards.
- `PendingInv`: a recording that waits for the microphone has, at any moment,
  exactly one who is to wake it: the worker that was told to stop, its
  announcement under way, or the posted message.
- `TrayInv`: a state the tray does not show is with the worker or in a message.
- `KeysInv`: at each step of `ReplaceAll` and of its rollback, what Windows
  holds in terms of the old and the new layout.

`AudioCaptureProofs` proves of `AudioCapture`, for any sources, tracks, capacity
of the queues, length of silence and tolerance, `TrackIsContinuous`,
`NothingLostUnnoticed` and `StopIsDecisive`, from the assumptions of
`AudioCapture` and `AudioTracks`. The parts of the invariant:

- `ChainInv`: the blocks of a queue abut, the first where the encoder has got
  to, the last where the track is continued. The continuity of a track is
  inductive only together with the gap between queue and encoder.
- `OrderInv`: sources start in turn, nobody is told to stop before all have
  started, and while the session stops, a thread that is alive is still in the
  list of those to be joined.
- `RefusalInv`: a packet that was refused stays on record on its way from the
  sink over the attempt and the thread's result to the session, except where a
  stop request overtakes it or the loss of the device takes its place, which
  `excused` remembers.
- `EndInv`: what fill, drain and flush have each done for every track.

`PartsProofs` proves `SettingsSurvive` of `SettingsFiles`, for any number of
processes and starts, and `FifoIsQueue` of `PcmFifo`, for any finite set of
frames and any capacity. The first needs

- `OwnerInv`: who is past the second mutex is alone, and what it moves over the
  file is complete.
- `RootInv`, `MigrationInv`: a root exists at any time; as long as no start has
  overlapped another, no inspection has failed and no recording has made the new
  root, what a process has found out about the roots still holds when it moves
  one, everybody uses the new root once it is there, and an old root that a
  recording has made beside it has no settings.
- `SavedInv`: with one root, or one that is in use, its file is what was saved
  last, and so is what the owner has loaded, but for the directory that is moved
  along.

The second is a refinement: `Content`, the frames in the ring from `read` on, is
the abstract queue. That a push or a pop in two pieces around the end of the
buffer is one of the queue rests on lemmas about positions that wrap once.

It also proves `BlocksConvert` of `PcmResampler`, for any pair of rates, and
`CadencePaced` of `FrameCadence`, for any rate whose slots fit in a word twice
over and any word. Both multiply variables; a few lemmas on products and
quotients (`ProductGrows`, `SumTimes`, `QuotientIs`, `SmallRemainder`) come
first, and every later step is linear in products that it names.

- `ResamplerInv`: the frames made are those of the stream so far, and the
  history is its end, up to the limit. `HistorySuffices` says that this reaches
  back to the frame the next output starts at.
- `EvaluateMoves` sorts what the code does with a frame into `Held`, `OnGrid`
  and `Anew`, and shows that elapsed time has not wrapped where it is used.
- `SlotInv`: the last frame accepted lies in the slot before the one due, the
  one before it in an earlier slot.
- `PaceInv`: after r moves of the grid because slots no longer fitted in a
  word, n frames took n slots but for r ticks, and r full words have passed.
  Without r the rounding allowed by `CadencePaced` could not be carried from
  step to step.

`SetupProofs` proves of `RecordingSetup`, for any formats, rates, first tracks
and sizes that satisfy `SetupAssumption`, `SetupUnwinds` and `TracksAgree`:

- `PlanInv`: every planned track has the id that follows from its position and a
  source that was included, every required source has a track, and the tracks of
  the preflight are those of the plan.
- `CoderInv`: the encoders are those of the first tracks, in order, each with
  the prepared format of its track, and all of them once the audio is bound.
- `UnwindInv`: what lives at each stage (`LiveInv`), that everything it uses
  lives too (`UsesInv`), and what has called `MFStartup` (`CountInv`). That the
  destructor keeps `UsesInv` is a lemma about its order: an object's users all
  come before it.
- `AgreeInv`: the size, the ids and the session that were agreed on by a stage.
  That a list searched by its ids gives the entry of a track is `ByIdFinds`.

`PartsProofs` also proves `ExportsAreWhole` of `ExportPlan`: for any nominal
lengths, any jitter, any set of audio tracks and any number of packets, an
export that ends with the recording is whole or lacks an audio track.

- `IndexInv` is the inductive invariant: video is in order, each frame has the
  nominal length, the first is a key frame. It says nothing of audio, which need
  not be in order with anything; and jitter may let frames overlap or leave gaps.
- `Ordering`: in a finite set with a strict order, ranks are different numbers
  from 1 to the size of the set, so `InOrder` lists every element once, in
  order. It stands in for `std::sort`, of packets (`PlanInOrder`) and of tracks
  (`TracksInOrder`).
- `RangeStarts`, `RangeHasAll`: the places of video in the range are exactly
  those from the last key frame before it on. That no earlier one is in, though
  its nominal length may reach into the range, is the condition of
  `PacketStore.cpp:670`; without it the first packet written would not be a key
  frame.
- `VideoOfPlan`, `TracksOfPlan`, `WriterTakesAll`, `MuxerAccepts`: what the
  planner, the muxer's check of the request, the packet writer and the streams
  look up separately is the same, so none of the checks refuses the plan.

Only model-checked: liveness (`EveryCallReturns`, `StopIsAnswered`,
`ShutdownReturns`), which is out of the prover's reach; `SamplesKeepUnits`, whose
scans of the bytes of a sample are recursive over data; and `MicMonitor` where
`AppHost` does not rest on it.

## 5. Where code and documents part, without a run

These were met while modelling; the model has them, and the properties are
stated so as to say what the code does guarantee.

- The flush barrier and the copy of the index are two critical sections
  (`PacketStore.cpp:908-916`); `src/record/README.md:14` says one. A clip may
  name a packet whose last bytes are still buffered.
- A store failure during the drains is noticed only when the store is closed,
  where it aborts (`VideoRecorderPipeline.cpp:683`);
  `docs/implementation_gates.md:247` wants the recording preserved.
- A bookmark's queued event may be published after its outcome and stay on
  screen (`VideoRecorderPipeline.cpp:586`; `docs/implementation_gates.md:138`).
- With a failed store every `ProcessClipRequests` serves one request; one of
  four waiting is served in the next recording (`:528-565`;
  `docs/implementation_gates.md:145`).
- A toggle that comes while the recorder ends may start one more recording with
  the old settings (`AppHost.cpp:501-503`; `docs/implementation_gates.md:178`).
- Applied settings are rolled back best effort, as `src/app/README.md:5` says:
  a refused rollback may leave no hotkeys.
- Exit destroys the hidden window before `Shutdown` has joined the workers that
  read its handle.
- A PCM packet refused in an attempt that a stop finds under way is reported as
  success (`WasapiCaptureSource.cpp:735-741`). When `ReleaseBuffer` fails for the
  refused packet, as after the loss of the device, that failure is returned
  (`:301-309`), the thread reconnects, silence takes the place of the packet and
  nothing reports it. Late packets are placed behind
  the silence that stands for them.
- The failure paths of `MfHardwareH264EncoderSession::Initialize` call `Reset`,
  and so `MFShutdown`, while a local reference to the transform is still held.
- The guard of a capture callback still touches the condition variable after
  the count has gone to zero; `Stop` may have returned by then.
- A frame stamped before the start of the timebase fails the conversion to
  session time, which aborts; a recording stopped before its first frame fails
  because nothing was submitted.
- The old data root is migrated before the single-instance check
  (`AppHost.cpp:193-230`): two starts that overlap, or a failed inspection,
  leave two roots, which no later start joins (`RootsConflict`).
- A crash or a failed save between migration and rebase leaves the output
  directory under the old root: only a start that has itself migrated rebases it
  (`AppHost.cpp:244`). The next recording creates it, and the old root with it
  (`VideoRecorderPipeline.cpp:193`); from then on every start reports
  `RootsConflict` and recordings go to the old root. The settings survive.
- The monitor is enumerated twice (`VideoRecorderPipeline.cpp:217`,
  `VideoRecordingBootstrap.cpp:90`); when its mode changes in between, the
  recording keeps the size of the old mode and the picture is scaled,
  consistently everywhere (`TracksAgree`).
- A recovery of a recording that is still being finalized can remove the
  recorder's complete temporary MP4 just before it is renamed, reopen it, and
  fail; if it cannot clean up either, the recorder publishes a partial MP4
  (`Mp4Muxer.cpp:519`). `PublishedIsWhole` is therefore stated of interrupted
  recordings. A live recording that was listed by a scan can be discarded after
  it was saved (`RecordingRecovery.cpp:572`); the move is reversible. The scan
  looks at the oldest 256 sessions (`:349`), and judges what was exported by the
  output directory of the present settings (`:204`).

## 6. Where it stands, and what is left

Modelled, checked and proved: the packet store with its abstract log, the
recorder, recovery, the video path with its refinement to what the recorder
sees of it, audio capture, the application host, the set-up of a recording, the
settings file, export plans, and the ring, resampler and cadence. Modelled and
checked: the microphone check and the samples of the muxer.

Left, in order of use:

- The audio half of `MediaPath` as an abstraction of `AudioCapture`. It is none
  as the two stand: one call of `AudioCapture` queues a packet and the silence
  before it, where `MediaPath` queues a block at a time, and `AudioCapture` ends
  at the encoders (`encoded` is a time), where `MediaPath` goes on to the store.
  A model of the encoders' packets between the two has to come first.
- The conversion of clock ticks (`SessionClock.cpp`, `Timebase.cpp`), which every
  model takes for exact.
- `SamplesKeepUnits` for samples of any length: its scans are recursive over
  data, which only TLC can evaluate.

## 7. Not modelled

Media Foundation, FFmpeg, D3D11, Windows.Graphics.Capture and WASAPI
themselves: a call to them succeeds or fails, or they are an environment with
the few rules stated above. Encoded formats beyond NAL units, message texts,
log lines, diagnostics, performance counters and thread priorities (nothing
depends on them), the settings window (immediate-mode drawing of what `AppHost`
holds), tray icons, and the command-line tools with the captures only they use.
Data races: the code guards shared state with mutexes or atomics, except for
the window handle named in section 5.
