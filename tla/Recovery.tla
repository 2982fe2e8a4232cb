------------------------------- MODULE Recovery -------------------------------
(***************************************************************************)
(* Finalizing a recording on disk, and recovering the recordings that were *)
(* interrupted (src/src/record/RecordingRecovery.cpp), in a process that   *)
(* may die at any step and is started again.                               *)
(*                                                                         *)
(* The recorder is the Recorder module's pipeline seen from the disk: only *)
(* its steps that create, write or publish a file.  The recovery session   *)
(* has the commands of the tray menu and one worker at a time.             *)
(***************************************************************************)
EXTENDS SessionFiles, FiniteSets

CONSTANTS
  MaxScanned,   \* maximum_session_directories
  MaxBoots      \* bound: how often the process is started

ASSUME RecoveryAssumption ==
  /\ Sessions \subseteq Nat \ {0} /\ IsFiniteSet(Sessions)
  /\ MaxScanned \in Nat \ {0} /\ MaxBoots \in Nat

VARIABLES
  boot,          \* how often the process has been started
  running,       \* the process runs
  shuttingDown,
  rpc,           \* the recorder: a step of its finalization, or "idle"
  live,          \* its session, 0 if none
  born,          \* for each session: the start of the process it is from
  state,         \* snapshot_.state of the recovery session
  candidates,    \* snapshot_.scan.candidates
  vpc,           \* the recovery worker: a step of its job, or "none"
  chosen,        \* the candidate its action is about
  toScan, found  \* the directories a scan has still to inspect; its result

recorderVars == <<rpc, live, born>>
workerVars   == <<vpc, chosen, toScan, found>>
recoveryVars == <<state, candidates, workerVars>>
processVars  == <<boot, running, shuttingDown>>
vars == <<processVars, recorderVars, recoveryVars, fileVars, mux>>

NoCandidate == [session |-> 0, usesTemp |-> FALSE, hasMp4 |-> FALSE,
                canExport |-> FALSE, canDiscard |-> FALSE]

Init ==
  /\ FilesInit
  /\ boot = 0 /\ running = FALSE /\ shuttingDown = FALSE
  /\ rpc = "idle" /\ live = 0 /\ born = [s \in Sessions |-> 0]
  /\ state = "Idle" /\ candidates = <<>>
  /\ vpc = "none" /\ chosen = NoCandidate /\ toScan = {} /\ found = <<>>

-----------------------------------------------------------------------------
(* The process: AppHost starts a scan and knows nothing else of before.    *)

Boot ==
  /\ ~running /\ boot < MaxBoots
  /\ boot' = boot + 1 /\ running' = TRUE /\ shuttingDown' = FALSE
  /\ state' = "Scanning" /\ candidates' = <<>> /\ vpc' = "enumerate"
  /\ UNCHANGED <<recorderVars, chosen, toScan, found, fileVars, mux>>

Stops ==
  /\ running' = FALSE
  /\ rpc' = "idle" /\ live' = 0
  /\ state' = "Idle" /\ candidates' = <<>>
  /\ vpc' = "none" /\ chosen' = NoCandidate /\ toScan' = {} /\ found' = <<>>
  /\ mux' = [p \in Processes |-> Off]
  /\ UNCHANGED <<boot, shuttingDown, born, fileVars>>

Crash == running /\ Stops

ShutdownBegin ==
  /\ running /\ ~shuttingDown /\ shuttingDown' = TRUE
  /\ UNCHANGED <<boot, running, recorderVars, recoveryVars, fileVars, mux>>

Exit == running /\ shuttingDown /\ rpc = "idle" /\ vpc = "none" /\ Stops

-----------------------------------------------------------------------------
(* The recorder.                                                           *)

RecorderAt(at) == running /\ rpc = at
RecorderGoto(at) ==
  /\ rpc' = at /\ live' = IF at = "idle" THEN 0 ELSE live
  /\ UNCHANGED <<processVars, recoveryVars, born>>

(* A new session directory sorts behind every other.                       *)
CreateSession(s) ==
  /\ RecorderAt("idle") /\ ~shuttingDown
  /\ \A r \in Sessions : (where[r] = "none") = (r >= s)
  /\ rpc' = "recording" /\ live' = s /\ born' = [born EXCEPT ![s] = boot]
  /\ where' = [where EXCEPT ![s] = "sessions"]
  /\ packets' = [packets EXCEPT ![s] = "empty"]
  /\ UNCHANGED <<processVars, recoveryVars, manifest, manifestTemp, mp4Temp, mp4, mux>>

StorePackets ==
  /\ RecorderAt("recording") /\ packets[live] = "empty"
  /\ packets' = [packets EXCEPT ![live] = "some"]
  /\ RecorderGoto("recording")
  /\ UNCHANGED <<where, manifest, manifestTemp, mp4Temp, mp4, mux>>

(* The recording is stopped, or is aborted without a manifest.             *)
StopRecording ==
  /\ RecorderAt("recording")
  /\ RecorderGoto("manifest") \/ RecorderGoto("idle")
  /\ UNCHANGED <<fileVars, mux>>

OpenManifest ==
  /\ RecorderAt("manifest")
  /\ manifestTemp' = [manifestTemp EXCEPT ![live] = "partial"]
  /\ RecorderGoto("manifestWrite")
  /\ UNCHANGED <<where, packets, manifest, mp4Temp, mp4, mux>>

WriteManifest ==
  /\ RecorderAt("manifestWrite")
  /\ \/ manifestTemp' = [manifestTemp EXCEPT ![live] = "complete"]
        /\ RecorderGoto("manifestPublish")
     \/ \E left \in {"none", "partial", "complete"} :   \* so may its clean-up
          manifestTemp' = [manifestTemp EXCEPT ![live] = left] /\ RecorderGoto("idle")
  /\ UNCHANGED <<where, packets, manifest, mp4Temp, mp4, mux>>

PublishManifest ==
  /\ RecorderAt("manifestPublish")
  /\ \/ /\ manifestTemp[live] # "none"
        /\ manifest' = [manifest EXCEPT ![live] = TRUE]
        /\ manifestTemp' = [manifestTemp EXCEPT ![live] = "none"]
        /\ RecorderGoto("close")
     \/ RecorderGoto("idle") /\ UNCHANGED <<manifest, manifestTemp>>
  /\ UNCHANGED <<where, packets, mp4Temp, mp4, mux>>

(* ClosePacketStore, then RecoverPacketStore and BuildExportPlan.          *)
CloseStore ==
  /\ RecorderAt("close")
  /\ RecorderGoto("plan") \/ RecorderGoto("idle")
  /\ UNCHANGED <<fileVars, mux>>

PlanExport ==
  /\ RecorderAt("plan")
  /\ \/ Plannable(live) /\ RecorderGoto("mux") /\ MuxStart("recorder", live)
     \/ RecorderGoto("idle") /\ UNCHANGED mux
  /\ UNCHANGED fileVars

RecorderDone ==
  /\ RecorderAt("mux") /\ MuxEnded("recorder")
  /\ RecorderGoto("idle")
  /\ mux' = [mux EXCEPT !["recorder"] = Off]
  /\ UNCHANGED fileVars

Recorder ==
  \/ \E s \in Sessions : CreateSession(s)
  \/ StorePackets \/ StopRecording \/ OpenManifest \/ WriteManifest \/ PublishManifest
  \/ CloseStore \/ PlanExport \/ RecorderDone
  \/ rpc = "mux" /\ Mux("recorder") /\ UNCHANGED <<processVars, recorderVars, recoveryVars>>

-----------------------------------------------------------------------------
(* The scan.                                                               *)

(* Mutant: only published manifests are looked at.                         *)
InspectPublishedOnly(s) ==
  LET hasMp4 == mp4Temp[s].content = "complete"
  IN  IF Published(s) THEN [NoCandidate EXCEPT !.session = s]
      ELSE [session |-> s, hasMp4 |-> hasMp4, usesTemp |-> FALSE,
            canExport |-> hasMp4 \/ (Readable(s) /\ Plannable(s)), canDiscard |-> TRUE]

InspectSession(s) ==
  LET hasMp4   == mp4Temp[s].content = "complete"
      usesTemp == ~Readable(s) /\ manifestTemp[s] = "complete"
  IN  IF Published(s) THEN [NoCandidate EXCEPT !.session = s]
      ELSE [session |-> s, hasMp4 |-> hasMp4, usesTemp |-> usesTemp,
            canExport |-> hasMp4 \/ ((Readable(s) \/ usesTemp) /\ Plannable(s)),
            canDiscard |-> TRUE]

Directories == {s \in Sessions : where[s] = "sessions"}

WorkerAt(at) == running /\ vpc = at
WorkerKeeps == UNCHANGED <<processVars, recorderVars, state, candidates>>

(* The directories are sorted by name; the first MaxScanned are looked at. *)
EnumerateSessions ==
  /\ WorkerAt("enumerate") /\ vpc' = "scan"
  /\ toScan' = {s \in Directories :
                  Cardinality({r \in Directories : r <= s}) <= MaxScanned}
  /\ found' = <<>>
  /\ WorkerKeeps /\ UNCHANGED <<chosen, fileVars, mux>>

ScanSession ==
  /\ WorkerAt("scan")
  /\ \E s \in toScan :
       /\ \A r \in toScan : s <= r
       /\ found' = Append(found, InspectSession(s)) /\ toScan' = toScan \ {s}
  /\ WorkerKeeps /\ UNCHANGED <<vpc, chosen, fileVars, mux>>

(* The worker's end: nothing is published once the session shuts down.     *)
WorkerEnds(newState, newCandidates) ==
  /\ vpc' = "none" /\ chosen' = NoCandidate /\ toScan' = {} /\ found' = <<>>
  /\ IF shuttingDown THEN UNCHANGED <<state, candidates>>
                     ELSE state' = newState /\ candidates' = newCandidates
  /\ UNCHANGED <<processVars, recorderVars>>

ScanEnds ==
  /\ WorkerAt("scan") /\ toScan = {}
  /\ WorkerEnds("Ready", found)
  /\ UNCHANGED <<fileVars, mux>>

ScanFails ==
  /\ WorkerAt("enumerate")
  /\ WorkerEnds("Failed", <<>>)
  /\ UNCHANGED <<fileVars, mux>>

-----------------------------------------------------------------------------
(* ExportFirst and DiscardFirst: the action on the first candidate.        *)

Choose(able, busy, step) ==
  /\ running /\ ~shuttingDown /\ state = "Ready"
  /\ \E i \in able :
       /\ \A j \in able : i <= j
       /\ \/ chosen' = candidates[i] /\ state' = busy /\ vpc' = step
          \/ state' = "Failed" /\ UNCHANGED <<chosen, vpc>>   \* no worker thread
  /\ UNCHANGED <<processVars, recorderVars, candidates, toScan, found, fileVars, mux>>

ExportFirst ==
  Choose({i \in DOMAIN candidates : candidates[i].canExport}, "Exporting", "export")
DiscardFirst ==
  Choose({i \in DOMAIN candidates : candidates[i].canDiscard}, "Discarding", "discard")

(* A failed action leaves the candidates as they are; after a successful   *)
(* one the worker scans again.                                             *)
ActionFails == WorkerEnds("Ready", candidates)
ActionSucceeds == vpc' = "enumerate" /\ WorkerKeeps /\ UNCHANGED <<chosen, toScan, found>>
Continue(at) == vpc' = at /\ WorkerKeeps /\ UNCHANGED <<chosen, toScan, found>>

(* ExportRecoveredRecording: what there is to publish, write or promote.   *)
ExportBegin ==
  /\ WorkerAt("export")
  /\ \/ ActionFails
     \/ /\ ~Published(chosen.session)
        /\ IF chosen.hasMp4 /\ mp4Temp[chosen.session].content = "complete"
           THEN Continue("publishTemp")
           ELSE Continue(IF chosen.usesTemp THEN "promote" ELSE "plan")
  /\ UNCHANGED <<fileVars, mux>>

ExportPublishTemp ==
  /\ WorkerAt("publishTemp")
  /\ \/ PublishMp4("recovery", chosen.session) /\ ActionSucceeds
     \/ ActionFails /\ UNCHANGED fileVars
  /\ UNCHANGED mux

(* Mutant: a manifest that cannot be published is cleaned up.              *)
PromoteOrRemove ==
  /\ WorkerAt("promote")
  /\ LET s == chosen.session
     IN  \/ /\ manifestTemp[s] # "none" /\ ~manifest[s] /\ where[s] = "sessions"
            /\ manifest' = [manifest EXCEPT ![s] = TRUE]
            /\ manifestTemp' = [manifestTemp EXCEPT ![s] = "none"]
            /\ Continue("plan")
         \/ /\ ActionFails /\ UNCHANGED manifest
            /\ manifestTemp' = [manifestTemp EXCEPT ![s] = "none"]
  /\ UNCHANGED <<where, packets, mp4Temp, mp4, mux>>

ExportPromoteManifest ==
  /\ WorkerAt("promote")
  /\ LET s == chosen.session
     IN  \/ /\ manifestTemp[s] # "none" /\ ~manifest[s] /\ where[s] = "sessions"
            /\ manifest' = [manifest EXCEPT ![s] = TRUE]
            /\ manifestTemp' = [manifestTemp EXCEPT ![s] = "none"]
            /\ Continue("plan")
         \/ ActionFails /\ UNCHANGED <<manifest, manifestTemp>>
  /\ UNCHANGED <<where, packets, mp4Temp, mp4, mux>>

ExportPlan ==
  /\ WorkerAt("plan")
  /\ \/ /\ Readable(chosen.session) /\ Plannable(chosen.session)
        /\ Continue("mux") /\ MuxStart("recovery", chosen.session)
     \/ ActionFails /\ UNCHANGED mux
  /\ UNCHANGED fileVars

ExportEnds ==
  /\ WorkerAt("mux") /\ MuxEnded("recovery")
  /\ IF Muxing("recovery", "ok") THEN ActionSucceeds ELSE ActionFails
  /\ mux' = [mux EXCEPT !["recovery"] = Off]
  /\ UNCHANGED fileVars

(* The directory cannot be moved while the recorder has a file open in it. *)
InUse(s) ==
  \/ live = s /\ rpc \in {"recording", "manifest", "manifestWrite", "manifestPublish", "close"}
  \/ OpenByOther("recovery", s)

Discard ==
  /\ WorkerAt("discard")
  /\ \/ /\ where[chosen.session] = "sessions" /\ ~InUse(chosen.session)
        /\ where' = [where EXCEPT ![chosen.session] = "discarded"]
        /\ ActionSucceeds
     \/ ActionFails /\ UNCHANGED where
  /\ UNCHANGED <<packets, manifest, manifestTemp, mp4Temp, mp4, mux>>

RecoveryWorker ==
  \/ EnumerateSessions \/ ScanSession \/ ScanEnds \/ ScanFails
  \/ ExportBegin \/ ExportPublishTemp \/ ExportPromoteManifest \/ ExportPlan \/ ExportEnds
  \/ Discard
  \/ vpc = "mux" /\ Mux("recovery") /\ UNCHANGED <<processVars, recorderVars, recoveryVars>>

-----------------------------------------------------------------------------
(* After the last start of the process nothing more is looked at.          *)
Ended == ~running /\ boot = MaxBoots /\ UNCHANGED vars

Next ==
  \/ Boot \/ Crash \/ ShutdownBegin \/ Exit
  \/ Recorder \/ ExportFirst \/ DiscardFirst \/ RecoveryWorker \/ Ended

Spec == Init /\ [][Next]_vars

-----------------------------------------------------------------------------
(* Properties.                                                             *)

Candidate == [session: Sessions \cup {0}, usesTemp: BOOLEAN, hasMp4: BOOLEAN,
              canExport: BOOLEAN, canDiscard: BOOLEAN]

(* The type of every variable; a session that says it is busy has a worker,*)
(* and the muxer runs for whoever is at that step and for nobody else.     *)
TypeOK ==
  /\ FilesTypeOK
  /\ boot \in 0..MaxBoots /\ running \in BOOLEAN /\ shuttingDown \in BOOLEAN
  /\ rpc \in {"idle", "recording", "manifest", "manifestWrite", "manifestPublish",
              "close", "plan", "mux"}
  /\ live \in Sessions \cup {0} /\ born \in [Sessions -> 0..MaxBoots]
  /\ state \in {"Idle", "Scanning", "Ready", "Exporting", "Discarding", "Failed"}
  /\ candidates \in Seq(Candidate) /\ found \in Seq(Candidate)
  /\ vpc \in {"none", "enumerate", "scan", "export", "publishTemp", "promote", "plan",
              "mux", "discard"}
  /\ chosen \in Candidate /\ toScan \subseteq Sessions
  /\ live = 0 <=> rpc = "idle"
  /\ Muxing("recorder", "off") <=> rpc # "mux"
  /\ Muxing("recovery", "off") <=> vpc # "mux"
  /\ ~shuttingDown =>
       (state \in {"Scanning", "Exporting", "Discarding"} <=> vpc # "none")

(* What can be exported, by the recorder or by a recovery, with what is on *)
(* disk now.                                                               *)
Exportable(s) ==
  \/ Published(s) \/ mp4Temp[s].content = "complete"
  \/ (manifest[s] \/ manifestTemp[s] = "complete") /\ packets[s] = "some"

(* "Existing final outputs are never replaced"                             *)
(* (docs/implementation_gates.md:255), not even when the recorder and a    *)
(* recovery publish the same recording.                                    *)
PublishedIsFinal == [][\A s \in Sessions : Published(s) => mp4'[s] = mp4[s]]_vars

(* The MP4 that a recovery publishes of an interrupted recording is whole, *)
(* whatever was left by the crash and whatever failed since.  (Of a        *)
(* recording that is still live it may not be: see README.md.)             *)
PublishedIsWhole ==
  [][\A s \in Sessions :
       ~Published(s) /\ Published(s)' /\ born[s] < boot => mp4'[s].whole]_vars

(* No crash, failed step, retry or discard makes a recording that could be *)
(* exported one that no longer can.                                        *)
ExportableStays == [][\A s \in Sessions : Exportable(s) => Exportable(s)']_vars

(* Once the scan is over, every recording of an earlier run that can be    *)
(* exported is offered, if the limit on the scan lets it.                  *)
EveryInterruptedIsOffered ==
  state = "Ready" /\ Cardinality(Sessions) <= MaxScanned =>
    \A s \in Sessions :
      born[s] < boot /\ where[s] = "sessions" /\ Exportable(s) /\ ~Published(s) =>
        \E i \in DOMAIN candidates : candidates[i].session = s /\ candidates[i].canExport

(* "Failed actions keep the source candidate retryable"                    *)
(* (docs/implementation_gates.md:255): the manifest a candidate of an      *)
(* earlier run has to promote is still there to be promoted.               *)
CandidateRetryable ==
  state = "Ready" => \A i \in DOMAIN candidates :
    LET c == candidates[i]
    IN  c.canExport /\ c.usesTemp /\ born[c.session] < boot
          => manifestTemp[c.session] = "complete"
=============================================================================
