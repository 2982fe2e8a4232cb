---------------------------- MODULE RecoveryProofs ----------------------------
(***************************************************************************)
(* Proofs about Recovery, for any sessions, limit of the scan and number   *)
(* of starts of the process.                                               *)
(***************************************************************************)
EXTENDS Recovery, FiniteSetTheorems, TLAPS

(* A process that does not run does nothing.                               *)
ProcessInv == ~running => rpc = "idle" /\ vpc = "none"

(* A directory that was never created is empty; the recorder's has been,   *)
(* by this process.                                                        *)
DirectoryInv ==
  /\ \A s \in Sessions :
       where[s] = "none" => packets[s] = "none" /\ manifestTemp[s] = "none"
  /\ live # 0 => where[live] # "none" /\ born[live] = boot

(* Until the recorder has written its manifest no other one is at stake,   *)
(* and once it has published it there is one.                              *)
ManifestInv ==
  /\ rpc \in {"recording", "manifest", "manifestWrite"} =>
       manifestTemp[live] # "complete" \/ manifest[live]
  /\ rpc \in {"close", "plan", "mux"} => manifest[live]

MuxBusy == {"check", "remove", "open", "write", "publish"}

(* What is being muxed can be muxed again; the recorder muxes its own.     *)
MuxInv ==
  /\ \A p \in Processes :
       LET s == mux[p].session
       IN  mux[p].at \in MuxBusy /\ s \in Sessions => packets[s] = "some" /\ manifest[s]
  /\ rpc = "mux" => mux["recorder"].session = live

(* The temporary MP4 of an interrupted recording is whole when recovery is *)
(* about to publish it, for nobody else has touched it.                    *)
WholeInv ==
  \A s \in Sessions : born[s] < boot =>
    /\ vpc = "publishTemp" /\ chosen.session = s => mp4Temp[s].content = "complete"
    /\ mux["recovery"].session = s /\ Muxing("recovery", "write") =>
         mp4Temp[s].opener = "recovery"
    /\ mux["recovery"].session = s /\ Muxing("recovery", "publish") =>
         mp4Temp[s].content = "complete"

IInv == TypeOK /\ ProcessInv /\ DirectoryInv /\ ManifestInv /\ MuxInv /\ WholeInv

-----------------------------------------------------------------------------
(* The types.                                                              *)

Places == {"off", "check", "remove", "open", "write", "publish", "ok", "failed"}
Temps == [content: {"none", "partial", "complete"}, opener: Processes \cup {"nobody"}]
Mp4s  == [by: Processes \cup {"nobody"}, whole: BOOLEAN]

(* A move of the muxer is a change of its place and of nothing else.       *)
LEMMA MuxMoves ==
  ASSUME mux \in [Processes -> [at: Places, session: Sessions \cup {0}]],
         NEW p \in Processes, NEW at \in Places, MuxGoto(p, at)
  PROVE  /\ mux' \in [Processes -> [at: Places, session: Sessions \cup {0}]]
         /\ mux'[p].at = at /\ mux'[p].session = mux[p].session
         /\ \A q \in Processes \ {p} : mux'[q] = mux[q]
BY DEF MuxGoto

(* What a step of the muxer may change: its place, the temporary MP4 of    *)
(* the session it writes, and, when it publishes, the MP4.                 *)
LEMMA MuxSteps ==
  ASSUME FilesTypeOK, NEW p \in Processes, Mux(p)
  PROVE  /\ mux[p].at \in MuxBusy /\ (\E at \in Places \ {"off", "check"} : MuxGoto(p, at))
         /\ UNCHANGED <<where, packets, manifest, manifestTemp>>
         /\ \/ UNCHANGED <<mp4Temp, mp4>>
            \/ /\ \E temp \in Temps :
                    mp4Temp' = [mp4Temp EXCEPT ![mux[p].session] = temp]
               /\ mp4' = mp4
            \/ Muxing(p, "publish") /\ PublishMp4(p, mux[p].session)
<1> USE DEF Muxing, MuxBusy, Places, fileVars
<1>1. CASE MuxCheck(p)
  BY <1>1 DEF MuxCheck
<1>2. CASE MuxRemove(p)
  <2>1. NoTemp \in Temps
    BY DEF NoTemp, Temps
  <2> QED BY <1>2, <2>1 DEF MuxRemove
<1>3. CASE MuxOpen(p)
  <2>1. [content |-> "partial", opener |-> p] \in Temps
    BY DEF Temps
  <2> QED BY <1>3, <2>1 DEF MuxOpen
<1>4. CASE MuxWrite(p)
  <2> DEFINE s == mux[p].session
             temp == [mp4Temp[s] EXCEPT !.content = "complete"]
  <2>1. CASE mp4Temp[s].opener = p
    <3>1. mp4Temp' = [mp4Temp EXCEPT ![s] = temp]
      BY <1>4, <2>1 DEF MuxWrite
    <3>2. CASE s \in Sessions
      <4>0. mp4Temp[s] \in Temps
        BY <3>2 DEF FilesTypeOK, Temps
      <4>1. temp \in Temps
        BY <4>0 DEF Temps
      <4> QED BY <1>4, <3>1, <4>1 DEF MuxWrite
    <3>3. CASE s \notin Sessions
      <4>1. mp4Temp' = mp4Temp
        BY <3>1, <3>3 DEF FilesTypeOK
      <4> QED BY <1>4, <4>1 DEF MuxWrite
    <3> QED BY <3>2, <3>3
  <2>2. CASE mp4Temp[s].opener # p
    BY <1>4, <2>2 DEF MuxWrite
  <2> QED BY <2>1, <2>2
<1>5. CASE MuxFails(p)
  <2>1. NoTemp \in Temps
    BY DEF NoTemp, Temps
  <2> QED BY <1>5, <2>1 DEF MuxFails
<1>6. CASE MuxPublish(p)
  BY <1>6 DEF MuxPublish, PublishMp4
<1> QED BY <1>1, <1>2, <1>3, <1>4, <1>5, <1>6 DEF Mux

(* What the muxer does keeps the types of the files.                       *)
LEMMA MuxType ==
  ASSUME FilesTypeOK, NEW p \in Processes, Mux(p)
  PROVE  /\ FilesTypeOK' /\ mux'[p].at # "off" /\ mux[p].at # "off"
         /\ mux'[p].session = mux[p].session
         /\ \A q \in Processes \ {p} : mux'[q] = mux[q]
<1>1. /\ mux' \in [Processes -> [at: Places, session: Sessions \cup {0}]]
      /\ mux'[p].at # "off" /\ mux'[p].session = mux[p].session
      /\ \A q \in Processes \ {p} : mux'[q] = mux[q]
  BY MuxSteps, MuxMoves DEF FilesTypeOK, Places
<1>2. mux[p].at # "off"
  BY MuxSteps DEF MuxBusy
<1>3. mp4Temp' \in [Sessions -> Temps]
  <2>1. mp4Temp \in [Sessions -> Temps]
    BY DEF FilesTypeOK, Temps
  <2>2. NoTemp \in Temps
    BY DEF NoTemp, Temps
  <2>3. \/ mp4Temp' = mp4Temp
        \/ \E temp \in Temps : mp4Temp' = [mp4Temp EXCEPT ![mux[p].session] = temp]
    BY <2>2, MuxSteps DEF PublishMp4
  <2> QED BY <2>1, <2>3
<1>4. mp4' \in [Sessions -> Mp4s]
  <2>1. mp4 \in [Sessions -> Mp4s]
    BY DEF FilesTypeOK, Mp4s
  <2>2. \A b \in BOOLEAN : [by |-> p, whole |-> b] \in Mp4s
    BY DEF Mp4s
  <2>3. \/ mp4' = mp4
        \/ \E new \in Mp4s : mp4' = [mp4 EXCEPT ![mux[p].session] = new]
    BY <2>2, MuxSteps DEF PublishMp4
  <2> QED BY <2>1, <2>3
<1> QED BY <1>1, <1>2, <1>3, <1>4, MuxSteps DEF FilesTypeOK, Places, Temps, Mp4s

(* A step that leaves files and muxer alone keeps their types.             *)
LEMMA FilesKept ==
  FilesTypeOK /\ UNCHANGED <<fileVars, mux>> => FilesTypeOK'
BY DEF FilesTypeOK, fileVars

(* What a scan finds of a session is a candidate.                          *)
LEMMA InspectType ==
  ASSUME FilesTypeOK, NEW s \in Sessions
  PROVE  InspectSession(s) \in Candidate
BY DEF InspectSession, Candidate, NoCandidate, FilesTypeOK, Readable, Plannable

LEMMA NoCandidateType == NoCandidate \in Candidate
BY DEF NoCandidate, Candidate

(* The end of a worker's job keeps the types.                              *)
LEMMA WorkerEndsType ==
  ASSUME TypeOK, FilesTypeOK', mux'["recovery"].at = "off", 
         mux'["recorder"].at = mux["recorder"].at,
         NEW newState \in {"Ready", "Failed"}, NEW cs \in Seq(Candidate),
         WorkerEnds(newState, cs)
  PROVE  TypeOK'
BY NoCandidateType DEF TypeOK, WorkerEnds, processVars, recorderVars, Muxing

(* So does going on with an action, or from it to a new scan.              *)
LEMMA WorkerGoesOnType ==
  ASSUME TypeOK, FilesTypeOK', vpc # "none", mux'["recorder"].at = mux["recorder"].at,
         NEW at \in {"enumerate", "publishTemp", "promote", "plan", "mux"}, vpc' = at,
         mux'["recovery"].at = "off" <=> at # "mux", WorkerKeeps,
         UNCHANGED <<chosen, toScan, found>>
  PROVE  TypeOK'
BY DEF TypeOK, WorkerKeeps, processVars, recorderVars, Muxing

(* So does a step of the recorder.                                         *)
LEMMA RecorderGoesOnType ==
  ASSUME TypeOK, FilesTypeOK', rpc # "idle", mux'["recovery"].at = mux["recovery"].at,
         NEW at \in {"idle", "recording", "manifest", "manifestWrite",
                     "manifestPublish", "close", "plan", "mux"}, RecorderGoto(at),
         mux'["recorder"].at = "off" <=> at # "mux"
  PROVE  TypeOK'
BY DEF TypeOK, RecorderGoto, processVars, recoveryVars, workerVars, Muxing

(* The recorder's steps keep the types.                                    *)
LEMMA RecorderType ==
  ASSUME RecoveryAssumption, TypeOK, Recorder
  PROVE  TypeOK'
<1>0. FilesTypeOK /\ (Muxing("recorder", "off") <=> rpc # "mux")
  BY DEF TypeOK
<1>1. ASSUME NEW s \in Sessions, CreateSession(s)
      PROVE  TypeOK'
  <2>1. FilesTypeOK'
    BY <1>1, <1>0 DEF CreateSession, FilesTypeOK
  <2> QED BY <1>1, <2>1 DEF CreateSession, TypeOK, RecoveryAssumption, RecorderAt,
    processVars, recoveryVars, workerVars, Muxing
<1>2. CASE StorePackets
  <2>1. FilesTypeOK'
    BY <1>2, <1>0 DEF StorePackets, FilesTypeOK
  <2> QED BY <1>2, <1>0, <2>1, RecorderGoesOnType DEF StorePackets, RecorderAt, Muxing
<1>3. CASE StopRecording
  <2>1. FilesTypeOK'
    BY <1>3, <1>0, FilesKept DEF StopRecording
  <2> QED BY <1>3, <1>0, <2>1, RecorderGoesOnType DEF StopRecording, RecorderAt, Muxing
<1>4. CASE OpenManifest
  <2>1. FilesTypeOK'
    BY <1>4, <1>0 DEF OpenManifest, FilesTypeOK
  <2> QED BY <1>4, <1>0, <2>1, RecorderGoesOnType DEF OpenManifest, RecorderAt, Muxing
<1>5. CASE WriteManifest
  <2>1. FilesTypeOK'
    BY <1>5, <1>0 DEF WriteManifest, FilesTypeOK
  <2> QED BY <1>5, <1>0, <2>1, RecorderGoesOnType DEF WriteManifest, RecorderAt, Muxing
<1>6. CASE PublishManifest
  <2>1. FilesTypeOK'
    BY <1>6, <1>0 DEF PublishManifest, FilesTypeOK
  <2> QED BY <1>6, <1>0, <2>1, RecorderGoesOnType DEF PublishManifest, RecorderAt, Muxing
<1>7. CASE CloseStore
  <2>1. FilesTypeOK'
    BY <1>7, <1>0, FilesKept DEF CloseStore
  <2> QED BY <1>7, <1>0, <2>1, RecorderGoesOnType DEF CloseStore, RecorderAt, Muxing
<1>8. CASE PlanExport
  <2>0. rpc = "plan" /\ live \in Sessions \cup {0}
    BY <1>8 DEF PlanExport, RecorderAt, TypeOK
  <2>1. CASE RecorderGoto("mux") /\ MuxStart("recorder", live)
    <3>1. /\ mux' \in [Processes -> [at: Places, session: Sessions \cup {0}]]
          /\ mux'["recorder"].at # "off" /\ mux'["recovery"] = mux["recovery"]
      BY <2>0, <2>1, <1>0 DEF MuxStart, FilesTypeOK, Places, Processes
    <3>2. FilesTypeOK'
      BY <1>8, <1>0, <3>1 DEF PlanExport, FilesTypeOK, fileVars, Places
    <3> QED BY <2>0, <2>1, <3>1, <3>2, RecorderGoesOnType
  <2>2. CASE RecorderGoto("idle") /\ UNCHANGED mux
    <3>1. FilesTypeOK'
      BY <1>8, <1>0, <2>2, FilesKept DEF PlanExport
    <3> QED BY <1>0, <2>0, <2>2, <3>1, RecorderGoesOnType DEF Muxing
  <2> QED BY <1>8, <2>1, <2>2 DEF PlanExport
<1>9. CASE RecorderDone
  <2>1. /\ mux' \in [Processes -> [at: Places, session: Sessions \cup {0}]]
        /\ mux'["recorder"].at = "off" /\ mux'["recovery"] = mux["recovery"]
    BY <1>9, <1>0 DEF RecorderDone, FilesTypeOK, Places, Processes, Off
  <2>2. FilesTypeOK'
    BY <1>9, <1>0, <2>1 DEF RecorderDone, FilesTypeOK, fileVars, Places
  <2> QED BY <1>9, <2>1, <2>2, RecorderGoesOnType DEF RecorderDone, RecorderAt
<1>10. CASE rpc = "mux" /\ Mux("recorder")
            /\ UNCHANGED <<processVars, recorderVars, recoveryVars>>
  <2>1. FilesTypeOK' /\ mux'["recorder"].at # "off" /\ mux'["recovery"] = mux["recovery"]
    BY <1>10, <1>0, MuxType DEF Processes
  <2> QED BY <1>10, <2>1 DEF TypeOK, Muxing, processVars, recorderVars, recoveryVars,
    workerVars
<1> QED BY <1>1, <1>2, <1>3, <1>4, <1>5, <1>6, <1>7, <1>8, <1>9, <1>10 DEF Recorder

(* So do the steps of the recovery worker.                                 *)
LEMMA WorkerType ==
  ASSUME TypeOK, RecoveryWorker
  PROVE  TypeOK'
<1>0. /\ FilesTypeOK /\ (mux["recovery"].at = "off" <=> vpc # "mux")
      /\ candidates \in Seq(Candidate) /\ found \in Seq(Candidate)
      /\ <<>> \in Seq(Candidate)
  BY DEF TypeOK, Muxing
<1> USE DEF WorkerAt
<1>1. CASE EnumerateSessions
  <2>1. FilesTypeOK'
    BY <1>1, <1>0, FilesKept DEF EnumerateSessions
  <2> QED BY <1>1, <1>0, <2>1 DEF EnumerateSessions, TypeOK, WorkerKeeps, processVars,
    recorderVars, Muxing, Directories
<1>2. CASE ScanSession
  <2>1. FilesTypeOK'
    BY <1>2, <1>0, FilesKept DEF ScanSession
  <2>2. found' \in Seq(Candidate) /\ toScan' \subseteq Sessions
    BY <1>2, <1>0, InspectType DEF ScanSession, TypeOK
  <2> QED BY <1>2, <2>1, <2>2 DEF ScanSession, TypeOK, WorkerKeeps, processVars,
    recorderVars, Muxing
<1>3. CASE ScanEnds
  <2>1. FilesTypeOK'
    BY <1>3, <1>0, FilesKept DEF ScanEnds
  <2> QED BY <1>3, <1>0, <2>1, WorkerEndsType DEF ScanEnds
<1>4. CASE ScanFails
  <2>1. FilesTypeOK'
    BY <1>4, <1>0, FilesKept DEF ScanFails
  <2> QED BY <1>4, <1>0, <2>1, WorkerEndsType DEF ScanFails
<1>5. CASE ExportBegin
  <2>1. FilesTypeOK' /\ mux' = mux
    BY <1>5, <1>0, FilesKept DEF ExportBegin
  <2>2. CASE ActionFails
    BY <1>5, <1>0, <2>1, <2>2, WorkerEndsType DEF ExportBegin, ActionFails
  <2>3. ASSUME NEW at \in {"publishTemp", "promote", "plan"}, Continue(at)
        PROVE  TypeOK'
    BY <1>5, <1>0, <2>1, <2>3, WorkerGoesOnType DEF ExportBegin, Continue
  <2> QED BY <1>5, <2>2, <2>3 DEF ExportBegin
<1>6. CASE ExportPublishTemp
  <2>1. CASE PublishMp4("recovery", chosen.session) /\ ActionSucceeds
    <3>1. FilesTypeOK'
      BY <1>6, <1>0, <2>1 DEF ExportPublishTemp, PublishMp4, FilesTypeOK, NoTemp, Processes
    <3> QED BY <1>6, <1>0, <2>1, <3>1, WorkerGoesOnType
      DEF ExportPublishTemp, ActionSucceeds
  <2>2. CASE ActionFails /\ UNCHANGED fileVars
    <3>1. FilesTypeOK'
      BY <1>6, <1>0, <2>2, FilesKept DEF ExportPublishTemp
    <3> QED BY <1>6, <1>0, <2>2, <3>1, WorkerEndsType DEF ExportPublishTemp, ActionFails
  <2> QED BY <1>6, <2>1, <2>2 DEF ExportPublishTemp
<1>7. CASE ExportPromoteManifest
  <2>1. FilesTypeOK'
    BY <1>7, <1>0 DEF ExportPromoteManifest, FilesTypeOK
  <2>2. CASE Continue("plan")
    BY <1>7, <1>0, <2>1, <2>2, WorkerGoesOnType DEF ExportPromoteManifest, Continue
  <2>3. CASE ActionFails
    BY <1>7, <1>0, <2>1, <2>3, WorkerEndsType DEF ExportPromoteManifest, ActionFails
  <2> QED BY <1>7, <2>2, <2>3 DEF ExportPromoteManifest
<1>8. CASE ExportPlan
  <2>1. CASE Continue("mux") /\ MuxStart("recovery", chosen.session)
    <3>1. chosen.session \in Sessions \cup {0}
      BY DEF TypeOK, Candidate
    <3>2. /\ mux' \in [Processes -> [at: Places, session: Sessions \cup {0}]]
          /\ mux'["recovery"].at # "off" /\ mux'["recorder"] = mux["recorder"]
      BY <2>1, <3>1, <1>0 DEF MuxStart, FilesTypeOK, Places, Processes
    <3>3. FilesTypeOK'
      BY <1>8, <1>0, <3>2 DEF ExportPlan, FilesTypeOK, fileVars, Places
    <3> QED BY <1>8, <2>1, <3>2, <3>3, WorkerGoesOnType DEF ExportPlan, Continue
  <2>2. CASE ActionFails /\ UNCHANGED mux
    <3>1. FilesTypeOK'
      BY <1>8, <1>0, <2>2, FilesKept DEF ExportPlan
    <3> QED BY <1>8, <1>0, <2>2, <3>1, WorkerEndsType DEF ExportPlan, ActionFails
  <2> QED BY <1>8, <2>1, <2>2 DEF ExportPlan
<1>9. CASE ExportEnds
  <2>1. /\ mux' \in [Processes -> [at: Places, session: Sessions \cup {0}]]
        /\ mux'["recovery"].at = "off" /\ mux'["recorder"] = mux["recorder"]
    BY <1>9, <1>0 DEF ExportEnds, FilesTypeOK, Places, Processes, Off
  <2>2. FilesTypeOK'
    BY <1>9, <1>0, <2>1 DEF ExportEnds, FilesTypeOK, fileVars, Places
  <2>3. CASE ActionSucceeds
    BY <1>9, <2>1, <2>2, <2>3, WorkerGoesOnType DEF ExportEnds, ActionSucceeds
  <2>4. CASE ActionFails
    BY <1>9, <1>0, <2>1, <2>2, <2>4, WorkerEndsType DEF ExportEnds, ActionFails
  <2> QED BY <1>9, <2>3, <2>4 DEF ExportEnds
<1>10. CASE Discard
  <2>1. FilesTypeOK'
    BY <1>10, <1>0 DEF Discard, FilesTypeOK
  <2>2. CASE ActionSucceeds
    BY <1>10, <1>0, <2>1, <2>2, WorkerGoesOnType DEF Discard, ActionSucceeds
  <2>3. CASE ActionFails
    BY <1>10, <1>0, <2>1, <2>3, WorkerEndsType DEF Discard, ActionFails
  <2> QED BY <1>10, <2>2, <2>3 DEF Discard
<1>11. CASE vpc = "mux" /\ Mux("recovery")
            /\ UNCHANGED <<processVars, recorderVars, recoveryVars>>
  <2>1. FilesTypeOK' /\ mux'["recovery"].at # "off" /\ mux'["recorder"] = mux["recorder"]
    BY <1>11, <1>0, MuxType DEF Processes
  <2> QED BY <1>11, <2>1 DEF TypeOK, Muxing, processVars, recorderVars, recoveryVars,
    workerVars
<1> QED BY <1>1, <1>2, <1>3, <1>4, <1>5, <1>6, <1>7, <1>8, <1>9, <1>10, <1>11
     DEF RecoveryWorker

(* The commands choose one of the candidates.                              *)
LEMMA ChooseType ==
  ASSUME TypeOK, NEW able \in SUBSET DOMAIN candidates, NEW step \in {"export", "discard"},
         NEW busy \in {"Exporting", "Discarding"}, Choose(able, busy, step)
  PROVE  TypeOK'
<1>1. FilesTypeOK'
  BY FilesKept DEF Choose, TypeOK
<1>2. \A i \in able : candidates[i] \in Candidate
  BY DEF TypeOK
<1> QED BY <1>1, <1>2 DEF Choose, TypeOK, processVars, recorderVars, Muxing

LEMMA StopsType ==
  ASSUME TypeOK, Stops
  PROVE  TypeOK'
<1>1. FilesTypeOK'
  <2>1. mux' \in [Processes -> [at: Places, session: Sessions \cup {0}]]
    BY DEF Stops, Off, Places
  <2> QED BY <2>1 DEF Stops, TypeOK, FilesTypeOK, fileVars, Places
<1>2. \A p \in Processes : mux'[p].at = "off"
  BY DEF Stops, Off
<1>3. <<>> \in Seq(Candidate)
  OBVIOUS
<1> QED BY <1>1, <1>2, <1>3, NoCandidateType DEF Stops, TypeOK, Muxing, Processes

(* Every step keeps the types.                                             *)
LEMMA TypeStep ==
  ASSUME RecoveryAssumption, TypeOK, ProcessInv, [Next]_vars
  PROVE  TypeOK'
<1>1. CASE Boot
  <2>1. FilesTypeOK'
    BY <1>1, FilesKept DEF Boot, TypeOK
  <2>2. <<>> \in Seq(Candidate)
    OBVIOUS
  <2>3. Muxing("recorder", "off") /\ Muxing("recovery", "off") /\ rpc = "idle" /\ live = 0
    BY <1>1 DEF Boot, TypeOK, ProcessInv
  <2>4. mux' = mux /\ rpc' = rpc /\ live' = live /\ born' = born /\ boot' \in 0..MaxBoots
    BY <1>1 DEF Boot, recorderVars, TypeOK, RecoveryAssumption
  <2> QED BY <1>1, <2>1, <2>2, <2>3, <2>4 DEF Boot, TypeOK, Muxing
<1>2. CASE Crash \/ Exit
  BY <1>2, StopsType DEF Crash, Exit
<1>3. CASE ShutdownBegin
  <2>1. FilesTypeOK'
    BY <1>3, FilesKept DEF ShutdownBegin, TypeOK
  <2> QED BY <1>3, <2>1 DEF ShutdownBegin, TypeOK, recorderVars, recoveryVars,
    workerVars, Muxing
<1>4. CASE Recorder
  BY <1>4, RecorderType
<1>5. CASE ExportFirst
  BY <1>5, ChooseType DEF ExportFirst
<1>6. CASE DiscardFirst
  BY <1>6, ChooseType DEF DiscardFirst
<1>7. CASE RecoveryWorker
  BY <1>7, WorkerType
<1>8. CASE UNCHANGED vars
  <2>1. FilesTypeOK'
    BY <1>8, FilesKept DEF vars, TypeOK
  <2> QED BY <1>8, <2>1 DEF vars, TypeOK, processVars, recorderVars, recoveryVars,
    workerVars, Muxing
<1> QED BY <1>1, <1>2, <1>3, <1>4, <1>5, <1>6, <1>7, <1>8 DEF Next, Ended

LEMMA TypeInit == RecoveryAssumption /\ Init => TypeOK
<1> SUFFICES ASSUME RecoveryAssumption, Init PROVE TypeOK
  OBVIOUS
<1>1. FilesTypeOK
  BY DEF Init, FilesInit, FilesTypeOK, NoTemp, NoMp4, Off
<1>2. <<>> \in Seq(Candidate)
  OBVIOUS
<1>3. mux["recorder"].at = "off" /\ mux["recovery"].at = "off"
  BY DEF Init, FilesInit, Off, Processes
<1>4. boot \in 0..MaxBoots /\ born \in [Sessions -> 0..MaxBoots]
  BY DEF Init, RecoveryAssumption
<1>5. chosen \in Candidate /\ candidates \in Seq(Candidate) /\ found \in Seq(Candidate)
  BY <1>2, NoCandidateType DEF Init
<1> QED BY <1>1, <1>3, <1>4, <1>5 DEF Init, TypeOK, Muxing

-----------------------------------------------------------------------------
(* The invariant.                                                          *)

(* Recorder and recovery do not touch each other's variables, nor the      *)
(* process.                                                                *)
LEMMA RecorderFrame ==
  Recorder /\ ProcessInv => running /\ UNCHANGED <<processVars, recoveryVars>>
BY DEF Recorder, ProcessInv, CreateSession, StorePackets, StopRecording, OpenManifest,
  WriteManifest, PublishManifest, CloseStore, PlanExport, RecorderDone, RecorderAt,
  RecorderGoto

LEMMA RecoveryFrame ==
  (RecoveryWorker \/ ExportFirst \/ DiscardFirst) /\ ProcessInv
    => running /\ UNCHANGED <<processVars, recorderVars>>
BY DEF RecoveryWorker, ExportFirst, DiscardFirst, Choose, ProcessInv, EnumerateSessions,
  ScanSession, ScanEnds, ScanFails, ExportBegin, ExportPublishTemp,
  ExportPromoteManifest, ExportPlan, ExportEnds, Discard, WorkerAt, WorkerKeeps,
  WorkerEnds, ActionFails, ActionSucceeds, Continue

(* What recovery may do to the files of a session outside of the muxer.    *)
LEMMA RecoveryFiles ==
  ASSUME TypeOK, RecoveryWorker \/ ExportFirst \/ DiscardFirst, NEW s \in Sessions
  PROVE  /\ packets'[s] = packets[s]
         /\ where'[s] = where[s] \/ (where[s] = "sessions" /\ where'[s] = "discarded")
         /\ \/ manifest'[s] = manifest[s] /\ manifestTemp'[s] = manifestTemp[s]
            \/ manifest'[s] /\ where[s] = "sessions" /\ manifestTemp'[s] = "none"
<1>1. FilesTypeOK
  BY DEF TypeOK
<1>2. CASE UNCHANGED fileVars
  BY <1>2 DEF fileVars
<1>3. CASE ExportPublishTemp
  BY <1>3 DEF ExportPublishTemp, PublishMp4, fileVars
<1>4. CASE ExportPromoteManifest
  BY <1>1, <1>4 DEF ExportPromoteManifest, FilesTypeOK
<1>5. CASE Discard
  BY <1>1, <1>5 DEF Discard, FilesTypeOK
<1>6. CASE Mux("recovery")
  BY <1>1, <1>6, MuxSteps DEF Processes
<1> QED BY <1>2, <1>3, <1>4, <1>5, <1>6 DEF RecoveryWorker, ExportFirst, DiscardFirst,
      Choose, EnumerateSessions, ScanSession, ScanEnds, ScanFails, ExportBegin,
      ExportPlan, ExportEnds

LEMMA ProcessStep ==
  ASSUME ProcessInv, [Next]_vars
  PROVE  ProcessInv'
<1>1. CASE Boot
  BY <1>1 DEF Boot, ProcessInv
<1>2. CASE Crash \/ Exit
  BY <1>2 DEF Crash, Exit, Stops, ProcessInv
<1>3. CASE ShutdownBegin
  BY <1>3 DEF ShutdownBegin, ProcessInv
<1>4. CASE Recorder
  BY <1>4, RecorderFrame DEF ProcessInv, processVars
<1>5. CASE RecoveryWorker \/ ExportFirst \/ DiscardFirst
  BY <1>5, RecoveryFrame DEF ProcessInv, processVars
<1>6. CASE UNCHANGED vars
  BY <1>6 DEF vars, processVars, recorderVars, recoveryVars, workerVars, ProcessInv
<1> QED BY <1>1, <1>2, <1>3, <1>4, <1>5, <1>6 DEF Next, Ended

LEMMA DirectoryStep ==
  ASSUME RecoveryAssumption, TypeOK, ProcessInv, DirectoryInv, [Next]_vars
  PROVE  DirectoryInv'
<1>0. FilesTypeOK /\ (live = 0 <=> rpc = "idle") /\ live \in Sessions \cup {0} /\ 0 \notin Sessions
  BY DEF TypeOK, RecoveryAssumption
<1> USE DEF RecorderAt, RecorderGoto
<1>1. CASE Boot
  BY <1>0, <1>1 DEF Boot, ProcessInv, DirectoryInv, fileVars, recorderVars
<1>2. CASE Crash \/ Exit
  BY <1>2 DEF Crash, Exit, Stops, DirectoryInv, fileVars
<1>3. CASE ShutdownBegin
  BY <1>3 DEF ShutdownBegin, DirectoryInv, fileVars, recorderVars
<1>4. ASSUME NEW s \in Sessions, CreateSession(s)
      PROVE  DirectoryInv'
  BY <1>0, <1>4 DEF CreateSession, DirectoryInv, FilesTypeOK, TypeOK, processVars
<1>5. CASE StorePackets
  BY <1>0, <1>5 DEF StorePackets, DirectoryInv, FilesTypeOK, processVars
<1>6. CASE OpenManifest
  BY <1>0, <1>6 DEF OpenManifest, DirectoryInv, FilesTypeOK, processVars
<1>7. CASE WriteManifest
  BY <1>0, <1>7 DEF WriteManifest, DirectoryInv, FilesTypeOK, processVars
<1>8. CASE PublishManifest
  BY <1>0, <1>8 DEF PublishManifest, DirectoryInv, FilesTypeOK, processVars
<1>9. CASE StopRecording \/ CloseStore \/ PlanExport \/ RecorderDone
  BY <1>9 DEF StopRecording, CloseStore, PlanExport, RecorderDone, DirectoryInv,
    fileVars, processVars
<1>10. CASE rpc = "mux" /\ Mux("recorder")
             /\ UNCHANGED <<processVars, recorderVars, recoveryVars>>
  BY <1>0, <1>10, MuxSteps DEF DirectoryInv, Processes, processVars, recorderVars
<1>11. CASE RecoveryWorker \/ ExportFirst \/ DiscardFirst
  <2>1. UNCHANGED <<boot, live, born>>
    BY <1>11, RecoveryFrame DEF processVars, recorderVars
  <2> QED BY <1>0, <1>11, <2>1, RecoveryFiles DEF DirectoryInv
<1>12. CASE UNCHANGED vars
  BY <1>12 DEF vars, processVars, recorderVars, fileVars, DirectoryInv
<1> QED BY <1>1, <1>2, <1>3, <1>4, <1>5, <1>6, <1>7, <1>8, <1>9, <1>10, <1>11, <1>12
     DEF Next, Recorder, Ended

LEMMA ManifestStep ==
  ASSUME RecoveryAssumption, TypeOK, ProcessInv, DirectoryInv, ManifestInv, [Next]_vars
  PROVE  ManifestInv'
<1>0. FilesTypeOK /\ (live = 0 <=> rpc = "idle") /\ live \in Sessions \cup {0} /\ 0 \notin Sessions
  BY DEF TypeOK, RecoveryAssumption
<1> USE DEF RecorderAt, RecorderGoto
<1>1. CASE Boot
  BY <1>1 DEF Boot, ManifestInv, fileVars, recorderVars
<1>2. CASE Crash \/ Exit
  BY <1>2 DEF Crash, Exit, Stops, ManifestInv
<1>3. CASE ShutdownBegin
  BY <1>3 DEF ShutdownBegin, ManifestInv, fileVars, recorderVars
<1>4. ASSUME NEW s \in Sessions, CreateSession(s)
      PROVE  ManifestInv'
  BY <1>0, <1>4 DEF CreateSession, DirectoryInv, ManifestInv
<1>5. CASE StorePackets
  BY <1>0, <1>5 DEF StorePackets, ManifestInv
<1>6. CASE OpenManifest
  BY <1>0, <1>6 DEF OpenManifest, ManifestInv, FilesTypeOK
<1>7. CASE WriteManifest
  BY <1>0, <1>7 DEF WriteManifest, ManifestInv, FilesTypeOK
<1>8. CASE PublishManifest
  BY <1>0, <1>8 DEF PublishManifest, ManifestInv, FilesTypeOK
<1>9. CASE StopRecording \/ CloseStore \/ PlanExport \/ RecorderDone
  BY <1>9 DEF StopRecording, CloseStore, PlanExport, RecorderDone, ManifestInv, fileVars
<1>10. CASE rpc = "mux" /\ Mux("recorder")
             /\ UNCHANGED <<processVars, recorderVars, recoveryVars>>
  BY <1>0, <1>10, MuxSteps DEF ManifestInv, Processes, recorderVars
<1>11. CASE RecoveryWorker \/ ExportFirst \/ DiscardFirst
  <2>1. UNCHANGED <<rpc, live>>
    BY <1>11, RecoveryFrame DEF processVars, recorderVars
  <2> QED BY <1>0, <1>11, <2>1, RecoveryFiles DEF ManifestInv
<1>12. CASE UNCHANGED vars
  BY <1>12 DEF vars, recorderVars, fileVars, ManifestInv
<1> QED BY <1>1, <1>2, <1>3, <1>4, <1>5, <1>6, <1>7, <1>8, <1>9, <1>10, <1>11, <1>12
     DEF Next, Recorder, Ended

(* A step of the muxer starts from a busy place and goes to a later one.   *)
LEMMA MuxKeeps ==
  ASSUME FilesTypeOK, MuxInv, NEW p \in Processes, Mux(p), UNCHANGED <<rpc, live>>
  PROVE  MuxInv'
<1>1. /\ UNCHANGED <<packets, manifest>> /\ mux[p].at \in MuxBusy
      /\ \A q \in Processes : mux'[q].session = mux[q].session
      /\ \A q \in Processes \ {p} : mux'[q] = mux[q]
  BY MuxSteps, MuxType
<1> QED BY <1>1 DEF MuxInv, Processes

LEMMA MuxStep ==
  ASSUME RecoveryAssumption, TypeOK, ProcessInv, DirectoryInv, ManifestInv, MuxInv,
         [Next]_vars
  PROVE  MuxInv'
<1>0. /\ FilesTypeOK /\ live \in Sessions \cup {0}
      /\ Muxing("recorder", "off") <=> rpc # "mux"
      /\ Muxing("recovery", "off") <=> vpc # "mux"
  BY DEF TypeOK
<1> USE DEF RecorderAt, RecorderGoto
<1>1. CASE Boot
  BY <1>1 DEF Boot, MuxInv, fileVars, recorderVars
<1>2. CASE Crash \/ Exit
  BY <1>2 DEF Crash, Exit, Stops, MuxInv, MuxBusy, Off
<1>3. CASE ShutdownBegin
  BY <1>3 DEF ShutdownBegin, MuxInv, fileVars, recorderVars
<1>4. ASSUME NEW s \in Sessions, CreateSession(s)
      PROVE  MuxInv'
  <2>1. packets[s] = "none" /\ packets' = [packets EXCEPT ![s] = "empty"]
    BY <1>4 DEF CreateSession, DirectoryInv
  <2>2. \A r \in Sessions : packets[r] = "some" => packets'[r] = "some"
    BY <2>1, <1>0 DEF FilesTypeOK
  <2> QED BY <1>4, <2>2 DEF CreateSession, MuxInv
<1>5. CASE StorePackets
  <2>1. \A r \in Sessions : packets[r] = "some" => packets'[r] = "some"
    BY <1>5, <1>0 DEF StorePackets, FilesTypeOK
  <2> QED BY <1>5, <2>1 DEF StorePackets, MuxInv
<1>6. CASE OpenManifest \/ WriteManifest
  BY <1>6 DEF OpenManifest, WriteManifest, MuxInv
<1>7. CASE PublishManifest
  <2>1. \A r \in Sessions : manifest[r] => manifest'[r]
    BY <1>7, <1>0 DEF PublishManifest, FilesTypeOK
  <2> QED BY <1>7, <2>1 DEF PublishManifest, MuxInv
<1>8. CASE StopRecording \/ CloseStore
  BY <1>8 DEF StopRecording, CloseStore, MuxInv, fileVars
<1>9. CASE PlanExport
  <2>1. CASE Plannable(live) /\ RecorderGoto("mux") /\ MuxStart("recorder", live)
    <3>1. mux'["recorder"].session = live /\ mux'["recovery"] = mux["recovery"]
      BY <2>1, <1>0 DEF MuxStart, FilesTypeOK, Processes
    <3>2. packets[live] = "some" /\ manifest[live] /\ rpc' = "mux" /\ live' = live
      BY <1>9, <2>1 DEF PlanExport, Plannable, ManifestInv
    <3> QED BY <1>9, <3>1, <3>2 DEF PlanExport, MuxInv, Processes, fileVars
  <2>2. CASE RecorderGoto("idle") /\ UNCHANGED mux
    BY <1>9, <2>2 DEF PlanExport, MuxInv, fileVars
  <2> QED BY <1>9, <2>1, <2>2 DEF PlanExport
<1>10. CASE RecorderDone
  <2>1. mux'["recorder"].at = "off" /\ mux'["recovery"] = mux["recovery"]
    BY <1>10, <1>0 DEF RecorderDone, FilesTypeOK, Processes, Off
  <2> QED BY <1>10, <2>1 DEF RecorderDone, MuxInv, MuxBusy, Processes, fileVars
<1>11. CASE rpc = "mux" /\ Mux("recorder")
             /\ UNCHANGED <<processVars, recorderVars, recoveryVars>>
  BY <1>0, <1>11, MuxKeeps DEF Processes, recorderVars
<1>12. CASE RecoveryWorker \/ ExportFirst \/ DiscardFirst
  <2>1. UNCHANGED <<rpc, live>>
    BY <1>12, RecoveryFrame DEF recorderVars
  <2>2. \A r \in Sessions : packets'[r] = packets[r] /\ (manifest[r] => manifest'[r])
    BY <1>12, RecoveryFiles
  <2>3. CASE UNCHANGED mux
    BY <2>1, <2>2, <2>3 DEF MuxInv
  <2>4. CASE Mux("recovery")
    BY <1>0, <2>1, <2>4, MuxKeeps DEF Processes
  <2>5. CASE ExportPlan /\ MuxStart("recovery", chosen.session)
                        /\ Readable(chosen.session) /\ Plannable(chosen.session)
    <3>1. mux'["recovery"].session = chosen.session /\ mux'["recorder"] = mux["recorder"]
      BY <2>5, <1>0 DEF MuxStart, FilesTypeOK, Processes
    <3>2. packets[chosen.session] = "some" /\ manifest[chosen.session]
      BY <2>5 DEF Readable, Plannable
    <3>3. ASSUME NEW p \in Processes, mux'[p].at \in MuxBusy, mux'[p].session \in Sessions
          PROVE  packets'[mux'[p].session] = "some" /\ manifest'[mux'[p].session]
      <4>1. CASE p = "recovery"
        BY <2>2, <3>1, <3>2, <3>3, <4>1
      <4>2. CASE p = "recorder"
        BY <2>2, <3>1, <3>3, <4>2 DEF MuxInv, Processes
      <4> QED BY <4>1, <4>2 DEF Processes
    <3> QED BY <2>1, <3>1, <3>3 DEF MuxInv
  <2>6. CASE ExportEnds
    <3>1. mux'["recovery"].at = "off" /\ mux'["recorder"] = mux["recorder"]
      BY <2>6, <1>0 DEF ExportEnds, FilesTypeOK, Processes, Off
    <3> QED BY <2>1, <2>2, <3>1 DEF MuxInv, MuxBusy, Processes
  <2> QED BY <1>12, <2>3, <2>4, <2>5, <2>6 DEF RecoveryWorker, ExportFirst, DiscardFirst,
        Choose, EnumerateSessions, ScanSession, ScanEnds, ScanFails, ExportBegin,
        ExportPublishTemp, ExportPromoteManifest, ExportPlan, Discard
<1>13. CASE UNCHANGED vars
  BY <1>13 DEF vars, recorderVars, fileVars, MuxInv
<1> QED BY <1>1, <1>2, <1>3, <1>4, <1>5, <1>6, <1>7, <1>8, <1>9, <1>10, <1>11, <1>12,
      <1>13 DEF Next, Recorder, Ended

(* The recorder touches no temporary MP4 but that of its own session, and  *)
(* leaves recovery's place in the muxer alone.                             *)
LEMMA RecorderTemps ==
  ASSUME TypeOK, MuxInv, Recorder
  PROVE  /\ mux'["recovery"] = mux["recovery"]
         /\ \A s \in Sessions \ {live} : mp4Temp'[s] = mp4Temp[s] /\ mp4'[s] = mp4[s]
<1>1. FilesTypeOK
  BY DEF TypeOK
<1>2. ASSUME NEW s \in Sessions, CreateSession(s)
      PROVE  UNCHANGED <<mux, mp4Temp, mp4>>
  BY <1>2 DEF CreateSession
<1>3. CASE StorePackets \/ StopRecording \/ OpenManifest \/ WriteManifest
           \/ PublishManifest \/ CloseStore
  BY <1>3 DEF StorePackets, StopRecording, OpenManifest, WriteManifest, PublishManifest,
    CloseStore, fileVars
<1>4. CASE PlanExport \/ RecorderDone
  BY <1>1, <1>4 DEF PlanExport, RecorderDone, MuxStart, FilesTypeOK, Processes, fileVars
<1>5. CASE rpc = "mux" /\ Mux("recorder")
  <2>1. mux["recorder"].session = live /\ mux'["recovery"] = mux["recovery"]
    BY <1>1, <1>5, MuxType DEF MuxInv, Processes
  <2>2. /\ \/ mp4Temp' = mp4Temp
           \/ \E temp : mp4Temp' = [mp4Temp EXCEPT ![live] = temp]
        /\ mp4' = mp4 \/ \E new : mp4' = [mp4 EXCEPT ![live] = new]
    BY <1>1, <1>5, <2>1, MuxSteps DEF PublishMp4, Processes
  <2> QED BY <1>1, <2>1, <2>2 DEF FilesTypeOK
<1> QED BY <1>2, <1>3, <1>4, <1>5 DEF Recorder

(* Where the muxer is after a step, and what it has made of the file.      *)
LEMMA MuxFile ==
  ASSUME FilesTypeOK, NEW p \in Processes, Mux(p), mux[p].session \in Sessions
  PROVE  /\ mux'[p].session = mux[p].session
         /\ \A s \in Sessions \ {mux[p].session} : mp4Temp'[s] = mp4Temp[s]
         /\ mux'[p].at = "write" => mp4Temp'[mux[p].session].opener = p
         /\ mux'[p].at = "publish" => Muxing(p, "write")
         /\ mux'[p].at = "publish" /\ mp4Temp[mux[p].session].opener = p
              => mp4Temp'[mux[p].session].content = "complete"
<1> DEFINE s == mux[p].session
<1>1. /\ mux'[p].session = s
      /\ \A r \in Sessions \ {s} : mp4Temp'[r] = mp4Temp[r]
  <2>1. \/ mp4Temp' = mp4Temp
        \/ \E temp : mp4Temp' = [mp4Temp EXCEPT ![s] = temp]
    BY MuxSteps DEF PublishMp4
  <2> QED BY <2>1, MuxType DEF FilesTypeOK
<1>2. ASSUME NEW at \in Places, MuxGoto(p, at) PROVE mux'[p].at = at
  BY <1>2, MuxMoves DEF FilesTypeOK, Places
<1>3. CASE MuxCheck(p)
  <2>1. mux'[p].at \in {"failed", "remove"}
    BY <1>2, <1>3 DEF MuxCheck, Places
  <2> QED BY <1>1, <2>1
<1>4. CASE MuxRemove(p)
  <2>1. mux'[p].at \in {"failed", "open"}
    BY <1>2, <1>4 DEF MuxRemove, Places
  <2> QED BY <1>1, <2>1
<1>5. CASE MuxOpen(p)
  <2>1. mux'[p].at = "write"
    BY <1>2, <1>5 DEF MuxOpen, Places
  <2>2. mp4Temp'[s] = [content |-> "partial", opener |-> p]
    BY <1>5 DEF MuxOpen, FilesTypeOK
  <2> QED BY <1>1, <2>1, <2>2
<1>6. CASE MuxWrite(p)
  <2>1. mux'[p].at = "publish" /\ Muxing(p, "write")
    BY <1>2, <1>6 DEF MuxWrite, Places
  <2>2. ASSUME mp4Temp[s].opener = p
        PROVE  mp4Temp'[s].content = "complete"
    <3>1. mp4Temp'[s] = [mp4Temp[s] EXCEPT !.content = "complete"]
      BY <1>6, <2>2 DEF MuxWrite, FilesTypeOK
    <3>2. mp4Temp[s] \in Temps
      BY DEF FilesTypeOK, Temps
    <3> QED BY <3>1, <3>2 DEF Temps
  <2> QED BY <1>1, <2>1, <2>2
<1>7. CASE MuxFails(p)
  <2>1. mux'[p].at = "failed"
    BY <1>2, <1>7 DEF MuxFails, Places
  <2> QED BY <1>1, <2>1
<1>8. CASE MuxPublish(p)
  <2>1. mux'[p].at \in {"failed", "ok"}
    BY <1>2, <1>8 DEF MuxPublish, Places
  <2> QED BY <1>1, <2>1
<1> QED BY <1>3, <1>4, <1>5, <1>6, <1>7, <1>8 DEF Mux

(* For an interrupted session, WholeInv needs only these facts to be kept. *)
LEMMA WholeKept ==
  ASSUME WholeInv, UNCHANGED <<boot, born>>, mux'["recovery"] = mux["recovery"],
         vpc' = "publishTemp" => vpc = "publishTemp" /\ chosen' = chosen,
         \A s \in Sessions : born[s] < boot => mp4Temp'[s] = mp4Temp[s]
  PROVE  WholeInv'
BY DEF WholeInv, Muxing

LEMMA WholeStep ==
  ASSUME RecoveryAssumption, IInv, [Next]_vars
  PROVE  WholeInv'
<1>0. /\ TypeOK /\ FilesTypeOK /\ ProcessInv /\ DirectoryInv /\ MuxInv /\ WholeInv
      /\ Muxing("recovery", "off") <=> vpc # "mux"
      /\ live \in Sessions \cup {0} /\ 0 \notin Sessions
  BY DEF IInv, TypeOK, RecoveryAssumption
<1>1. \A s \in Sessions : born[s] < boot => s # live
  <2>1. \A s \in Sessions : born[s] \in Nat /\ boot \in Nat
    BY <1>0 DEF TypeOK
  <2> QED BY <1>0, <2>1 DEF DirectoryInv
<1>2. CASE Boot
  <2>1. Muxing("recovery", "off") /\ mux' = mux /\ vpc' = "enumerate"
    BY <1>0, <1>2 DEF Boot, ProcessInv
  <2> QED BY <2>1 DEF WholeInv, Muxing
<1>3. CASE Crash \/ Exit
  <2>1. mux'["recovery"].at = "off" /\ vpc' = "none"
    BY <1>3 DEF Crash, Exit, Stops, Off, Processes
  <2> QED BY <2>1 DEF WholeInv, Muxing
<1>4. CASE ShutdownBegin \/ UNCHANGED vars
  BY <1>0, <1>4, WholeKept DEF ShutdownBegin, vars, processVars, recorderVars,
    recoveryVars, workerVars, fileVars
<1>5. CASE Recorder
  <2>1. /\ boot' = boot /\ vpc' = vpc /\ chosen' = chosen
        /\ mux'["recovery"] = mux["recovery"]
        /\ \A s \in Sessions \ {live} : mp4Temp'[s] = mp4Temp[s]
    BY <1>0, <1>5, RecorderFrame, RecorderTemps DEF processVars, recoveryVars, workerVars
  <2>2. ASSUME NEW r \in Sessions, CreateSession(r)
        PROVE  WholeInv'
    <3>1. born' = [born EXCEPT ![r] = boot] /\ mp4Temp' = mp4Temp
      BY <2>2 DEF CreateSession
    <3>2. ASSUME NEW s \in Sessions, born'[s] < boot' PROVE born[s] < boot
      BY <1>0, <2>1, <3>1, <3>2 DEF TypeOK
    <3> QED BY <1>0, <2>1, <3>1, <3>2 DEF WholeInv, Muxing
  <2>3. CASE UNCHANGED born
    BY <1>0, <1>1, <2>1, <2>3, WholeKept
  <2> QED BY <1>5, <2>2, <2>3 DEF Recorder, StorePackets, StopRecording, OpenManifest,
        WriteManifest, PublishManifest, CloseStore, PlanExport, RecorderDone,
        RecorderGoto, recorderVars
<1>6. CASE RecoveryWorker \/ ExportFirst \/ DiscardFirst
  <2>1. UNCHANGED <<boot, born>>
    BY <1>0, <1>6, RecoveryFrame DEF processVars, recorderVars
  <2>2. CASE ExportFirst \/ DiscardFirst
    BY <1>0, <2>1, <2>2, WholeKept DEF ExportFirst, DiscardFirst, Choose, fileVars
  <2>3. CASE EnumerateSessions \/ ScanSession \/ ScanEnds \/ ScanFails
    BY <1>0, <2>1, <2>3, WholeKept DEF EnumerateSessions, ScanSession, ScanEnds,
      ScanFails, WorkerEnds, WorkerAt, fileVars
  <2>4. CASE ExportPromoteManifest \/ Discard
    BY <1>0, <2>1, <2>4, WholeKept DEF ExportPromoteManifest, Discard, Continue,
      ActionFails, ActionSucceeds, WorkerEnds
  <2>5. CASE ExportBegin
    <3>1. UNCHANGED <<mux, mp4Temp>>
      BY <2>5 DEF ExportBegin, fileVars
    <3>2. CASE vpc' # "publishTemp"
      BY <1>0, <2>1, <3>1, <3>2, WholeKept
    <3>3. CASE vpc' = "publishTemp"
      <4>1. mp4Temp[chosen.session].content = "complete" /\ chosen' = chosen
        BY <2>5, <3>3 DEF ExportBegin, ActionFails, WorkerEnds, Continue
      <4> QED BY <1>0, <2>1, <3>1, <4>1 DEF WholeInv, Muxing
    <3> QED BY <3>2, <3>3
  <2>6. CASE ExportPublishTemp
    <3>1. vpc' # "publishTemp" /\ mux' = mux /\ vpc # "mux"
      BY <2>6 DEF ExportPublishTemp, ActionFails, ActionSucceeds, WorkerEnds, WorkerAt
    <3> QED BY <1>0, <3>1 DEF WholeInv, Muxing
  <2>7. CASE ExportPlan
    <3>1. mp4Temp' = mp4Temp /\ vpc' # "publishTemp"
      BY <2>7 DEF ExportPlan, fileVars, Continue, ActionFails, WorkerEnds
    <3>2. CASE UNCHANGED mux
      BY <1>0, <2>1, <3>1, <3>2, WholeKept
    <3>3. CASE MuxStart("recovery", chosen.session)
      <4>1. mux'["recovery"].at = "check"
        BY <1>0, <3>3 DEF MuxStart, FilesTypeOK, Processes
      <4> QED BY <3>1, <4>1 DEF WholeInv, Muxing
    <3> QED BY <2>7, <3>2, <3>3 DEF ExportPlan
  <2>8. CASE ExportEnds
    <3>1. mux'["recovery"].at = "off" /\ vpc' # "publishTemp"
      BY <1>0, <2>8 DEF ExportEnds, FilesTypeOK, Processes, Off, ActionFails,
        ActionSucceeds, WorkerEnds
    <3> QED BY <3>1 DEF WholeInv, Muxing
  <2>9. CASE vpc = "mux" /\ Mux("recovery")
             /\ UNCHANGED <<processVars, recorderVars, recoveryVars>>
    <3>1. vpc' = "mux"
      BY <2>9 DEF recoveryVars, workerVars
    <3>2. ASSUME NEW s \in Sessions, born[s] < boot, mux'["recovery"].session = s
          PROVE  /\ Muxing("recovery", "write")' => mp4Temp'[s].opener = "recovery"
                 /\ Muxing("recovery", "publish")' => mp4Temp'[s].content = "complete"
      <4>1. mux["recovery"].session = s
        BY <1>0, <2>9, <3>2, MuxType DEF Processes
      <4>2. Muxing("recovery", "write")' => mp4Temp'[s].opener = "recovery"
        BY <1>0, <2>9, <4>1, MuxFile DEF Processes, Muxing
      <4>3. ASSUME Muxing("recovery", "publish")' PROVE Muxing("recovery", "write")
        BY <1>0, <2>9, <4>1, <4>3, MuxFile DEF Processes, Muxing
      <4>4. Muxing("recovery", "write") => mp4Temp[s].opener = "recovery"
        BY <1>0, <3>2, <4>1 DEF WholeInv
      <4> QED BY <1>0, <2>9, <4>1, <4>2, <4>3, <4>4, MuxFile DEF Processes, Muxing
    <3> QED BY <2>1, <3>1, <3>2 DEF WholeInv
  <2> QED BY <1>6, <2>2, <2>3, <2>4, <2>5, <2>6, <2>7, <2>8, <2>9 DEF RecoveryWorker
<1> QED BY <1>2, <1>3, <1>4, <1>5, <1>6 DEF Next, Ended

(* The invariant holds at the start, and every step keeps it.              *)
LEMMA Inductive ==
  ASSUME RecoveryAssumption
  PROVE  (Init => IInv) /\ (IInv /\ [Next]_vars => IInv')
<1>1. ASSUME Init PROVE IInv
  <2>1. boot = 0 /\ live = 0 /\ rpc = "idle" /\ vpc = "none"
    BY <1>1 DEF Init
  <2>2. \A p \in Processes : mux[p].at = "off"
    BY <1>1 DEF Init, FilesInit, Off
  <2>3. \A s \in Sessions : packets[s] = "none" /\ manifestTemp[s] = "none" /\ born[s] = 0
    BY <1>1 DEF Init, FilesInit
  <2> QED BY <1>1, <2>1, <2>2, <2>3, TypeInit DEF IInv, ProcessInv, DirectoryInv,
        ManifestInv, MuxInv, WholeInv, MuxBusy
<1>2. ASSUME IInv, [Next]_vars PROVE IInv'
  BY <1>2, TypeStep, ProcessStep, DirectoryStep, ManifestStep, MuxStep, WholeStep DEF IInv
<1> QED BY <1>1, <1>2

(* IInv is an invariant of Recovery, whatever the sessions, the limit of   *)
(* the scan and the number of starts.                                      *)
THEOREM Invariance == Spec => []IInv
<1>1. Init => IInv
  BY RecoveryAssumption, Inductive
<1>2. IInv /\ [Next]_vars => IInv'
  BY RecoveryAssumption, Inductive
<1> QED BY <1>1, <1>2, PTL DEF Spec

(* Types: every variable of the recorder, the recovery session and the     *)
(* disk keeps its type, a busy session has a worker, and the muxer runs    *)
(* only for whoever is at that step.                                       *)
THEOREM TypeCorrect == Spec => []TypeOK
<1>1. IInv => TypeOK
  BY DEF IInv
<1> QED BY <1>1, Invariance, PTL

-----------------------------------------------------------------------------
(* Publishing.                                                             *)

(* The only ways the MP4 of a session changes: the muxer of either process *)
(* publishes it, or recovery does without muxing.                          *)
LEMMA Mp4Changes ==
  ASSUME TypeOK, [Next]_vars, NEW s \in Sessions, mp4'[s] # mp4[s]
  PROVE  \E p \in Processes :
           /\ PublishMp4(p, s)
           /\ \/ p = "recorder" /\ Recorder
              \/ p = "recovery" /\ vpc = "publishTemp" /\ chosen.session = s
              \/ p = "recovery" /\ Muxing(p, "publish") /\ mux[p].session = s
<1>0. FilesTypeOK
  BY DEF TypeOK
<1>1. ASSUME NEW p \in Processes, NEW t, PublishMp4(p, t)
      PROVE  t = s
  BY <1>0, <1>1 DEF PublishMp4, FilesTypeOK
<1>2. ASSUME NEW p \in Processes, Mux(p)
      PROVE  Muxing(p, "publish") /\ mux[p].session = s /\ PublishMp4(p, s)
  <2>1. Muxing(p, "publish") /\ PublishMp4(p, mux[p].session)
    BY <1>0, <1>2, MuxSteps
  <2> QED BY <1>1, <2>1
<1>3. CASE Recorder
  <2>1. Mux("recorder")
    BY <1>3 DEF Recorder, CreateSession, StorePackets, StopRecording, OpenManifest,
      WriteManifest, PublishManifest, CloseStore, PlanExport, RecorderDone, fileVars
  <2> QED BY <1>2, <1>3, <2>1 DEF Processes
<1>4. CASE RecoveryWorker
  <2>1. CASE ExportPublishTemp
    <3>1. vpc = "publishTemp" /\ PublishMp4("recovery", chosen.session)
      BY <2>1 DEF ExportPublishTemp, WorkerAt, fileVars
    <3>2. chosen.session = s
      BY <1>1, <3>1 DEF Processes
    <3> QED BY <3>1, <3>2 DEF Processes
  <2>2. CASE Mux("recovery")
    BY <1>2, <2>2 DEF Processes
  <2> QED BY <1>4, <2>1, <2>2 DEF RecoveryWorker, EnumerateSessions, ScanSession,
        ScanEnds, ScanFails, ExportBegin, ExportPromoteManifest, ExportPlan, ExportEnds,
        Discard, fileVars
<1> QED BY <1>3, <1>4 DEF Next, Boot, Crash, Exit, Stops, ShutdownBegin, ExportFirst,
      DiscardFirst, Choose, Ended, vars, fileVars

(* Existing final outputs are never replaced: whoever publishes the MP4 of *)
(* a session, and whoever has done so before, the recorder or a recovery.  *)
THEOREM FinalStays == Spec => PublishedIsFinal
<1>1. ASSUME IInv, [Next]_vars, NEW s \in Sessions, Published(s)
      PROVE  mp4'[s] = mp4[s]
  BY <1>1, Mp4Changes DEF IInv, PublishMp4
<1>2. IInv /\ [Next]_vars => [\A s \in Sessions : Published(s) => mp4'[s] = mp4[s]]_vars
  BY <1>1
<1> QED BY <1>2, Invariance, PTL DEF Spec, PublishedIsFinal

(* What a recovery publishes of an interrupted recording is whole: the     *)
(* temporary MP4 left by a crash is published only if it is complete, and  *)
(* one that recovery writes is truncated by nobody else on its way.        *)
THEOREM WholePublished == Spec => PublishedIsWhole
<1>1. ASSUME IInv, [Next]_vars, NEW s \in Sessions, ~Published(s), Published(s)',
             born[s] < boot
      PROVE  mp4'[s].whole
  <2>1. mp4'[s] # mp4[s]
    BY <1>1 DEF Published
  <2>2. s # live
    BY <1>1 DEF IInv, TypeOK, DirectoryInv
  <2>3. ~Recorder
    BY <1>1, <2>1, <2>2, RecorderTemps DEF IInv
  <2>4. PICK p \in Processes :
          /\ PublishMp4(p, s)
          /\ \/ vpc = "publishTemp" /\ chosen.session = s
             \/ p = "recovery" /\ Muxing(p, "publish") /\ mux[p].session = s
    BY <1>1, <2>1, <2>3, Mp4Changes DEF IInv
  <2>5. mp4Temp[s].content = "complete"
    BY <1>1, <2>4 DEF IInv, WholeInv
  <2> QED BY <1>1, <2>4, <2>5 DEF PublishMp4, IInv, TypeOK, FilesTypeOK
<1>2. IInv /\ [Next]_vars
        => [\A s \in Sessions :
              ~Published(s) /\ Published(s)' /\ born[s] < boot => mp4'[s].whole]_vars
  BY <1>1
<1> QED BY <1>2, Invariance, PTL DEF Spec, PublishedIsWhole

-----------------------------------------------------------------------------
(* What can be exported.                                                   *)

Muxable(s) == (manifest[s] \/ manifestTemp[s] = "complete") /\ packets[s] = "some"

(* What could be muxed still can: packets and manifest are never lost, and *)
(* a manifest that is not published is lost only to one that is.           *)
LEMMA MuxableStays ==
  ASSUME RecoveryAssumption, IInv, [Next]_vars, NEW s \in Sessions, Muxable(s)
  PROVE  Muxable(s)'
<1>0. /\ TypeOK /\ FilesTypeOK /\ ProcessInv /\ DirectoryInv /\ ManifestInv
      /\ live \in Sessions \cup {0}
  BY DEF IInv, TypeOK
<1>1. CASE UNCHANGED <<packets, manifest, manifestTemp>>
  BY <1>1 DEF Muxable
<1>2. CASE Recorder
  <2> USE DEF RecorderAt
  <2>1. ASSUME NEW r \in Sessions, CreateSession(r)
        PROVE  Muxable(s)'
    BY <1>0, <2>1 DEF CreateSession, DirectoryInv, FilesTypeOK, Muxable
  <2>2. CASE StorePackets
    BY <1>0, <2>2 DEF StorePackets, FilesTypeOK, Muxable
  <2>3. CASE OpenManifest \/ WriteManifest \/ PublishManifest
    BY <1>0, <2>3 DEF OpenManifest, WriteManifest, PublishManifest, ManifestInv,
      FilesTypeOK, Muxable
  <2>4. CASE Mux("recorder")
    BY <1>0, <1>1, <2>4, MuxSteps DEF Processes
  <2> QED BY <1>1, <1>2, <2>1, <2>2, <2>3, <2>4 DEF Recorder, StopRecording, CloseStore,
        PlanExport, RecorderDone, fileVars
<1>3. CASE RecoveryWorker \/ ExportFirst \/ DiscardFirst
  BY <1>0, <1>3, RecoveryFiles DEF Muxable
<1> QED BY <1>1, <1>2, <1>3 DEF Next, Boot, Crash, Exit, Stops, ShutdownBegin, Ended, vars,
      fileVars

(* The temporary MP4 is touched by a muxer, which has what it needs to do  *)
(* so again, or to publish it.                                             *)
LEMMA TempChanges ==
  ASSUME IInv, [Next]_vars, NEW s \in Sessions, mp4Temp'[s] # mp4Temp[s]
  PROVE  Muxable(s) \/ Published(s)'
<1>0. TypeOK /\ FilesTypeOK /\ MuxInv
  BY DEF IInv, TypeOK
<1>1. ASSUME NEW p \in Processes, NEW t, PublishMp4(p, t)
      PROVE  Published(s)'
  BY <1>0, <1>1 DEF PublishMp4, FilesTypeOK, Published, NoMp4, Processes
<1>2. ASSUME NEW p \in Processes, Mux(p)
      PROVE  Muxable(s) \/ Published(s)'
  <2>1. CASE PublishMp4(p, mux[p].session)
    BY <1>1, <2>1
  <2>2. CASE \E temp \in Temps : mp4Temp' = [mp4Temp EXCEPT ![mux[p].session] = temp]
    <3>1. mux[p].session = s /\ mux[p].at \in MuxBusy
      BY <1>0, <1>2, <2>2, MuxSteps DEF FilesTypeOK
    <3> QED BY <1>0, <3>1 DEF MuxInv, Muxable
  <2> QED BY <1>0, <1>2, <2>1, <2>2, MuxSteps
<1>3. CASE Recorder
  <2>1. Mux("recorder")
    BY <1>3 DEF Recorder, CreateSession, StorePackets, StopRecording, OpenManifest,
      WriteManifest, PublishManifest, CloseStore, PlanExport, RecorderDone, fileVars
  <2> QED BY <1>2, <2>1 DEF Processes
<1>4. CASE RecoveryWorker
  <2>1. CASE ExportPublishTemp
    <3>1. PublishMp4("recovery", chosen.session)
      BY <2>1 DEF ExportPublishTemp, fileVars
    <3> QED BY <1>1, <3>1 DEF Processes
  <2>2. CASE Mux("recovery")
    BY <1>2, <2>2 DEF Processes
  <2> QED BY <1>4, <2>1, <2>2 DEF RecoveryWorker, EnumerateSessions, ScanSession,
        ScanEnds, ScanFails, ExportBegin, ExportPromoteManifest, ExportPlan, ExportEnds,
        Discard, fileVars
<1> QED BY <1>3, <1>4 DEF Next, Boot, Crash, Exit, Stops, ShutdownBegin, ExportFirst,
      DiscardFirst, Choose, Ended, vars, fileVars

(* No crash, failed step, retry or discard makes a recording that could be *)
(* exported one that no longer can: a muxer destroys a temporary MP4 only  *)
(* while packets and manifest are there to write it again.                 *)
THEOREM ExportableKept == Spec => ExportableStays
<1>1. ASSUME IInv, [Next]_vars, NEW s \in Sessions, Exportable(s)
      PROVE  Exportable(s)'
  <2>1. CASE Published(s)
    BY <1>1, <2>1, Mp4Changes DEF IInv, PublishMp4, Published, Exportable
  <2>2. CASE Muxable(s)
    BY <1>1, <2>2, RecoveryAssumption, MuxableStays DEF Muxable, Exportable
  <2>3. CASE mp4Temp[s].content = "complete" /\ ~Muxable(s)
    BY <1>1, <2>3, TempChanges DEF Exportable
  <2> QED BY <1>1, <2>1, <2>2, <2>3 DEF Exportable, Muxable
<1>2. IInv /\ [Next]_vars => [\A s \in Sessions : Exportable(s) => Exportable(s)']_vars
  BY <1>1
<1> QED BY <1>2, Invariance, PTL DEF Spec, ExportableStays

-----------------------------------------------------------------------------
(* What is offered.                                                        *)

(* An interrupted recording that can be exported, and one that is offered. *)
Interrupted(s) == born[s] < boot /\ where[s] = "sessions" /\ Exportable(s) /\ ~Published(s)
Offered(list, s) == \E i \in DOMAIN list : list[i].session = s /\ list[i].canExport

(* The recorder leaves the files of interrupted recordings alone.          *)
LEMMA RecorderFiles ==
  ASSUME RecoveryAssumption, IInv, Recorder, NEW s \in Sessions, born[s] < boot,
         where[s] # "none"
  PROVE  /\ packets'[s] = packets[s] /\ manifest'[s] = manifest[s]
         /\ manifestTemp'[s] = manifestTemp[s] /\ where'[s] = where[s]
         /\ mp4Temp'[s] = mp4Temp[s] /\ mp4'[s] = mp4[s]
<1>0. TypeOK /\ FilesTypeOK /\ MuxInv /\ DirectoryInv /\ live \in Sessions \cup {0}
      /\ born[s] \in Nat /\ boot \in Nat /\ s # 0
  BY DEF IInv, TypeOK, RecoveryAssumption
<1>1. s # live
  BY <1>0 DEF DirectoryInv
<1>2. mp4Temp'[s] = mp4Temp[s] /\ mp4'[s] = mp4[s]
  BY <1>0, <1>1, RecorderTemps
<1>3. ASSUME NEW r \in Sessions, CreateSession(r)
      PROVE  UNCHANGED <<packets[s], manifest[s], manifestTemp[s], where[s]>>
  <2>1. r >= r
    BY DEF RecoveryAssumption
  <2>2. (where[r] = "none") = (r >= r)
    BY <1>3 DEF CreateSession
  <2>3. where[r] = "none"
    BY <2>1, <2>2
  <2> QED BY <1>0, <1>3, <2>3 DEF CreateSession, FilesTypeOK
<1>4. CASE StorePackets \/ OpenManifest \/ WriteManifest \/ PublishManifest
  <2>1. CASE StorePackets
    BY <1>0, <1>1, <2>1 DEF StorePackets, FilesTypeOK
  <2>2. CASE OpenManifest
    BY <1>0, <1>1, <2>2 DEF OpenManifest, FilesTypeOK
  <2>3. CASE WriteManifest
    BY <1>0, <1>1, <2>3 DEF WriteManifest, FilesTypeOK
  <2>4. CASE PublishManifest
    BY <1>0, <1>1, <2>4 DEF PublishManifest, FilesTypeOK
  <2> QED BY <1>4, <2>1, <2>2, <2>3, <2>4
<1>5. CASE Mux("recorder")
  BY <1>0, <1>2, <1>5, MuxSteps DEF Processes
<1> QED BY <1>2, <1>3, <1>4, <1>5 DEF Recorder, StopRecording, CloseStore, PlanExport, RecorderDone,
      fileVars

(* Recovery promotes the manifest of the candidate it has chosen.          *)
LEMMA PromotesChosen ==
  ASSUME TypeOK, RecoveryWorker \/ ExportFirst \/ DiscardFirst, NEW s \in Sessions,
         ~(manifest'[s] = manifest[s] /\ manifestTemp'[s] = manifestTemp[s])
  PROVE  vpc = "promote" /\ chosen.session = s
<1>1. FilesTypeOK
  BY DEF TypeOK
<1>2. CASE ExportPromoteManifest
  BY <1>1, <1>2 DEF ExportPromoteManifest, WorkerAt, FilesTypeOK
<1>3. CASE Mux("recovery")
  BY <1>1, <1>3, MuxSteps DEF Processes
<1> QED BY <1>2, <1>3 DEF RecoveryWorker, ExportFirst, DiscardFirst, Choose, EnumerateSessions,
      ScanSession, ScanEnds, ScanFails, ExportBegin, ExportPublishTemp, PublishMp4, ExportPlan,
      ExportEnds, Discard, fileVars

(* While the process runs no recording becomes an interrupted one, but for *)
(* the one whose manifest recovery promotes.                               *)
LEMMA NothingNew ==
  ASSUME RecoveryAssumption, IInv, [Next]_vars, boot' = boot, NEW s \in Sessions, Interrupted(s)'
  PROVE  Interrupted(s) \/ (vpc = "promote" /\ chosen.session = s)
<1>0. TypeOK /\ FilesTypeOK /\ ProcessInv /\ boot \in Nat /\ born \in [Sessions -> 0..MaxBoots]
  BY DEF IInv, TypeOK, RecoveryAssumption
<1>1. ~Published(s)
  BY <1>0, Mp4Changes DEF Interrupted, PublishMp4, Published
<1>2. CASE Recorder
  <2>1. born[s] < boot /\ where[s] # "none"
    <3>1. ASSUME NEW r \in Sessions, CreateSession(r)
          PROVE  r # s /\ born'[s] = born[s] /\ where'[s] = where[s]
      BY <1>0, <3>1 DEF CreateSession, Interrupted, FilesTypeOK
    <3>2. CASE \A r \in Sessions : ~CreateSession(r)
      <4>1. born' = born
        BY <1>2, <3>2 DEF Recorder, StorePackets, StopRecording, OpenManifest, WriteManifest,
          PublishManifest, CloseStore, PlanExport, RecorderDone, RecorderGoto, recorderVars
      <4>2. where' = where
        BY <1>0, <1>2, <3>2, MuxSteps DEF Recorder, StorePackets, StopRecording, OpenManifest,
          WriteManifest, PublishManifest, CloseStore, PlanExport, RecorderDone, fileVars, Processes
      <4> QED BY <4>1, <4>2 DEF Interrupted
    <3> QED BY <3>1, <3>2 DEF Interrupted
  <2>2. UNCHANGED <<packets[s], manifest[s], manifestTemp[s], where[s], mp4Temp[s], mp4[s]>>
    BY <1>2, <2>1, RecorderFiles
  <2> QED BY <2>1, <2>2 DEF Interrupted, Exportable, Published
<1>3. CASE RecoveryWorker \/ ExportFirst \/ DiscardFirst
  <2>1. born' = born
    BY <1>0, <1>3, RecoveryFrame DEF recorderVars
  <2>2. packets'[s] = packets[s] /\ where[s] = "sessions"
    BY <1>0, <1>3, RecoveryFiles DEF Interrupted
  <2>3. \/ manifest'[s] = manifest[s] /\ manifestTemp'[s] = manifestTemp[s]
        \/ vpc = "promote" /\ chosen.session = s
    BY <1>0, <1>3, PromotesChosen
  <2>4. mp4Temp'[s] = mp4Temp[s] \/ Muxable(s)
    BY TempChanges DEF Interrupted
  <2> QED BY <1>1, <2>1, <2>2, <2>3, <2>4 DEF Interrupted, Exportable, Published, Muxable
<1>4. CASE UNCHANGED <<fileVars, born>>
  BY <1>4 DEF Interrupted, Exportable, Published, fileVars
<1> QED BY <1>2, <1>3, <1>4 DEF Next, Boot, Crash, Exit, Stops, ShutdownBegin, Ended, vars,
      recorderVars

(* A worker that acts on a candidate shows it; what the scan has passed     *)
(* and what the snapshot lists is offered.                                 *)
Acting == {"export", "publishTemp", "promote", "plan", "mux", "discard"}
ActingInv == vpc \in Acting => state \in {"Exporting", "Discarding"}
OfferInv ==
  Cardinality(Sessions) <= MaxScanned =>
    /\ vpc \in {"export", "promote"} => Offered(candidates, chosen.session)
    /\ vpc = "scan" =>
         \A s \in Sessions : Interrupted(s) => s \in toScan \/ Offered(found, s)
    /\ state \in {"Ready", "Exporting", "Discarding"} =>
         \A s \in Sessions : Interrupted(s) => Offered(candidates, s)

(* Steps after which the same is offered.                                  *)
LEMMA OffersStay ==
  ASSUME RecoveryAssumption, IInv, [Next]_vars, OfferInv, UNCHANGED <<boot, candidates>>,
         vpc' \in {"export", "promote"} => vpc \in {"export", "promote"} /\ chosen' = chosen,
         vpc' = "scan" => vpc = "scan" /\ UNCHANGED <<toScan, found>>,
         state' \in {"Ready", "Exporting", "Discarding"} =>
           state \in {"Ready", "Exporting", "Discarding"}
  PROVE  OfferInv'
<1> SUFFICES ASSUME Cardinality(Sessions) <= MaxScanned PROVE OfferInv'
  BY DEF OfferInv
<1>1. ASSUME NEW s \in Sessions, Interrupted(s)'
      PROVE  Interrupted(s) \/ (vpc = "promote" /\ Offered(candidates, s))
  BY <1>1, NothingNew DEF OfferInv
<1> QED BY <1>1 DEF OfferInv, Offered

(* With few directories the scan looks at all of them.                     *)
LEMMA AllScanned ==
  ASSUME RecoveryAssumption, Cardinality(Sessions) <= MaxScanned, EnumerateSessions
  PROVE  toScan' = Directories
<1>1. ASSUME NEW s \in Directories
      PROVE  Cardinality({r \in Directories : r <= s}) <= MaxScanned
  <2> DEFINE T == {r \in Directories : r <= s}
  <2>1. T \in SUBSET Sessions
    BY DEF Directories
  <2>2. IsFiniteSet(T) /\ Cardinality(T) <= Cardinality(Sessions)
    BY <2>1, FS_Subset DEF RecoveryAssumption
  <2>3. Cardinality(T) \in Nat /\ Cardinality(Sessions) \in Nat
    BY <2>2, FS_CardinalityType DEF RecoveryAssumption
  <2> HIDE DEF T
  <2>4. Cardinality(T) <= MaxScanned
    BY <2>2, <2>3 DEF RecoveryAssumption
  <2> QED BY <2>4 DEF T
<1> QED BY <1>1 DEF EnumerateSessions

(* A scan that looks at an interrupted recording finds what to export.     *)
LEMMA InspectionOffers ==
  ASSUME NEW s \in Sessions, Interrupted(s)
  PROVE  InspectSession(s).session = s /\ InspectSession(s).canExport
BY DEF Interrupted, Exportable, InspectSession, Readable, Plannable

\* Appending to a list keeps its elements and adds the new one at the end.
LEMMA AppendKeeps ==
  ASSUME NEW S, NEW list \in Seq(S), NEW e \in S
  PROVE  /\ \A i \in DOMAIN list : i \in DOMAIN Append(list, e) /\ Append(list, e)[i] = list[i]
         /\ Len(list) + 1 \in DOMAIN Append(list, e) /\ Append(list, e)[Len(list) + 1] = e
<1>1. DOMAIN list = 1..Len(list) /\ Len(list) \in Nat
  OBVIOUS
<1>2. DOMAIN Append(list, e) = 1..(Len(list) + 1)
  OBVIOUS
<1> QED BY <1>1, <1>2

(* The worker shows what it does until it ends.                            *)
LEMMA ActingStep ==
  ASSUME ActingInv, ProcessInv, [Next]_vars
  PROVE  ActingInv'
<1> USE DEF ActingInv, Acting
<1>1. CASE Recorder
  BY <1>1, RecorderFrame DEF recoveryVars, workerVars
<1>2. CASE RecoveryWorker
  BY <1>2 DEF RecoveryWorker, EnumerateSessions, ScanSession, ScanEnds, ScanFails, ExportBegin,
    ExportPublishTemp, ExportPromoteManifest, ExportPlan, ExportEnds, Discard, ActionFails,
    ActionSucceeds, Continue, WorkerEnds, WorkerAt, WorkerKeeps, recoveryVars, workerVars
<1>3. CASE ExportFirst \/ DiscardFirst
  BY <1>3 DEF ExportFirst, DiscardFirst, Choose
<1> QED BY <1>1, <1>2, <1>3 DEF Next, Boot, Crash, Exit, Stops, ShutdownBegin, Ended, vars,
      recoveryVars, workerVars

LEMMA OfferStep ==
  ASSUME RecoveryAssumption, IInv, [Next]_vars, ActingInv, OfferInv
  PROVE  OfferInv'
<1>0. TypeOK /\ ProcessInv
  BY DEF IInv
<1>1. CASE Boot
  BY <1>1 DEF Boot, OfferInv
<1>2. CASE Crash \/ Exit
  BY <1>2 DEF Crash, Exit, Stops, OfferInv
<1>3. CASE ShutdownBegin \/ Ended \/ UNCHANGED vars
  BY <1>3, OffersStay DEF ShutdownBegin, Ended, vars, recoveryVars, workerVars, processVars
<1>4. CASE Recorder
  BY <1>0, <1>4, RecorderFrame, OffersStay DEF recoveryVars, workerVars, processVars
<1>5. CASE ExportFirst \/ DiscardFirst
  <2>1. UNCHANGED <<boot, candidates, fileVars, born>> /\ state = "Ready"
    BY <1>5 DEF ExportFirst, DiscardFirst, Choose, processVars, recorderVars
  <2>2. \/ vpc' = vpc /\ chosen' = chosen
        \/ vpc' = "discard"
        \/ (\E i \in DOMAIN candidates : chosen' = candidates[i] /\ candidates[i].canExport)
    BY <1>5 DEF ExportFirst, DiscardFirst, Choose
  <2>3. vpc' = "scan" => vpc = "scan" /\ UNCHANGED <<toScan, found>>
    BY <1>5 DEF ExportFirst, DiscardFirst, Choose
  <2>4. \A s \in Sessions : Interrupted(s)' <=> Interrupted(s)
    BY <2>1 DEF Interrupted, Exportable, Published, fileVars
  <2> QED BY <2>1, <2>2, <2>3, <2>4 DEF OfferInv, Offered
<1>6. CASE EnumerateSessions
  <2>1. UNCHANGED <<boot, candidates, fileVars, born, state>> /\ vpc' = "scan"
    BY <1>6 DEF EnumerateSessions, WorkerKeeps, processVars, recorderVars
  <2>2. \A s \in Sessions : Interrupted(s)' <=> Interrupted(s)
    BY <2>1 DEF Interrupted, Exportable, Published, fileVars
  <2>3. ASSUME Cardinality(Sessions) <= MaxScanned, NEW s \in Sessions, Interrupted(s)
        PROVE  s \in toScan'
    BY <1>6, <2>3, AllScanned DEF Directories, Interrupted
  <2> QED BY <2>1, <2>2, <2>3 DEF OfferInv
<1>7. CASE ScanSession
  <2>1. PICK r \in toScan : found' = Append(found, InspectSession(r)) /\ toScan' = toScan \ {r}
    BY <1>7 DEF ScanSession
  <2>2. /\ UNCHANGED <<boot, candidates, fileVars, born, state>> /\ vpc' = "scan" /\ vpc = "scan"
        /\ found \in Seq(Candidate) /\ toScan \subseteq Sessions
    BY <1>0, <1>7 DEF ScanSession, WorkerAt, WorkerKeeps, processVars, recorderVars, TypeOK
  <2>3. \A s \in Sessions : Interrupted(s)' <=> Interrupted(s)
    BY <2>2 DEF Interrupted, Exportable, Published, fileVars
  <2>4. PICK n : n = InspectSession(r)
    OBVIOUS
  <2>5. /\ \A i \in DOMAIN found : i \in DOMAIN found' /\ found'[i] = found[i]
        /\ Len(found) + 1 \in DOMAIN found' /\ found'[Len(found) + 1] = n
    <3>1. n \in Candidate
      <4>1. FilesTypeOK /\ r \in Sessions
        BY <1>0, <2>2 DEF TypeOK
      <4> QED BY <2>4, <4>1, InspectType
    <3>2. found' = Append(found, n)
      BY <2>1, <2>4
    <3> QED BY <2>2, <3>1, <3>2, AppendKeeps
  <2>6. ASSUME NEW s \in Sessions, Interrupted(s), s \in toScan \/ Offered(found, s)
        PROVE  s \in toScan' \/ Offered(found', s)
    <3>1. CASE Offered(found, s)
      BY <2>5, <3>1 DEF Offered
    <3>2. CASE s = r
      <4>1. n.session = s /\ n.canExport
        BY <2>4, <2>6, <3>2, InspectionOffers
      <4> QED BY <2>5, <4>1 DEF Offered
    <3>3. CASE s \in toScan /\ s # r
      BY <2>1, <3>3
    <3> QED BY <2>6, <3>1, <3>2, <3>3
  <2> QED BY <2>2, <2>3, <2>6 DEF OfferInv, Offered
<1>8. CASE ScanEnds
  <2>1. /\ UNCHANGED <<boot, fileVars, born>> /\ vpc' = "none" /\ vpc = "scan" /\ toScan = {}
        /\ (UNCHANGED <<state, candidates>> \/ candidates' = found)
    BY <1>8 DEF ScanEnds, WorkerEnds, WorkerAt, processVars, recorderVars
  <2>2. \A s \in Sessions : Interrupted(s)' <=> Interrupted(s)
    BY <2>1 DEF Interrupted, Exportable, Published, fileVars
  <2> QED BY <2>1, <2>2 DEF OfferInv, Offered
<1>9. CASE ScanFails
  <2>1. /\ UNCHANGED <<boot, fileVars, born>> /\ vpc' = "none"
        /\ (UNCHANGED <<state, candidates>> \/ state' = "Failed")
    BY <1>9 DEF ScanFails, WorkerEnds, processVars, recorderVars
  <2>2. \A s \in Sessions : Interrupted(s)' <=> Interrupted(s)
    BY <2>1 DEF Interrupted, Exportable, Published, fileVars
  <2> QED BY <2>1, <2>2 DEF OfferInv, Offered
<1>10. CASE ExportBegin \/ ExportPublishTemp \/ ExportPromoteManifest \/ ExportPlan \/ ExportEnds
            \/ Discard \/ (vpc = "mux" /\ Mux("recovery")
                           /\ UNCHANGED <<processVars, recorderVars, recoveryVars>>)
  <2>1. /\ boot' = boot /\ candidates' = candidates
        /\ vpc' \in {"export", "promote"} => vpc \in {"export", "promote"} /\ chosen' = chosen
        /\ vpc' # "scan"
    BY <1>10 DEF ExportBegin, ExportPublishTemp, ExportPromoteManifest, ExportPlan, ExportEnds,
      Discard, ActionFails, ActionSucceeds, Continue, WorkerEnds, WorkerAt, WorkerKeeps,
      processVars, recoveryVars, workerVars
  <2>2. state' \in {"Ready", "Exporting", "Discarding"} =>
          state \in {"Ready", "Exporting", "Discarding"}
    <3>1. vpc \in Acting
      BY <1>10 DEF Acting, ExportBegin, ExportPublishTemp, ExportPromoteManifest, ExportPlan,
        ExportEnds, Discard, WorkerAt
    <3> QED BY <3>1 DEF ActingInv
  <2> QED BY <2>1, <2>2, OffersStay
<1> QED BY <1>1, <1>2, <1>3, <1>4, <1>5, <1>6, <1>7, <1>8, <1>9, <1>10 DEF Next, RecoveryWorker

(* Every recording an earlier run left that can be exported is offered     *)
(* once the scan is over, whatever crashed, failed, was exported or        *)
(* discarded since, if the limit on the scan lets it.                      *)
THEOREM AllOffered == Spec => []EveryInterruptedIsOffered
<1>1. Init => ActingInv /\ OfferInv
  BY DEF Init, ActingInv, Acting, OfferInv
<1>2. IInv /\ ActingInv /\ OfferInv /\ [Next]_vars => ActingInv' /\ OfferInv'
  BY ActingStep, OfferStep, RecoveryAssumption DEF IInv
<1>3. OfferInv => EveryInterruptedIsOffered
  BY DEF OfferInv, EveryInterruptedIsOffered, Interrupted, Offered
<1> QED BY <1>1, <1>2, <1>3, Invariance, PTL DEF Spec
=============================================================================
