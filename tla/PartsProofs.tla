----------------------------- MODULE PartsProofs -----------------------------
(***************************************************************************)
(* Proofs about the small parts: the settings file from start to start of  *)
(* the application, for any number of processes and starts; the ring of    *)
(* the microphone check, for any capacity; the resampler, for any pair of  *)
(* rates; the frame cadence, for any rate and any word; and what is in an  *)
(* export, for any lengths of packets and any jitter.                      *)
(***************************************************************************)
EXTENDS SettingsFiles, PcmFifo, FrameCadence, PcmResampler, ExportPlan, FiniteSetTheorems,
        WellFoundedInduction, TLAPS

-----------------------------------------------------------------------------
(* The settings file.  The inductive invariant, in parts.                  *)

Owning == {"load", "running", "save", "write", "replace"}
LogOpen == {"instance"} \cup Owning
Places == {"idle"} \cup Resolving \cup LogOpen
Statuses == {"none", "InspectionFailed", "RootsConflict", "Ready", "Migrated", "LegacyFallback"}
Outputs == OutputDirectories \cup {"none"}
Modes == {"balanced", "capture_first"}
Settings == [value : Nat, output : Outputs, mode : Modes]
Files == [version : Nat, value : Nat, output : Outputs, mode : Modes]
Disks == [exists : BOOLEAN, file : {NoFile} \cup Files]
Apped == [pc : Places, root : Roots, seen : BOOLEAN, status : Statuses,
          loaded : BOOLEAN, settings : Settings, candidate : Settings,
          temporary : {NoFile, Torn} \cup Files, recorder : Outputs, recovery : Outputs]

FilesTypeOK ==
  /\ roots \in [Roots -> Disks]
  /\ app \in [Apps -> Apped]
  /\ holder \in SUBSET Apps
  /\ starts \in Nat
  /\ good \in Settings
  /\ disturbed \in BOOLEAN
  /\ strayed \in SUBSET Roots

(* One process at a time has the settings; it is past the load, and what   *)
(* it is about to put in place of the file is complete.                    *)
OwnerInv ==
  /\ \A a \in holder : holder = {a}
  /\ \A a \in Apps :
       /\ a \in holder <=> app[a].pc \in Owning
       /\ app[a].loaded => app[a].pc \in Owning \ {"load"}
       /\ app[a].pc = "replace" => app[a].temporary = SerializeSettings(app[a].candidate)

(* There is a root at any time, and the one a process logs in is there;    *)
(* until its own move a process has chosen the new one; a file is in a     *)
(* root, and a root that an output directory has made stays.               *)
RootInv ==
  /\ \E r \in Roots : roots[r].exists
  /\ \A r \in Roots : ~roots[r].exists => roots[r].file = NoFile
  /\ \A a \in Apps :
       /\ app[a].pc \in LogOpen => roots[app[a].root].exists
       /\ app[a].pc \in {"idle", "canonical", "legacy", "rename"} => app[a].root = "canonical"

(* As long as the starts go in order, a process that migrates is alone and *)
(* what it has found out about the roots still holds, whatever recordings  *)
(* do: where the new root is, every process uses it, and a root that a     *)
(* recording has made beside it has no settings.                           *)
MigrationInv ==
  /\ BothRoots => disturbed \/ strayed # {}
  /\ ~disturbed =>
       \A a, b \in Apps : app[a].pc \in Resolving /\ app[b].pc \in Resolving => a = b
  /\ Orderly =>
       /\ BothRoots => roots["legacy"].file = NoFile
       /\ \A a \in Apps :
            /\ roots["canonical"].exists => app[a].root = "canonical"
            /\ app[a].pc = "legacy" => app[a].seen = roots["canonical"].exists
            /\ app[a].pc = "rename" => roots["legacy"].exists /\ ~roots["canonical"].exists
            /\ app[a].pc \in {"ensure", "log"} => roots[app[a].root].exists

(* One root or one file in use.                                            *)
OneInUse == BothRoots => Orderly

(* Then the file has what was saved last, and so has who has loaded it.    *)
SavedInv ==
  OneInUse =>
    /\ \A r \in Roots :
         roots[r].exists /\ Supported(roots[r].file) => ParseCurrentSettings(roots[r].file) = good
    /\ \A a \in Apps :
         app[a].loaded =>
           /\ app[a].settings.value = good.value /\ app[a].settings.mode = good.mode
           /\ app[a].settings.output \in {good.output, RebasePathFromLegacyRoot(good.output)}

FilesInv == FilesTypeOK /\ OwnerInv /\ RootInv /\ MigrationInv /\ SavedInv

LEMMA FilesStart == FilesInit => FilesInv
<1> SUFFICES ASSUME FilesInit PROVE FilesInv
  OBVIOUS
<1>1. PICK r \in Roots : \E f \in FirstFiles :
        /\ roots = [q \in Roots |-> IF q = r THEN [NewRoot EXCEPT !.file = f] ELSE NoRoot]
        /\ good = (IF Supported(f) THEN ParseCurrentSettings(f) ELSE Defaults("none"))
  BY DEF FilesInit
<1>2. PICK f \in FirstFiles :
        /\ roots = [q \in Roots |-> IF q = r THEN [NewRoot EXCEPT !.file = f] ELSE NoRoot]
        /\ good = (IF Supported(f) THEN ParseCurrentSettings(f) ELSE Defaults("none"))
  BY <1>1
<1>3. f \in {NoFile} \cup Files
  BY DEF FirstFiles, Files, Outputs, OutputDirectories, Roots, Modes
<1>4. /\ \A q \in Roots : roots[q].exists = (q = r) /\ roots[q].file = (IF q = r THEN f ELSE NoFile)
      /\ roots \in [Roots -> Disks]
  BY <1>2, <1>3 DEF NewRoot, NoRoot, Disks
<1>5. good \in Settings
  BY <1>2, <1>3 DEF Supported, kSettingsFileVersion, ParseCurrentSettings, Defaults, Settings,
     Files, NoFile,
     Outputs, Modes
<1>6. FilesTypeOK
  <2>1. Idle \in Apped
    BY DEF Idle, Apped, Places, Roots, Statuses, Settings, Defaults, Outputs, OutputDirectories,
       Modes
  <2> QED  BY <1>4, <1>5, <2>1 DEF FilesInit, FilesTypeOK
<1>7. \A a \in Apps : app[a].pc = "idle" /\ app[a].root = "canonical" /\ app[a].loaded = FALSE
  BY DEF FilesInit, Idle
<1>8. ~BothRoots
  BY <1>4 DEF BothRoots, Roots
<1>9. SavedInv
  BY <1>2, <1>4, <1>7 DEF SavedInv, OneInUse, Supported, NoFile
<1>10. OwnerInv /\ RootInv /\ MigrationInv
  BY <1>4, <1>7, <1>8 DEF FilesInit, OwnerInv, RootInv, MigrationInv, Owning, LogOpen, Resolving
<1> QED  BY <1>6, <1>9, <1>10 DEF FilesInv

(* A step of one process leaves the others alone.                          *)
LEMMA OneProcess ==
  ASSUME FilesTypeOK, NEW a \in Apps, NEW new \in Apped, Set(a, new)
  PROVE  /\ app' \in [Apps -> Apped]
         /\ app'[a] = new
         /\ \A b \in Apps \ {a} : app'[b] = app[b]
BY DEF FilesTypeOK, Apped, Set

(* A step that leaves the disk and what is loaded alone.                   *)
LEMMA SavedStays ==
  ASSUME SavedInv, UNCHANGED <<roots, good>>, Orderly' => Orderly,
         \A b \in Apps : app'[b].loaded => app[b].loaded /\ app'[b].settings = app[b].settings
  PROVE  SavedInv'
BY DEF SavedInv, OneInUse, BothRoots, RebasePathFromLegacyRoot, Supported, ParseCurrentSettings

LEMMA StartAppKeeps ==
  ASSUME FilesInv, NEW a \in Apps, StartApp(a)  PROVE FilesInv'
<1>0. FilesTypeOK /\ OwnerInv /\ RootInv /\ MigrationInv /\ SavedInv
  BY DEF FilesInv
<1> DEFINE new == [Idle EXCEPT !.pc = "canonical"]
<1>1. app[a] \in Apped /\ new \in Apped
  BY <1>0 DEF FilesTypeOK, Apped, Places, Resolving, LogOpen, Owning, Statuses, Roots, Idle,
     Settings, Defaults, Outputs, OutputDirectories, Modes
<1>2. /\ app' \in [Apps -> Apped] /\ app'[a] = new /\ \A b \in Apps \ {a} : app'[b] = app[b]
  BY <1>0, <1>1, OneProcess DEF StartApp, Goto, Saving
<1>3. /\ new.pc = "canonical"
      /\ new.root = "canonical"
      /\ ~new.loaded
      /\ app[a].pc = "idle"
  BY <1>1 DEF Apped, StartApp, At, Idle, Settings, Defaults, Outputs, Modes
<1> HIDE DEF new
<1>4. FilesTypeOK'
  BY <1>0, <1>2, <1>3 DEF FilesTypeOK, StartApp, Apped
<1>5. OwnerInv'
  BY <1>0, <1>2, <1>3 DEF OwnerInv, StartApp, Owning
<1>6. RootInv'
  BY <1>0, <1>2, <1>3 DEF RootInv, StartApp, LogOpen, Owning
<1>9. ~disturbed' => ~disturbed /\ \A b \in Apps \ {a} : app[b].pc \notin Resolving
  BY Zenon DEF StartApp
<1>7. MigrationInv'
  BY <1>0, <1>2, <1>3, <1>9 DEF MigrationInv, StartApp, Resolving, BothRoots, Orderly
<1>8. SavedInv'
  BY <1>0, <1>2, <1>3, SavedStays DEF StartApp, Orderly
<1> QED  BY <1>4, <1>5, <1>6, <1>7, <1>8 DEF FilesInv

LEMMA InspectionFailsKeeps ==
  ASSUME FilesInv, NEW a \in Apps, InspectionFails(a)  PROVE FilesInv'
<1>0. FilesTypeOK /\ OwnerInv /\ RootInv /\ MigrationInv /\ SavedInv
  BY DEF FilesInv
<1> DEFINE new == [app[a] EXCEPT !.pc = "ensure", !.status = "InspectionFailed"]
<1>1. app[a] \in Apped /\ new \in Apped
  <2>1. app[a] \in Apped
    BY <1>0 DEF FilesTypeOK
  <2> QED  BY <1>0, <2>1 DEF Apped, Places, Resolving, LogOpen, Owning, Statuses
<1>2. /\ app' \in [Apps -> Apped] /\ app'[a] = new /\ \A b \in Apps \ {a} : app'[b] = app[b]
  BY <1>0, <1>1, OneProcess DEF InspectionFails, Goto, Saving
<1>3. /\ new.pc = "ensure"
      /\ new.loaded = app[a].loaded
      /\ new.settings = app[a].settings
      /\ new.root = app[a].root
      /\ app[a].pc \in {"canonical", "legacy"}
  BY <1>1 DEF Apped, InspectionFails, At
<1> HIDE DEF new
<1>4. FilesTypeOK'
  BY <1>0, <1>2, <1>3 DEF FilesTypeOK, InspectionFails, Apped
<1>5. OwnerInv'
  BY <1>0, <1>2, <1>3 DEF OwnerInv, InspectionFails, Owning
<1>6. RootInv'
  BY <1>0, <1>2, <1>3 DEF RootInv, InspectionFails, LogOpen, Owning
<1>7. MigrationInv'
  BY <1>0, <1>2, <1>3 DEF MigrationInv, InspectionFails, Resolving, BothRoots, Orderly
<1>8. SavedInv'
  BY <1>0, <1>2, <1>3, SavedStays DEF InspectionFails, Orderly
<1> QED  BY <1>4, <1>5, <1>6, <1>7, <1>8 DEF FilesInv

LEMMA InspectCanonicalKeeps ==
  ASSUME FilesInv, NEW a \in Apps, InspectCanonical(a)  PROVE FilesInv'
<1>0. FilesTypeOK /\ OwnerInv /\ RootInv /\ MigrationInv /\ SavedInv
  BY DEF FilesInv
<1> DEFINE new == [app[a] EXCEPT !.pc = "legacy", !.seen = roots["canonical"].exists]
<1>1. app[a] \in Apped /\ new \in Apped
  <2>1. app[a] \in Apped
    BY <1>0 DEF FilesTypeOK
  <2>2. roots["canonical"].exists \in BOOLEAN
    BY <1>0 DEF FilesTypeOK, Disks, Roots
  <2> QED  BY <2>1, <2>2 DEF Apped, Places, Resolving
<1>2. /\ app' \in [Apps -> Apped] /\ app'[a] = new /\ \A b \in Apps \ {a} : app'[b] = app[b]
  BY <1>0, <1>1, OneProcess DEF InspectCanonical, Goto, Saving
<1>3. /\ new.pc = "legacy"
      /\ new.seen = roots["canonical"].exists
      /\ new.root = app[a].root
      /\ new.loaded = app[a].loaded
      /\ new.settings = app[a].settings
      /\ app[a].pc = "canonical"
  BY <1>1 DEF Apped, InspectCanonical, At
<1> HIDE DEF new
<1>4. FilesTypeOK'
  BY <1>0, <1>2, <1>3 DEF FilesTypeOK, InspectCanonical, Apped
<1>5. OwnerInv'
  BY <1>0, <1>2, <1>3 DEF OwnerInv, InspectCanonical, Owning
<1>6. RootInv'
  BY <1>0, <1>2, <1>3 DEF RootInv, InspectCanonical, LogOpen, Owning
<1>7. MigrationInv'
  BY <1>0, <1>2, <1>3 DEF MigrationInv, InspectCanonical, Resolving, BothRoots, Orderly
<1>8. SavedInv'
  BY <1>0, <1>2, <1>3, SavedStays DEF InspectCanonical, Orderly
<1> QED  BY <1>4, <1>5, <1>6, <1>7, <1>8 DEF FilesInv

LEMMA AcquireInstanceKeeps ==
  ASSUME FilesInv, NEW a \in Apps, AcquireInstance(a)  PROVE FilesInv'
<1>0. FilesTypeOK /\ OwnerInv /\ RootInv /\ MigrationInv /\ SavedInv
  BY DEF FilesInv
<1> DEFINE new == [app[a] EXCEPT !.pc = "load"]
<1>1. app[a] \in Apped /\ new \in Apped
  <2>1. app[a] \in Apped
    BY <1>0 DEF FilesTypeOK
  <2> QED  BY <1>0, <2>1 DEF Apped, Places, Resolving, LogOpen, Owning, Statuses
<1>2. /\ app' \in [Apps -> Apped] /\ app'[a] = new /\ \A b \in Apps \ {a} : app'[b] = app[b]
  BY <1>0, <1>1, OneProcess DEF AcquireInstance, Goto, Saving
<1>3. /\ new.pc = "load"
      /\ new.loaded = app[a].loaded
      /\ new.settings = app[a].settings
      /\ new.root = app[a].root
      /\ app[a].pc = "instance"
  BY <1>1 DEF Apped, AcquireInstance, At
<1> HIDE DEF new
<1>4. FilesTypeOK'
  BY <1>0, <1>2, <1>3 DEF FilesTypeOK, AcquireInstance, Apped
<1>5. OwnerInv'
  BY <1>0, <1>2, <1>3 DEF OwnerInv, AcquireInstance, Owning
<1>6. RootInv'
  BY <1>0, <1>2, <1>3 DEF RootInv, AcquireInstance, LogOpen, Owning
<1>7. MigrationInv'
  BY <1>0, <1>2, <1>3 DEF MigrationInv, AcquireInstance, Resolving, BothRoots, Orderly
<1>8. SavedInv'
  BY <1>0, <1>2, <1>3, SavedStays DEF AcquireInstance, Orderly
<1> QED  BY <1>4, <1>5, <1>6, <1>7, <1>8 DEF FilesInv

LEMMA AppEndsKeeps ==
  ASSUME FilesInv, NEW a \in Apps, AppEnds(a)  PROVE FilesInv'
<1>0. FilesTypeOK /\ OwnerInv /\ RootInv /\ MigrationInv /\ SavedInv
  BY DEF FilesInv
<1> DEFINE new == Idle
<1>1. app[a] \in Apped /\ new \in Apped
  BY <1>0 DEF FilesTypeOK, Apped, Places, Resolving, LogOpen, Owning, Statuses, Roots, Idle,
     Settings, Defaults, Outputs, OutputDirectories, Modes
<1>2. /\ app' \in [Apps -> Apped] /\ app'[a] = new /\ \A b \in Apps \ {a} : app'[b] = app[b]
  BY <1>0, <1>1, OneProcess DEF AppEnds, Goto, Saving
<1>3. /\ new.pc = "idle"
      /\ new.root = "canonical"
      /\ ~new.loaded
  BY <1>1 DEF Apped, AppEnds, At, Idle, Settings, Defaults, Outputs, Modes
<1> HIDE DEF new
<1>4. FilesTypeOK'
  BY <1>0, <1>2, <1>3 DEF FilesTypeOK, AppEnds, Apped
<1>5. OwnerInv'
  BY <1>0, <1>2, <1>3 DEF OwnerInv, AppEnds, Owning
<1>6. RootInv'
  BY <1>0, <1>2, <1>3 DEF RootInv, AppEnds, LogOpen, Owning
<1>7. MigrationInv'
  BY <1>0, <1>2, <1>3 DEF MigrationInv, AppEnds, Resolving, BothRoots, Orderly
<1>8. SavedInv'
  BY <1>0, <1>2, <1>3, SavedStays DEF AppEnds, Orderly
<1> QED  BY <1>4, <1>5, <1>6, <1>7, <1>8 DEF FilesInv

LEMMA SaveOpensTemporaryKeeps ==
  ASSUME FilesInv, NEW a \in Apps, SaveOpensTemporary(a)  PROVE FilesInv'
<1>0. FilesTypeOK /\ OwnerInv /\ RootInv /\ MigrationInv /\ SavedInv
  BY DEF FilesInv
<1> DEFINE new == [app[a] EXCEPT !.pc = "write", !.temporary = Torn]
<1>1. app[a] \in Apped /\ new \in Apped
  <2>1. app[a] \in Apped
    BY <1>0 DEF FilesTypeOK
  <2> QED  BY <1>0, <2>1 DEF Apped, Places, Resolving, LogOpen, Owning, Statuses
<1>2. /\ app' \in [Apps -> Apped] /\ app'[a] = new /\ \A b \in Apps \ {a} : app'[b] = app[b]
  BY <1>0, <1>1, OneProcess DEF SaveOpensTemporary, Goto, Saving
<1>3. /\ new.pc = "write"
      /\ new.loaded = app[a].loaded
      /\ new.settings = app[a].settings
      /\ new.root = app[a].root
      /\ app[a].pc = "save"
  BY <1>1 DEF Apped, SaveOpensTemporary, At
<1> HIDE DEF new
<1>4. FilesTypeOK'
  BY <1>0, <1>2, <1>3 DEF FilesTypeOK, SaveOpensTemporary, Apped
<1>5. OwnerInv'
  BY <1>0, <1>2, <1>3 DEF OwnerInv, SaveOpensTemporary, Owning
<1>6. RootInv'
  BY <1>0, <1>2, <1>3 DEF RootInv, SaveOpensTemporary, LogOpen, Owning
<1>7. MigrationInv'
  BY <1>0, <1>2, <1>3 DEF MigrationInv, SaveOpensTemporary, Resolving, BothRoots, Orderly
<1>8. SavedInv'
  BY <1>0, <1>2, <1>3, SavedStays DEF SaveOpensTemporary, Orderly
<1> QED  BY <1>4, <1>5, <1>6, <1>7, <1>8 DEF FilesInv

LEMMA SaveFailsKeeps ==
  ASSUME FilesInv, NEW a \in Apps, SaveFails(a)  PROVE FilesInv'
<1>0. FilesTypeOK /\ OwnerInv /\ RootInv /\ MigrationInv /\ SavedInv
  BY DEF FilesInv
<1> DEFINE new == [app[a] EXCEPT !.pc = "running", !.temporary = NoFile]
<1>1. app[a] \in Apped /\ new \in Apped
  <2>1. app[a] \in Apped
    BY <1>0 DEF FilesTypeOK
  <2> QED  BY <1>0, <2>1 DEF Apped, Places, Resolving, LogOpen, Owning, Statuses
<1>2. /\ app' \in [Apps -> Apped] /\ app'[a] = new /\ \A b \in Apps \ {a} : app'[b] = app[b]
  BY <1>0, <1>1, OneProcess DEF SaveFails, Goto, Saving
<1>3. /\ new.pc = "running"
      /\ new.loaded = app[a].loaded
      /\ new.settings = app[a].settings
      /\ new.root = app[a].root
      /\ app[a].pc \in {"save", "write", "replace"}
  BY <1>1 DEF Apped, SaveFails, At
<1> HIDE DEF new
<1>4. FilesTypeOK'
  BY <1>0, <1>2, <1>3 DEF FilesTypeOK, SaveFails, Apped
<1>5. OwnerInv'
  BY <1>0, <1>2, <1>3 DEF OwnerInv, SaveFails, Owning
<1>6. RootInv'
  BY <1>0, <1>2, <1>3 DEF RootInv, SaveFails, LogOpen, Owning
<1>7. MigrationInv'
  BY <1>0, <1>2, <1>3 DEF MigrationInv, SaveFails, Resolving, BothRoots, Orderly
<1>8. SavedInv'
  BY <1>0, <1>2, <1>3, SavedStays DEF SaveFails, Orderly
<1> QED  BY <1>4, <1>5, <1>6, <1>7, <1>8 DEF FilesInv

LEMMA SaveWritesKeeps ==
  ASSUME FilesInv, NEW a \in Apps, SaveWrites(a)  PROVE FilesInv'
<1>0. FilesTypeOK /\ OwnerInv /\ RootInv /\ MigrationInv /\ SavedInv
  BY DEF FilesInv
<1> DEFINE new == [app[a] EXCEPT !.pc = "replace", !.temporary = SerializeSettings(app[a].candidate)]
<1>10. app[a].candidate \in Settings
  BY <1>0 DEF FilesTypeOK, Apped
<1>9. SerializeSettings(app[a].candidate) \in Files
  BY <1>10 DEF SerializeSettings, kSettingsFileVersion, Files, Settings
<1>1. app[a] \in Apped /\ new \in Apped
  <2>1. app[a] \in Apped
    BY <1>0 DEF FilesTypeOK
  <2> QED  BY <1>9, <2>1 DEF Apped, Places, LogOpen, Owning
<1>2. /\ app' \in [Apps -> Apped] /\ app'[a] = new /\ \A b \in Apps \ {a} : app'[b] = app[b]
  BY <1>0, <1>1, OneProcess DEF SaveWrites, Goto, Saving
<1>3. /\ new.pc = "replace"
      /\ new.temporary = SerializeSettings(new.candidate)
      /\ new.loaded = app[a].loaded
      /\ new.settings = app[a].settings
      /\ new.root = app[a].root
      /\ app[a].pc = "write"
  BY <1>1 DEF Apped, SaveWrites, At
<1> HIDE DEF new
<1>4. FilesTypeOK'
  BY <1>0, <1>2, <1>3 DEF FilesTypeOK, SaveWrites, Apped
<1>5. OwnerInv'
  BY <1>0, <1>2, <1>3 DEF OwnerInv, SaveWrites, Owning
<1>6. RootInv'
  BY <1>0, <1>2, <1>3 DEF RootInv, SaveWrites, LogOpen, Owning
<1>7. MigrationInv'
  BY <1>0, <1>2, <1>3 DEF MigrationInv, SaveWrites, Resolving, BothRoots, Orderly
<1>8. SavedInv'
  BY <1>0, <1>2, <1>3, SavedStays DEF SaveWrites, Orderly
<1> QED  BY <1>4, <1>5, <1>6, <1>7, <1>8 DEF FilesInv

LEMMA InspectLegacyKeeps ==
  ASSUME FilesInv, NEW a \in Apps, InspectLegacy(a)  PROVE FilesInv'
<1>0. FilesTypeOK /\ OwnerInv /\ RootInv /\ MigrationInv /\ SavedInv
  BY DEF FilesInv
<1> DEFINE conflict == [app[a] EXCEPT !.pc = "ensure", !.status = "RootsConflict"]
           rename == [app[a] EXCEPT !.pc = "rename"]
           ready == [app[a] EXCEPT !.pc = "ensure", !.status = "Ready"]
<1>1. PICK new \in Apped :
        /\ Set(a, new)
        /\ new.loaded = app[a].loaded /\ new.settings = app[a].settings /\ new.root = app[a].root
        /\ new.pc \in {"rename", "ensure"}
        /\ new.pc = "rename" => ~app[a].seen /\ roots["legacy"].exists
        /\ new.pc = "ensure" => app[a].seen \/ ~roots["legacy"].exists
  <2>0. app[a] \in Apped /\ conflict \in Apped /\ rename \in Apped /\ ready \in Apped
    BY <1>0 DEF FilesTypeOK, Apped, Places, Resolving, Statuses
  <2>1. CASE app[a].seen /\ roots["legacy"].exists
    <3>1. Set(a, conflict)
      BY <2>1 DEF InspectLegacy
    <3>2. /\ conflict.loaded = app[a].loaded /\ conflict.settings = app[a].settings
          /\ conflict.root = app[a].root /\ conflict.pc = "ensure"
      BY <2>0 DEF Apped
    <3> HIDE DEF conflict
    <3> QED  BY <2>0, <2>1, <3>1, <3>2
  <2>2. CASE ~app[a].seen /\ roots["legacy"].exists
    <3>1. Set(a, rename)
      BY <2>2 DEF InspectLegacy
    <3>2. /\ rename.loaded = app[a].loaded /\ rename.settings = app[a].settings
          /\ rename.root = app[a].root /\ rename.pc = "rename"
      BY <2>0 DEF Apped
    <3> HIDE DEF rename
    <3> QED  BY <2>0, <2>2, <3>1, <3>2
  <2>3. CASE ~roots["legacy"].exists
    <3>1. Set(a, ready)
      BY <2>3 DEF InspectLegacy
    <3>2. /\ ready.loaded = app[a].loaded /\ ready.settings = app[a].settings
          /\ ready.root = app[a].root /\ ready.pc = "ensure"
      BY <2>0 DEF Apped
    <3> HIDE DEF ready
    <3> QED  BY <2>0, <2>3, <3>1, <3>2
  <2> QED  BY <2>1, <2>2, <2>3
<1> HIDE DEF conflict, rename, ready
<1>2. /\ app' \in [Apps -> Apped] /\ app'[a] = new /\ \A b \in Apps \ {a} : app'[b] = app[b]
  BY <1>0, <1>1, OneProcess
<1>3. app[a].pc = "legacy"
  BY DEF InspectLegacy, At
<1>4. UNCHANGED <<roots, holder, starts, good, disturbed, strayed>>
  BY DEF InspectLegacy
<1>5. FilesTypeOK'
  BY <1>0, <1>2, <1>4 DEF FilesTypeOK, Apped
<1>6. OwnerInv'
  BY <1>0, <1>1, <1>2, <1>3, <1>4 DEF OwnerInv, Owning
<1>7. RootInv'
  BY <1>0, <1>1, <1>2, <1>3, <1>4 DEF RootInv, LogOpen, Owning
<1>8. MigrationInv'
  BY <1>0, <1>1, <1>2, <1>3, <1>4 DEF MigrationInv, RootInv, Resolving, BothRoots, Orderly, Roots
<1>9. SavedInv'
  BY <1>0, <1>1, <1>2, <1>4, SavedStays DEF Orderly
<1> QED  BY <1>5, <1>6, <1>7, <1>8, <1>9 DEF FilesInv

(* The move takes the file along; nobody logs in the old root then.        *)
LEMMA MoveLegacyRootKeeps ==
  ASSUME FilesInv, NEW a \in Apps, MoveLegacyRoot(a)  PROVE FilesInv'
<1>0. FilesTypeOK /\ OwnerInv /\ RootInv /\ MigrationInv /\ SavedInv
  BY DEF FilesInv
<1>1. app[a] \in Apped /\ app[a].pc = "rename"
  BY <1>0 DEF FilesTypeOK, Apped, MoveLegacyRoot, At
<1>2. UNCHANGED <<holder, starts, good, disturbed, strayed>>
  BY DEF MoveLegacyRoot
<1>3. CASE /\ roots["legacy"].exists /\ ~roots["canonical"].exists /\ ~LogOpenIn("legacy")
           /\ roots' = [canonical |-> roots["legacy"], legacy |-> NoRoot]
           /\ Set(a, [app[a] EXCEPT !.pc = "ensure", !.status = "Migrated"])
  <2> DEFINE new == [app[a] EXCEPT !.pc = "ensure", !.status = "Migrated"]
  <2>1. /\ new \in Apped /\ new.pc = "ensure" /\ new.root = app[a].root
        /\ new.loaded = app[a].loaded /\ new.settings = app[a].settings
    BY <1>1 DEF Apped, Places, Resolving, Statuses
  <2>2. Set(a, new)
    BY <1>3
  <2> HIDE DEF new
  <2>3. /\ app' \in [Apps -> Apped] /\ app'[a] = new /\ \A b \in Apps \ {a} : app'[b] = app[b]
    BY <1>0, <2>1, <2>2, OneProcess
  <2>4. /\ roots'["canonical"] = roots["legacy"] /\ roots'["legacy"] = NoRoot
        /\ roots' \in [Roots -> Disks]
    <3>1. roots["legacy"] \in Disks /\ NoRoot \in Disks
      BY <1>0 DEF FilesTypeOK, Roots, NoRoot, Disks
    <3> QED  BY <1>3, <3>1 DEF Roots
  <2>5. /\ roots'["canonical"].exists /\ ~roots'["legacy"].exists
    BY <1>3, <2>4 DEF NoRoot
  <2>6. FilesTypeOK'
    BY <1>0, <1>2, <2>3, <2>4 DEF FilesTypeOK, Apped
  <2>7. OwnerInv'
    BY <1>0, <1>1, <1>2, <2>1, <2>3 DEF OwnerInv, Owning
  <2>8. RootInv'
    <3>1. \A b \in Apps : app[b].pc \in LogOpen => app[b].root = "canonical"
      <4>1. \A b \in Apps : app[b].pc \in LogOpen => app[b].root # "legacy"
        BY <1>0, <1>3 DEF LogOpenIn, LogOpen, Owning, Resolving
      <4> QED  BY <1>0, <4>1 DEF FilesTypeOK, Apped, Roots
    <3> QED  BY <1>0, <1>1, <2>1, <2>3, <2>4, <2>5, <3>1 DEF RootInv, LogOpen, Owning, Roots, NoRoot
  <2>9. MigrationInv'
    <3>1. ~BothRoots'
      BY <2>5 DEF BothRoots, Roots
    <3>2. ~disturbed =>
            \A b, c \in Apps : app'[b].pc \in Resolving /\ app'[c].pc \in Resolving => b = c
      BY <1>0, <1>1, <2>3 DEF MigrationInv, Resolving
    <3>3. ASSUME Orderly, NEW b \in Apps
          PROVE  /\ app'[b].root = "canonical"
                 /\ app'[b].pc \notin {"legacy", "rename"}
      <4>1. app[a].root = "canonical"
        BY <1>0, <1>1 DEF RootInv
      <4>2. CASE b = a
        BY <2>1, <2>3, <4>1, <4>2
      <4>3. CASE b # a
        <5>1. app[b].pc \notin Resolving
          BY <1>0, <1>1, <3>3, <4>3 DEF MigrationInv, Orderly, Resolving
        <5>2. app[b].root = "canonical"
          <6>1. app[b].pc \in LogOpen => app[b].root # "legacy"
            BY <1>3 DEF LogOpenIn, LogOpen, Owning, Resolving
          <6>2. app[b].root \in Roots /\ app[b].pc \in Places
            BY <1>0 DEF FilesTypeOK, Apped
          <6>3. app[b].pc = "idle" => app[b].root = "canonical"
            BY <1>0 DEF RootInv
          <6> QED  BY <5>1, <6>1, <6>2, <6>3 DEF Places, Roots
        <5> QED  BY <2>3, <4>3, <5>1, <5>2 DEF Resolving
      <4> QED  BY <4>2, <4>3
    <3> QED  BY <1>2, <2>5, <3>1, <3>2, <3>3 DEF MigrationInv, Orderly
  <2>10. SavedInv'
    <3>1. ~BothRoots
      BY <1>3 DEF BothRoots, Roots
    <3>2. \A r \in Roots : roots'[r].exists => r = "canonical"
      BY <2>5 DEF Roots
    <3>3. Supported(roots["legacy"].file) => ParseCurrentSettings(roots["legacy"].file) = good
      BY <1>0, <1>3, <3>1 DEF SavedInv, OneInUse, Roots
    <3>4. \A r \in Roots : roots'[r].exists /\ Supported(roots'[r].file) =>
                             ParseCurrentSettings(roots'[r].file) = good
      BY <2>4, <3>2, <3>3
    <3>5. \A b \in Apps : app'[b].loaded => app[b].loaded /\ app'[b].settings = app[b].settings
      BY <2>1, <2>3
    <3> QED  BY <1>0, <1>2, <3>1, <3>4, <3>5
             DEF SavedInv, OneInUse, RebasePathFromLegacyRoot, Supported, ParseCurrentSettings
  <2> QED  BY <2>6, <2>7, <2>8, <2>9, <2>10 DEF FilesInv
<1>4. CASE /\ Set(a, [app[a] EXCEPT !.pc = "ensure", !.status = "LegacyFallback", !.root = "legacy"])
           /\ UNCHANGED roots
  <2> DEFINE new == [app[a] EXCEPT !.pc = "ensure", !.status = "LegacyFallback", !.root = "legacy"]
  <2>1. /\ new \in Apped /\ new.pc = "ensure" /\ new.root = "legacy"
        /\ new.loaded = app[a].loaded /\ new.settings = app[a].settings
    BY <1>1 DEF Apped, Places, Resolving, Statuses, Roots
  <2>2. Set(a, new)
    BY <1>4
  <2> HIDE DEF new
  <2>3. /\ app' \in [Apps -> Apped] /\ app'[a] = new /\ \A b \in Apps \ {a} : app'[b] = app[b]
    BY <1>0, <2>1, <2>2, OneProcess
  <2>4. FilesTypeOK'
    BY <1>0, <1>2, <1>4, <2>3 DEF FilesTypeOK, Apped
  <2>5. OwnerInv'
    BY <1>0, <1>1, <1>2, <2>1, <2>3 DEF OwnerInv, Owning
  <2>6. RootInv'
    BY <1>0, <1>1, <1>4, <2>1, <2>3 DEF RootInv, LogOpen, Owning
  <2>7. MigrationInv'
    BY <1>0, <1>1, <1>2, <1>4, <2>1, <2>3 DEF MigrationInv, Resolving, BothRoots, Orderly
  <2>8. SavedInv'
    BY <1>0, <1>2, <1>4, <2>1, <2>3, SavedStays DEF Orderly
  <2> QED  BY <2>4, <2>5, <2>6, <2>7, <2>8 DEF FilesInv
<1> QED  BY <1>3, <1>4 DEF MoveLegacyRoot

(* A root comes into being with nothing in it.                             *)
LEMMA RootIsMade ==
  ASSUME FilesTypeOK, RootInv, NEW r \in Roots, CreateRoot(r)
  PROVE  /\ roots' \in [Roots -> Disks]
         /\ roots'[r].exists
         /\ \A q \in Roots : /\ roots'[q].file = roots[q].file
                             /\ roots[q].exists \/ q # r => roots'[q] = roots[q]
<1>1. roots \in [Roots -> Disks] /\ NewRoot \in Disks /\ NewRoot.exists /\ NewRoot.file = NoFile
  BY DEF FilesTypeOK, NewRoot, NoRoot, Disks
<1>2. roots' = [roots EXCEPT ![r] = IF roots[r].exists THEN roots[r] ELSE NewRoot]
  BY DEF CreateRoot
<1> QED  BY <1>1, <1>2 DEF RootInv

(* The root of a start comes into being only where the starts are not in   *)
(* order, as another has moved it since or an inspection has failed.       *)
LEMMA OwnRootKeeps ==
  ASSUME FilesInv, NEW a \in Apps, NEW new \in Apped, Set(a, new), CreateRoot(app[a].root),
         UNCHANGED <<holder, starts, good, disturbed, strayed>>,
         new.root = app[a].root, new.loaded = app[a].loaded, new.settings = app[a].settings,
         app[a].pc \in {"ensure", "log"}, new.pc \in {"log", "instance"}
  PROVE  FilesInv'
<1>0. FilesTypeOK /\ OwnerInv /\ RootInv /\ MigrationInv /\ SavedInv
  BY DEF FilesInv
<1>1. /\ app' \in [Apps -> Apped] /\ app'[a] = new /\ \A b \in Apps \ {a} : app'[b] = app[b]
  BY <1>0, OneProcess
<1>2. /\ roots' \in [Roots -> Disks] /\ roots'[app[a].root].exists
      /\ \A r \in Roots : /\ roots'[r].file = roots[r].file
                          /\ roots[r].exists \/ r # app[a].root => roots'[r] = roots[r]
  <2>1. app[a].root \in Roots
    BY <1>0 DEF FilesTypeOK, Apped
  <2> QED  BY <1>0, <2>1, RootIsMade
<1>3. \A b \in Apps : app[b].root \in Roots
  BY <1>0 DEF FilesTypeOK, Apped
<1>4. FilesTypeOK'
  BY <1>0, <1>1, <1>2 DEF FilesTypeOK
<1>5. OwnerInv'
  BY <1>0, <1>1 DEF OwnerInv, Owning
<1>6. RootInv'
  <2>1. \A r \in Roots : roots[r].exists => roots'[r].exists
    BY <1>2
  <2>2. \A r \in Roots : ~roots'[r].exists => roots'[r].file = NoFile
    BY <1>0, <1>2 DEF RootInv
  <2>3. ASSUME NEW b \in Apps
        PROVE  /\ app'[b].pc \in LogOpen => roots'[app'[b].root].exists
               /\ app'[b].pc \in {"idle", "canonical", "legacy", "rename"} =>
                    app'[b].root = "canonical"
    BY <1>0, <1>1, <1>2, <1>3, <2>1 DEF RootInv
  <2> QED  BY <1>0, <2>1, <2>2, <2>3 DEF RootInv
<1>7. Orderly => \A r \in Roots : roots'[r] = roots[r]
  BY <1>0, <1>2 DEF MigrationInv
<1>8. MigrationInv'
  <2>1. BothRoots' => disturbed' \/ strayed' # {}
    <3>1. CASE Orderly
      BY <1>0, <1>7, <3>1 DEF MigrationInv, BothRoots
    <3>2. CASE ~Orderly
      BY <3>2 DEF Orderly
    <3> QED  BY <3>1, <3>2
  <2>2. ~disturbed' =>
          \A b, c \in Apps : app'[b].pc \in Resolving /\ app'[c].pc \in Resolving => b = c
    BY <1>0, <1>1 DEF MigrationInv, Resolving
  <2>3. ASSUME Orderly'
        PROVE  /\ BothRoots' => roots'["legacy"].file = NoFile
               /\ \A b \in Apps :
                    /\ roots'["canonical"].exists => app'[b].root = "canonical"
                    /\ app'[b].pc = "legacy" => app'[b].seen = roots'["canonical"].exists
                    /\ app'[b].pc = "rename" => roots'["legacy"].exists /\ ~roots'["canonical"].exists
                    /\ app'[b].pc \in {"ensure", "log"} => roots'[app'[b].root].exists
    <3>1. Orderly /\ roots'["legacy"] = roots["legacy"] /\ roots'["canonical"] = roots["canonical"]
      BY <1>7, <2>3 DEF Orderly, Roots
    <3> QED  BY <1>0, <1>1, <1>2, <1>3, <1>7, <3>1 DEF MigrationInv, BothRoots, Roots
  <2> QED  BY <2>1, <2>2, <2>3 DEF MigrationInv
<1>9. SavedInv'
  <2> SUFFICES ASSUME OneInUse' PROVE SavedInv'
    BY DEF SavedInv
  <2>1. OneInUse /\ \A r \in Roots : roots'[r] = roots[r]
    <3>1. CASE Orderly
      BY <1>7, <3>1 DEF OneInUse
    <3>2. CASE ~Orderly
      <4>1. ~BothRoots'
        BY <3>2 DEF OneInUse, Orderly
      <4> QED  BY <1>0, <1>2, <1>3, <4>1 DEF RootInv, OneInUse, BothRoots, Roots
    <3> QED  BY <3>1, <3>2
  <2>2. \A b \in Apps : app'[b].loaded => app[b].loaded /\ app'[b].settings = app[b].settings
    BY <1>1
  <2> QED  BY <1>0, <2>1, <2>2
           DEF SavedInv, RebasePathFromLegacyRoot, Supported, ParseCurrentSettings
<1> QED  BY <1>4, <1>5, <1>6, <1>8, <1>9 DEF FilesInv

LEMMA EnsureCreatedKeeps ==
  ASSUME FilesInv, NEW a \in Apps, EnsureCreated(a)  PROVE FilesInv'
<1> DEFINE new == [app[a] EXCEPT !.pc = "log"]
<1>1. /\ new \in Apped /\ new.pc = "log" /\ new.root = app[a].root
      /\ new.loaded = app[a].loaded /\ new.settings = app[a].settings /\ app[a].pc = "ensure"
  BY DEF FilesInv, FilesTypeOK, Apped, Places, Resolving, EnsureCreated, At
<1>2. /\ Set(a, new) /\ CreateRoot(app[a].root)
      /\ UNCHANGED <<holder, starts, good, disturbed, strayed>>
  BY DEF EnsureCreated, Goto
<1> HIDE DEF new
<1> QED  BY <1>1, <1>2, OwnRootKeeps

LEMMA OpenLogKeeps ==
  ASSUME FilesInv, NEW a \in Apps, OpenLog(a)  PROVE FilesInv'
<1> DEFINE new == [app[a] EXCEPT !.pc = "instance"]
<1>1. /\ new \in Apped /\ new.pc = "instance" /\ new.root = app[a].root
      /\ new.loaded = app[a].loaded /\ new.settings = app[a].settings /\ app[a].pc = "log"
  BY DEF FilesInv, FilesTypeOK, Apped, Places, LogOpen, OpenLog, At
<1>2. /\ Set(a, new) /\ CreateRoot(app[a].root)
      /\ UNCHANGED <<holder, starts, good, disturbed, strayed>>
  BY DEF OpenLog, Goto
<1> HIDE DEF new
<1> QED  BY <1>1, <1>2, OwnRootKeeps

(* The root that a recording makes is empty; if it is the old one, whoever *)
(* runs uses the new one.                                                  *)
LEMMA CreateOutputDirectoryKeeps ==
  ASSUME FilesInv, NEW a \in Apps, CreateOutputDirectory(a)  PROVE FilesInv'
<1>0. FilesTypeOK /\ OwnerInv /\ RootInv /\ MigrationInv /\ SavedInv
  BY DEF FilesInv
<1>1. PICK r \in Roots : ~roots[r].exists /\ CreateRoot(r) /\ strayed' = strayed \cup {r}
  BY DEF CreateOutputDirectory
<1>2. UNCHANGED <<app, holder, starts, good, disturbed>>
  BY DEF CreateOutputDirectory
<1>3. /\ roots' \in [Roots -> Disks] /\ roots'[r].exists
      /\ \A q \in Roots : /\ roots'[q].file = roots[q].file
                          /\ roots[q].exists \/ q # r => roots'[q] = roots[q]
  BY <1>0, <1>1, RootIsMade
<1>4. Orderly' => Orderly /\ r = "legacy"
  BY <1>1, <1>2 DEF Orderly, Roots
<1>5. FilesTypeOK'
  BY <1>0, <1>1, <1>2, <1>3 DEF FilesTypeOK
<1>6. OwnerInv'
  BY <1>0, <1>2 DEF OwnerInv
<1>7. RootInv'
  <2>1. \A q \in Roots : roots[q].exists => roots'[q].exists
    BY <1>3
  <2>2. \A b \in Apps : app[b].root \in Roots
    BY <1>0 DEF FilesTypeOK, Apped
  <2> QED  BY <1>0, <1>2, <1>3, <2>1, <2>2 DEF RootInv
<1>8. MigrationInv'
  <2>1. BothRoots' => disturbed' \/ strayed' # {}
    BY <1>1
  <2>2. ~disturbed' =>
          \A b, c \in Apps : app'[b].pc \in Resolving /\ app'[c].pc \in Resolving => b = c
    BY <1>0, <1>2 DEF MigrationInv
  <2>3. ASSUME Orderly'
        PROVE  /\ BothRoots' => roots'["legacy"].file = NoFile
               /\ \A b \in Apps :
                    /\ roots'["canonical"].exists => app'[b].root = "canonical"
                    /\ app'[b].pc = "legacy" => app'[b].seen = roots'["canonical"].exists
                    /\ app'[b].pc = "rename" => roots'["legacy"].exists /\ ~roots'["canonical"].exists
                    /\ app'[b].pc \in {"ensure", "log"} => roots'[app'[b].root].exists
    <3>1. /\ Orderly /\ r = "legacy" /\ ~roots["legacy"].exists
          /\ roots'["legacy"].file = NoFile /\ roots'["canonical"] = roots["canonical"]
      BY <1>0, <1>1, <1>3, <1>4, <2>3 DEF RootInv, Roots
    <3>2. roots["canonical"].exists
      BY <1>0, <3>1 DEF RootInv, Roots
    <3> QED  BY <1>0, <1>2, <3>1, <3>2 DEF MigrationInv
  <2> QED  BY <2>1, <2>2, <2>3 DEF MigrationInv
<1>9. SavedInv'
  <2> SUFFICES ASSUME OneInUse' PROVE SavedInv'
    BY DEF SavedInv
  <2>1. OneInUse
    BY <1>1 DEF OneInUse, BothRoots
  <2>2. \A q \in Roots : roots'[q].exists /\ Supported(roots'[q].file) =>
                          ParseCurrentSettings(roots'[q].file) = good
    <3>1. ASSUME NEW q \in Roots, roots'[q].exists, Supported(roots'[q].file)
          PROVE  ParseCurrentSettings(roots'[q].file) = good
      <4>1. roots[q].exists
        BY <1>0, <1>3, <3>1 DEF RootInv, Supported, NoFile
      <4> QED  BY <1>0, <1>3, <2>1, <3>1, <4>1 DEF SavedInv
    <3> QED  BY <3>1
  <2> QED  BY <1>0, <1>2, <2>1, <2>2 DEF SavedInv, RebasePathFromLegacyRoot
<1> QED  BY <1>5, <1>6, <1>7, <1>8, <1>9 DEF FilesInv

LEMMA CreateVideoRecorderKeeps ==
  ASSUME FilesInv, NEW a \in Apps, CreateVideoRecorder(a)  PROVE FilesInv'
<1>0. FilesTypeOK /\ OwnerInv /\ RootInv /\ MigrationInv /\ SavedInv
  BY DEF FilesInv
<1> DEFINE recovery == IF app[a].recovery = "none" THEN app[a].settings.output ELSE app[a].recovery
           new == [app[a] EXCEPT !.recorder = app[a].settings.output, !.recovery = recovery]
<1>1. app[a] \in Apped /\ recovery \in Outputs /\ app[a].settings.output \in Outputs
  BY <1>0 DEF FilesTypeOK, Apped, Settings
<1> HIDE DEF recovery
<1>2. /\ new \in Apped /\ new.pc = app[a].pc /\ app[a].pc = "running" /\ new.root = app[a].root
      /\ new.loaded = app[a].loaded /\ new.settings = app[a].settings
  BY <1>1 DEF Apped, CreateVideoRecorder, At
<1>3. Set(a, new)
  BY DEF CreateVideoRecorder, recovery
<1> HIDE DEF new
<1>4. /\ app' \in [Apps -> Apped] /\ app'[a] = new /\ \A b \in Apps \ {a} : app'[b] = app[b]
  BY <1>0, <1>2, <1>3, OneProcess
<1>5. UNCHANGED <<roots, holder, starts, good, disturbed, strayed>>
  BY DEF CreateVideoRecorder
<1>6. FilesTypeOK'
  BY <1>0, <1>4, <1>5 DEF FilesTypeOK
<1>7. OwnerInv'
  BY <1>0, <1>2, <1>4, <1>5 DEF OwnerInv, Owning
<1>8. RootInv'
  BY <1>0, <1>2, <1>4, <1>5 DEF RootInv, LogOpen, Owning
<1>9. MigrationInv'
  BY <1>0, <1>2, <1>4, <1>5 DEF MigrationInv, Resolving, BothRoots, Orderly
<1>10. SavedInv'
  BY <1>0, <1>2, <1>4, <1>5, SavedStays DEF Orderly
<1> QED  BY <1>6, <1>7, <1>8, <1>9, <1>10 DEF FilesInv

(* What is loaded is what was saved last: no other root has settings.      *)
LEMMA LoadSettingsFileKeeps ==
  ASSUME FilesInv, NEW a \in Apps, LoadSettingsFile(a)  PROVE FilesInv'
<1>0. FilesTypeOK /\ OwnerInv /\ RootInv /\ MigrationInv /\ SavedInv
  BY DEF FilesInv
<1> DEFINE file == roots[app[a].root].file
           parsed == ParseCurrentSettings(file)
           rebased == [parsed EXCEPT !.output = RebasePathFromLegacyRoot(@)]
<1>1. app[a] \in Apped /\ app[a].pc = "load" /\ roots[app[a].root].exists
  BY <1>0 DEF FilesTypeOK, RootInv, LogOpen, Owning, Apped, LoadSettingsFile, At
<1>2. UNCHANGED <<roots, holder, starts, good, disturbed, strayed>>
  BY DEF LoadSettingsFile
<1>3. ASSUME Supported(file)
      PROVE  /\ parsed \in Settings /\ rebased \in Settings
             /\ rebased.value = parsed.value /\ rebased.mode = parsed.mode
             /\ rebased.output = RebasePathFromLegacyRoot(parsed.output)
  <2>1. file \in Files
    <3>1. file \in {NoFile} \cup Files
      BY <1>0, <1>1 DEF FilesTypeOK, Apped, Disks
    <3>2. file # NoFile
      BY <1>3 DEF Supported, NoFile, kSettingsFileVersion
    <3> QED  BY <3>1, <3>2
  <2> HIDE DEF file
  <2>2. parsed \in Settings
    BY <2>1 DEF ParseCurrentSettings, Files, Settings, Modes
  <2>3. RebasePathFromLegacyRoot(parsed.output) \in Outputs
    BY <2>2 DEF RebasePathFromLegacyRoot, Settings, Outputs, OutputDirectories, Roots
  <2> HIDE DEF parsed
  <2> QED  BY <2>2, <2>3 DEF Settings
<1>4. PICK new \in Apped :
        /\ Set(a, new)
        /\ new.pc \in {"running", "save"} /\ new.root = app[a].root
        /\ new.loaded => Supported(file) /\ new.settings \in {parsed, rebased}
  <2> DEFINE none == [app[a] EXCEPT !.pc = "running", !.settings = Defaults(app[a].root)]
             moved == [app[a] EXCEPT !.pc = "save", !.loaded = TRUE, !.settings = rebased,
                                     !.candidate = rebased]
             plain == [app[a] EXCEPT !.pc = "running", !.loaded = TRUE, !.settings = parsed]
  <2>1. CASE Set(a, none)
    <3>1. Defaults(app[a].root) \in Settings
      BY <1>1 DEF Apped, Defaults, Settings, Outputs, OutputDirectories, Modes
    <3>2. ~app[a].loaded
      BY <1>0, <1>1 DEF OwnerInv, Owning
    <3>3. /\ none \in Apped /\ none.pc = "running" /\ none.root = app[a].root
          /\ none.loaded = app[a].loaded
      BY <1>1, <3>1 DEF Apped, Places, LogOpen, Owning
    <3> HIDE DEF none
    <3> QED  BY <2>1, <3>2, <3>3
  <2>2. CASE Supported(file) /\ Set(a, moved)
    <3> HIDE DEF rebased
    <3>1. /\ moved \in Apped /\ moved.pc = "save" /\ moved.root = app[a].root
          /\ moved.settings = rebased
      BY <1>1, <1>3, <2>2 DEF Apped, Places, LogOpen, Owning
    <3> HIDE DEF moved
    <3> QED  BY <2>2, <3>1
  <2>3. CASE Supported(file) /\ Set(a, plain)
    <3> HIDE DEF parsed
    <3>1. /\ plain \in Apped /\ plain.pc = "running" /\ plain.root = app[a].root
          /\ plain.settings = parsed
      BY <1>1, <1>3, <2>3 DEF Apped, Places, LogOpen, Owning
    <3> HIDE DEF plain
    <3> QED  BY <2>3, <3>1
  <2> QED  BY <2>1, <2>2, <2>3 DEF LoadSettingsFile
<1> HIDE DEF parsed, rebased
<1>5. /\ app' \in [Apps -> Apped] /\ app'[a] = new /\ \A b \in Apps \ {a} : app'[b] = app[b]
  BY <1>0, <1>4, OneProcess
<1>6. FilesTypeOK'
  BY <1>0, <1>2, <1>5 DEF FilesTypeOK, Apped
<1>7. OwnerInv'
  BY <1>0, <1>1, <1>2, <1>4, <1>5 DEF OwnerInv, Owning
<1>8. RootInv'
  BY <1>0, <1>1, <1>2, <1>4, <1>5 DEF RootInv, LogOpen, Owning
<1>9. MigrationInv'
  BY <1>0, <1>1, <1>2, <1>4, <1>5 DEF MigrationInv, Resolving, BothRoots, Orderly
<1>10. SavedInv'
  <2> SUFFICES ASSUME OneInUse PROVE SavedInv'
    BY <1>2 DEF SavedInv, OneInUse, BothRoots, Orderly
  <2>1. Supported(file) => parsed = good
    BY <1>0, <1>1 DEF SavedInv, Apped, parsed
  <2>2. new.loaded =>
          /\ new.settings.value = good.value /\ new.settings.mode = good.mode
          /\ new.settings.output \in {good.output, RebasePathFromLegacyRoot(good.output)}
    BY <1>3, <1>4, <2>1
  <2>3. \A b \in Apps : app'[b].loaded =>
          /\ app'[b].settings.value = good.value /\ app'[b].settings.mode = good.mode
          /\ app'[b].settings.output \in {good.output, RebasePathFromLegacyRoot(good.output)}
    BY <1>0, <1>5, <2>2 DEF SavedInv
  <2>4. \A r \in Roots :
          roots[r].exists /\ Supported(roots[r].file) => ParseCurrentSettings(roots[r].file) = good
    BY <1>0 DEF SavedInv
  <2> QED  BY <1>2, <2>3, <2>4
           DEF SavedInv, RebasePathFromLegacyRoot, Supported, ParseCurrentSettings
<1> QED  BY <1>6, <1>7, <1>8, <1>9, <1>10 DEF FilesInv

LEMMA ApplySettingsKeeps ==
  ASSUME FilesInv, NEW a \in Apps, ApplySettings(a)  PROVE FilesInv'
<1>0. FilesTypeOK /\ OwnerInv /\ RootInv /\ MigrationInv /\ SavedInv
  BY DEF FilesInv
<1>1. app[a] \in Apped /\ app[a].pc = "running"
  BY <1>0 DEF FilesTypeOK, Apped, ApplySettings, At
<1>2. PICK output \in OutputDirectories :
        Set(a, [app[a] EXCEPT !.pc = "save",
                  !.candidate = [value |-> 2, output |-> output, mode |-> "balanced"]])
  BY Zenon DEF ApplySettings
<1> DEFINE candidate == [value |-> 2, output |-> output, mode |-> "balanced"]
           new == [app[a] EXCEPT !.pc = "save", !.candidate = candidate]
<1>3. candidate \in Settings
  BY <1>1 DEF Settings, Outputs, Modes
<1> HIDE DEF candidate
<1>4. /\ new \in Apped /\ new.pc = "save" /\ new.root = app[a].root
      /\ new.loaded = app[a].loaded /\ new.settings = app[a].settings
  BY <1>1, <1>3 DEF Apped, Places, LogOpen, Owning
<1>5. Set(a, new)
  BY <1>2 DEF candidate
<1> HIDE DEF new
<1>6. /\ app' \in [Apps -> Apped] /\ app'[a] = new /\ \A b \in Apps \ {a} : app'[b] = app[b]
  BY <1>0, <1>4, <1>5, OneProcess
<1>7. UNCHANGED <<roots, holder, starts, good, disturbed, strayed>>
  BY DEF ApplySettings
<1>8. FilesTypeOK'
  BY <1>0, <1>6, <1>7 DEF FilesTypeOK, Apped
<1>9. OwnerInv'
  BY <1>0, <1>1, <1>4, <1>6, <1>7 DEF OwnerInv, Owning
<1>10. RootInv'
  BY <1>0, <1>1, <1>4, <1>6, <1>7 DEF RootInv, LogOpen, Owning
<1>11. MigrationInv'
  BY <1>0, <1>1, <1>4, <1>6, <1>7 DEF MigrationInv, Resolving, BothRoots, Orderly
<1>12. SavedInv'
  BY <1>0, <1>4, <1>6, <1>7, SavedStays DEF Orderly
<1> QED  BY <1>8, <1>9, <1>10, <1>11, <1>12 DEF FilesInv

(* What replaces the file is whole, and nobody else has it loaded.         *)
LEMMA SaveReplacesKeeps ==
  ASSUME FilesInv, NEW a \in Apps, SaveReplaces(a)  PROVE FilesInv'
<1>0. FilesTypeOK /\ OwnerInv /\ RootInv /\ MigrationInv /\ SavedInv
  BY DEF FilesInv
<1>1. /\ app[a] \in Apped /\ app[a].pc = "replace" /\ app[a].root \in Roots
      /\ app[a].candidate \in Settings
  BY <1>0 DEF FilesTypeOK, Apped, SaveReplaces, At
<1>2. UNCHANGED <<holder, starts, disturbed, strayed>> /\ good' = app[a].candidate
  BY DEF SaveReplaces
<1> DEFINE new == [app[a] EXCEPT !.pc = "running", !.settings = app[a].candidate, !.loaded = TRUE,
                                 !.temporary = NoFile]
<1>3. /\ new \in Apped /\ new.pc = "running" /\ new.root = app[a].root
      /\ new.settings = app[a].candidate
  BY <1>1 DEF Apped, Places, LogOpen, Owning, Outputs
<1>4. Set(a, new)
  BY DEF SaveReplaces
<1> HIDE DEF new
<1>5. /\ app' \in [Apps -> Apped] /\ app'[a] = new /\ \A b \in Apps \ {a} : app'[b] = app[b]
  BY <1>0, <1>3, <1>4, OneProcess
<1>6. app[a].temporary = SerializeSettings(app[a].candidate) /\ app[a].temporary \in Files
  BY <1>0, <1>1 DEF OwnerInv, SerializeSettings, kSettingsFileVersion, Files, Settings
<1>7. ParseCurrentSettings(app[a].temporary) = app[a].candidate
  BY <1>1, <1>6 DEF ParseCurrentSettings, SerializeSettings, kSettingsFileVersion, Settings
<1>8. /\ roots' \in [Roots -> Disks]
      /\ \A r \in Roots :
           /\ roots'[r].exists = roots[r].exists
           /\ roots'[r].file = (IF r = app[a].root THEN app[a].temporary ELSE roots[r].file)
  <2>1. roots \in [Roots -> Disks]
    BY <1>0 DEF FilesTypeOK
  <2>2. roots' = [roots EXCEPT ![app[a].root] = [roots[app[a].root] EXCEPT !.file = app[a].temporary]]
    BY DEF SaveReplaces
  <2> QED  BY <1>1, <1>6, <2>1, <2>2 DEF Disks
<1>9. FilesTypeOK'
  BY <1>0, <1>1, <1>2, <1>5, <1>8 DEF FilesTypeOK, Apped
<1>10. OwnerInv'
  BY <1>0, <1>1, <1>2, <1>3, <1>5 DEF OwnerInv, Owning
<1>11. \A b \in Apps : app[b].root \in Roots
  BY <1>0 DEF FilesTypeOK, Apped
<1>12. roots[app[a].root].exists
  BY <1>0, <1>1 DEF RootInv, LogOpen, Owning
<1>13. RootInv'
  <2>1. \A r \in Roots : ~roots'[r].exists => roots'[r].file = NoFile
    BY <1>0, <1>8, <1>12 DEF RootInv
  <2> QED  BY <1>0, <1>1, <1>3, <1>5, <1>8, <1>11, <2>1 DEF RootInv, LogOpen, Owning
<1>14. Orderly /\ roots["canonical"].exists => app[a].root = "canonical"
  BY <1>0 DEF MigrationInv
<1>15. MigrationInv'
  <2>1. (Orderly' <=> Orderly) /\ (BothRoots' <=> BothRoots)
    BY <1>2, <1>8 DEF Orderly, BothRoots
  <2>2. Orderly /\ BothRoots => roots'["legacy"].file = NoFile
    BY <1>0, <1>8, <1>14 DEF MigrationInv, BothRoots, Roots
  <2>3. ~disturbed' =>
          \A b, c \in Apps : app'[b].pc \in Resolving /\ app'[c].pc \in Resolving => b = c
    BY <1>0, <1>2, <1>3, <1>5 DEF MigrationInv, Resolving
  <2>4. ASSUME Orderly, NEW b \in Apps
        PROVE  /\ roots'["canonical"].exists => app'[b].root = "canonical"
               /\ app'[b].pc = "legacy" => app'[b].seen = roots'["canonical"].exists
               /\ app'[b].pc = "rename" => roots'["legacy"].exists /\ ~roots'["canonical"].exists
               /\ app'[b].pc \in {"ensure", "log"} => roots'[app'[b].root].exists
    <3>1. "canonical" \in Roots /\ "legacy" \in Roots /\ app[b].root \in Roots
      BY <1>11 DEF Roots
    <3>2. app'[b].root = app[b].root
      BY <1>3, <1>5
    <3>3. app'[b].pc \in {"legacy", "rename", "ensure", "log"} => app'[b] = app[b]
      BY <1>3, <1>5
    <3> QED  BY <1>0, <1>8, <2>4, <3>1, <3>2, <3>3 DEF MigrationInv
  <2> QED  BY <1>0, <1>2, <2>1, <2>2, <2>3, <2>4 DEF MigrationInv
<1>16. SavedInv'
  <2> SUFFICES ASSUME OneInUse' PROVE SavedInv'
    BY DEF SavedInv
  <2>1. OneInUse
    BY <1>2, <1>8 DEF OneInUse, Orderly, BothRoots
  <2>2. \A r \in Roots : roots[r].exists /\ r # app[a].root => roots[r].file = NoFile
    <3>1. ASSUME NEW r \in Roots, roots[r].exists, r # app[a].root
          PROVE  roots[r].file = NoFile
      <4>1. BothRoots
        BY <1>1, <1>12, <3>1 DEF BothRoots, Roots
      <4>2. r = "legacy"
        BY <1>1, <1>14, <2>1, <3>1, <4>1 DEF OneInUse, BothRoots, Roots
      <4> QED  BY <1>0, <2>1, <4>1, <4>2 DEF MigrationInv, OneInUse
    <3> QED  BY <3>1
  <2>3. \A r \in Roots : roots'[r].exists /\ Supported(roots'[r].file) =>
                          ParseCurrentSettings(roots'[r].file) = good'
    <3>1. ASSUME NEW r \in Roots, roots'[r].exists, Supported(roots'[r].file), r # app[a].root
          PROVE  FALSE
      BY <1>8, <2>2, <3>1 DEF Supported, NoFile
    <3> QED  BY <1>2, <1>7, <1>8, <3>1
  <2>4. \A b \in Apps : app'[b].loaded => app'[b].settings = good'
    <3>1. \A b \in Apps \ {a} : ~app[b].loaded
      BY <1>0, <1>1 DEF OwnerInv, Owning
    <3> QED  BY <1>2, <1>3, <1>5, <3>1
  <2> QED  BY <2>3, <2>4 DEF SavedInv
<1> QED  BY <1>9, <1>10, <1>13, <1>15, <1>16 DEF FilesInv

LEMMA FilesStep == FilesInv /\ [FilesNext]_filesVars => FilesInv'
<1>1. ASSUME FilesInv, UNCHANGED filesVars PROVE FilesInv'
  BY <1>1 DEF FilesInv, FilesTypeOK, OwnerInv, RootInv, MigrationInv, SavedInv, filesVars,
     BothRoots, OneInUse, Orderly, Supported, ParseCurrentSettings, SerializeSettings,
     RebasePathFromLegacyRoot
<1>2. ASSUME FilesInv, NEW a \in Apps,
             \/ StartApp(a) \/ InspectionFails(a) \/ InspectCanonical(a) \/ InspectLegacy(a)
             \/ MoveLegacyRoot(a) \/ EnsureCreated(a) \/ OpenLog(a) \/ AcquireInstance(a)
             \/ LoadSettingsFile(a) \/ AppEnds(a) \/ ApplySettings(a) \/ SaveOpensTemporary(a)
             \/ SaveWrites(a) \/ SaveReplaces(a) \/ SaveFails(a)
             \/ CreateVideoRecorder(a) \/ CreateOutputDirectory(a)
      PROVE  FilesInv'
  BY <1>2, StartAppKeeps, InspectionFailsKeeps, InspectCanonicalKeeps, InspectLegacyKeeps,
     MoveLegacyRootKeeps, EnsureCreatedKeeps, OpenLogKeeps, AcquireInstanceKeeps,
     LoadSettingsFileKeeps, AppEndsKeeps, ApplySettingsKeeps, SaveOpensTemporaryKeeps,
     SaveWritesKeeps, SaveReplacesKeeps, SaveFailsKeeps, CreateVideoRecorderKeeps,
     CreateOutputDirectoryKeeps
<1> QED  BY <1>1, <1>2 DEF FilesNext

(* However starts, migrations, recordings, saves and crashes follow one    *)
(* another, the settings file is whole; a second root is there only when a *)
(* migration was disturbed or an output directory lies in it, and has no   *)
(* settings in the latter case, if it is the old one; and then, or as long *)
(* as there is one root, what a process has loaded is what was saved last: *)
(* SaveSettingsFileAtomic, ResolveRuntimePathsWithLegacyMigration and the  *)
(* Prepare of a recording.                                                 *)
THEOREM SettingsAreKept == FilesSpec => []SettingsSurvive
<1>1. FilesInv => SettingsSurvive
  <2> SUFFICES ASSUME FilesInv PROVE SettingsSurvive
    OBVIOUS
  <2>1. \A r \in Roots : roots[r].file # Torn
    <3>1. \A f \in {NoFile} \cup Files : f.version \in Nat
      BY DEF NoFile, Files
    <3>2. \A r \in Roots : roots[r].file.version \in Nat
      BY <3>1 DEF FilesInv, FilesTypeOK, Disks
    <3> QED  BY <3>2 DEF Torn
  <2>2. (\A r \in Roots : roots[r].file # NoFile) => ~Orderly
    <3> SUFFICES ASSUME \A r \in Roots : roots[r].file # NoFile, Orderly PROVE FALSE
      OBVIOUS
    <3>1. BothRoots
      BY DEF FilesInv, RootInv, BothRoots
    <3> QED  BY <3>1 DEF FilesInv, MigrationInv, Roots
  <2> QED  BY <2>1, <2>2 DEF FilesInv, MigrationInv, SavedInv, OneInUse, SettingsSurvive
<1> QED  BY <1>1, FilesStart, FilesStep, PTL DEF FilesSpec

-----------------------------------------------------------------------------
(* The ring of the microphone check.                                       *)

Wrap(x) == IF x < Capacity THEN x ELSE x - Capacity

(* Positions in the ring never go round more than once.                    *)
LEMMA Wrapping == \A x \in 0..(2 * Capacity - 1) : x % Capacity = Wrap(x)
<1>1. Capacity \in Nat \ {0}
  BY FifoAssumption
<1>2. \A c \in Nat \ {0} : \A x \in 0..(2 * c - 1) : x % c = IF x < c THEN x ELSE x - c
  OBVIOUS
<1> QED  BY <1>1, <1>2 DEF Wrap

(* What is in the ring, oldest first.                                      *)
Content == [i \in 1..size |-> bytes[(read + i - 1) % Capacity]]

FifoInv ==
  /\ bytes \in [Ring -> Frames]
  /\ read \in Ring
  /\ size \in 0..Capacity

LEMMA ContentIs ==
  FifoInv => /\ Content \in Seq(Frames) /\ Len(Content) = size
             /\ \A i \in 1..size : Content[i] = bytes[Wrap(read + i - 1)]
<1> SUFFICES ASSUME FifoInv
             PROVE  /\ Content \in Seq(Frames) /\ Len(Content) = size
                    /\ \A i \in 1..size : Content[i] = bytes[Wrap(read + i - 1)]
  OBVIOUS
<1>1. Capacity \in Nat \ {0} /\ read \in 0..Capacity - 1 /\ size \in 0..Capacity
  BY FifoAssumption DEF FifoInv, Ring
<1>2. \A i \in 1..size : /\ Wrap(read + i - 1) \in Ring
                         /\ (read + i - 1) % Capacity = Wrap(read + i - 1)
  <2> SUFFICES ASSUME NEW i \in 1..size
               PROVE  /\ Wrap(read + i - 1) \in Ring
                      /\ (read + i - 1) % Capacity = Wrap(read + i - 1)
    OBVIOUS
  <2>1. read + i - 1 \in 0..(2 * Capacity - 1)
    BY <1>1
  <2>2. Wrap(read + i - 1) \in Ring
    BY <1>1, <2>1 DEF Wrap, Ring
  <2> QED  BY <2>1, <2>2, Wrapping
<1>3. \A i \in 1..size : bytes[Wrap(read + i - 1)] \in Frames
  BY <1>2 DEF FifoInv
<1>4. Content \in [1..size -> Frames]
  BY <1>2, <1>3 DEF Content
<1>5. \A i \in 1..size : Content[i] = bytes[(read + i - 1) % Capacity]
  BY DEF Content
<1> HIDE DEF Content
<1>6. Content \in Seq(Frames) /\ Len(Content) = size
  BY <1>1, <1>4
<1> QED  BY <1>2, <1>5, <1>6

(* Blocks are sequences of frames.                                         *)
LEMMA BlocksAreFrames ==
  ASSUME NEW block \in Blocks
  PROVE  block \in Seq(Frames) /\ Len(block) \in 1..MaxPush
<1>1. Cardinality(Frames) \in Nat
  BY FifoAssumption, FS_CardinalityType
<1>2. Sounds \in Nat \ {0} /\ Frames = 0..Sounds /\ MaxPush \in Nat
  BY <1>1, FifoAssumption DEF Sounds
<1>3. \A x \in Nat : 1 + (x % Sounds) \in Frames
  BY <1>2
<1>4. CASE block \in {[i \in 1..n |-> 0] : n \in 1..MaxPush}
  <2>1. PICK n \in 1..MaxPush : block = [i \in 1..n |-> 0]
    BY <1>4
  <2> QED  BY <1>2, <2>1
<1>5. CASE block \in {[i \in 1..n |-> 1 + ((f + i) % Sounds)] : n \in 1..MaxPush, f \in Frames}
  <2>1. PICK n \in 1..MaxPush, f \in Frames : block = [i \in 1..n |-> 1 + ((f + i) % Sounds)]
    BY <1>5
  <2>2. \A i \in 1..n : f + i \in Nat
    BY <1>2, <2>1
  <2>3. block \in [1..n -> Frames]
    BY <1>3, <2>1, <2>2
  <2> QED  BY <1>2, <2>1, <2>3
<1> QED  BY <1>4, <1>5 DEF Blocks

(* Push writes the block, or its end, behind what it leaves of the rest;   *)
(* the pieces do not overlap what is kept.                                 *)
LEMMA PushWrites ==
  ASSUME FifoInv, NEW block \in Seq(Frames), Len(block) >= 1, Push(block)
  PROVE  \E n \in Nat, keep \in Nat :
           /\ FifoInv'
           /\ n <= Len(block) /\ keep <= size /\ size' = keep + n
           /\ n = Len(block) \/ (n = Capacity /\ keep = 0)
           /\ (n = Len(block) /\ keep = size) \/ size' = Capacity
           /\ \A i \in 1..size' :
                bytes'[Wrap(read' + i - 1)] =
                  IF i <= keep THEN Content[size - keep + i]
                  ELSE block[Len(block) - n + i - keep]
<1> DEFINE n == Fewer(Len(block), Capacity)
           skipped == Len(block) - n
           left == IF Len(block) >= Capacity THEN [read |-> 0, size |-> 0] ELSE MakeRoom(n)
           write == (left.read + left.size) % Capacity
           piece == Fewer(n, Capacity - write)
           once == WriteFrames(bytes, write, block, skipped + 1, piece)
<1>1. /\ bytes' = WriteFrames(once, 0, block, skipped + 1 + piece, n - piece)
      /\ read' = left.read /\ size' = left.size + n
  BY DEF Push
<1>2. /\ Capacity \in Nat \ {0} /\ read \in 0..(Capacity - 1) /\ size \in 0..Capacity
      /\ Len(block) \in Nat \ {0}
  BY FifoAssumption DEF FifoInv, Ring
<1>3. /\ n \in 1..Capacity /\ n <= Len(block)
      /\ n = Len(block) \/ n = Capacity
  BY <1>2 DEF Fewer
<1>4. /\ left.size \in 0..size /\ left.size + n <= Capacity /\ left.read \in 0..(Capacity - 1)
      /\ n = Len(block) \/ left.size = 0
      /\ (n = Len(block) /\ left.size = size) \/ left.size + n = Capacity
      /\ left.size > 0 => left.read = Wrap(read + (size - left.size))
  <2>1. CASE Len(block) >= Capacity
    <3>1. n = Capacity /\ left = [read |-> 0, size |-> 0]
      BY <1>2, <2>1 DEF Fewer
    <3>2. left.read = 0 /\ left.size = 0
      BY <3>1
    <3> HIDE DEF n, left
    <3> QED  BY <1>2, <3>1, <3>2
  <2>2. CASE Len(block) < Capacity
    <3>1. n = Len(block) /\ left = MakeRoom(n)
      BY <1>2, <2>2 DEF Fewer
    <3> HIDE DEF n, left
    <3>2. CASE size + n > Capacity
      <4>1. left.read = (read + (size + n - Capacity)) % Capacity /\ left.size = size - (size + n - Capacity)
        BY <3>1, <3>2 DEF MakeRoom
      <4>2. read + (size + n - Capacity) \in 0..(2 * Capacity - 1)
        BY <1>2, <1>3, <2>2, <3>1, <3>2
      <4>3. left.read = Wrap(read + (size + n - Capacity))
        BY <4>1, <4>2, Wrapping
      <4>4. left.read \in 0..(Capacity - 1)
        BY <1>2, <4>2, <4>3 DEF Wrap
      <4>5. left.size = Capacity - n /\ size - left.size = size + n - Capacity
        BY <1>2, <1>3, <4>1
      <4> QED  BY <1>2, <1>3, <3>1, <3>2, <4>3, <4>4, <4>5
    <3>3. CASE size + n <= Capacity
      <4>1. left.read = read /\ left.size = size
        BY <1>2, <1>3, <3>1, <3>3 DEF MakeRoom
      <4> QED  BY <1>2, <1>3, <3>1, <3>3, <4>1 DEF Wrap
    <3> QED  BY <1>2, <1>3, <3>2, <3>3
  <2> QED  BY <1>2, <2>1, <2>2
<1> HIDE DEF n, left
<1>14. PICK from \in Int, keep \in Int :
          /\ from = left.read /\ keep = left.size
          /\ from \in 0..(Capacity - 1) /\ keep \in 0..size /\ keep + n <= Capacity
          /\ (n = Len(block) \/ keep = 0)
          /\ (n = Len(block) /\ keep = size) \/ keep + n = Capacity
          /\ keep > 0 => from = Wrap(read + (size - keep))
  BY <1>2, <1>4
<1>15. /\ Capacity \in Int /\ read \in Int /\ size \in Int /\ n \in Int /\ Len(block) \in Int
       /\ 0 <= read /\ read < Capacity /\ 0 <= size /\ size <= Capacity
       /\ 1 <= n /\ n <= Capacity /\ n <= Len(block)
       /\ 0 <= from /\ from < Capacity /\ 0 <= keep /\ keep <= size /\ keep + n <= Capacity
       /\ keep > 0 => from = Wrap(read + (size - keep))
  BY <1>2, <1>3, <1>14
<1>5. write \in Int /\ write = Wrap(from + keep) /\ 0 <= write /\ write < Capacity
  <2>1. 0 <= from + keep /\ from + keep <= 2 * Capacity - 1
    BY ONLY <1>15
  <2>2. from + keep \in 0..(2 * Capacity - 1)
    BY ONLY <1>15, <2>1
  <2>3. write = Wrap(from + keep)
    BY <1>14, <2>2, Wrapping DEF write
  <2> QED  BY ONLY <1>15, <2>1, <2>3 DEF Wrap
<1> HIDE DEF write
<1>6. /\ piece \in Int /\ 1 <= piece /\ piece <= n /\ piece <= Capacity - write
      /\ piece = n \/ piece = Capacity - write
  BY ONLY <1>5, <1>15 DEF Fewer, piece
<1> HIDE DEF piece
<1>7. skipped \in Int /\ 0 <= skipped /\ skipped + n = Len(block)
  BY ONLY <1>15 DEF skipped
<1> HIDE DEF skipped
<1>8. \A j \in Ring :
        bytes'[j] = IF j <= n - piece - 1 THEN block[skipped + 1 + piece + j]
                    ELSE IF write <= j /\ j <= write + piece - 1 THEN block[skipped + 1 + j - write]
                    ELSE bytes[j]
  <2> SUFFICES ASSUME NEW j \in Ring
               PROVE  bytes'[j] = IF j <= n - piece - 1 THEN block[skipped + 1 + piece + j]
                        ELSE IF write <= j /\ j <= write + piece - 1 THEN block[skipped + 1 + j - write]
                        ELSE bytes[j]
    OBVIOUS
  <2>1. j \in Int /\ 0 <= j /\ j < Capacity
    BY <1>15 DEF Ring
  <2>2. once[j] = IF j \in write..(write + piece - 1) THEN block[skipped + 1 + j - write] ELSE bytes[j]
    BY DEF WriteFrames
  <2>3. bytes'[j] = IF j \in 0..(0 + (n - piece) - 1) THEN block[skipped + 1 + piece + j - 0] ELSE once[j]
    BY <1>1 DEF WriteFrames
  <2> HIDE DEF once
  <2>4. (j \in 0..(0 + (n - piece) - 1)) <=> j <= n - piece - 1
    BY ONLY <1>15, <1>6, <2>1
  <2>5. (j \in write..(write + piece - 1)) <=> (write <= j /\ j <= write + piece - 1)
    BY ONLY <1>15, <1>5, <1>6, <2>1
  <2>6. skipped + 1 + piece + j - 0 = skipped + 1 + piece + j
    BY ONLY <1>6, <1>7, <2>1
  <2> QED  BY <2>2, <2>3, <2>4, <2>5, <2>6
<1>9. \A i \in 1..Len(block) : block[i] \in Frames
  OBVIOUS
<1>10. FifoInv'
  <2>1. bytes' \in [Ring -> Frames]
    <3>1. \A j \in Ring : bytes'[j] \in Frames
      <4> SUFFICES ASSUME NEW j \in Ring PROVE bytes'[j] \in Frames
        OBVIOUS
      <4>0. j \in Int /\ 0 <= j /\ j < Capacity
        BY <1>15 DEF Ring
      <4>4. /\ piece \in Int /\ n \in Int /\ Len(block) \in Int /\ skipped \in Int /\ write \in Int
            /\ 1 <= piece /\ piece <= n /\ 0 <= skipped /\ skipped + n = Len(block)
        BY ONLY <1>15, <1>5, <1>6, <1>7
      <4>1. j <= n - piece - 1 => skipped + 1 + piece + j \in 1..Len(block)
        BY ONLY <4>4, <4>0
      <4>2. write <= j /\ j <= write + piece - 1 => skipped + 1 + j - write \in 1..Len(block)
        <5> SUFFICES ASSUME write <= j, j <= write + piece - 1
                     PROVE  skipped + 1 + j - write \in 1..Len(block)
          OBVIOUS
        <5>1. 1 <= skipped + 1 + j - write /\ skipped + 1 + j - write <= Len(block)
          BY ONLY <4>4, <4>0, write <= j, j <= write + piece - 1
        <5> QED  BY ONLY <4>4, <4>0, <5>1
      <4>3. bytes[j] \in Frames
        BY DEF FifoInv
      <4> QED  BY <1>8, <1>9, <4>1, <4>2, <4>3
    <3>2. bytes' = [j \in Ring |-> bytes'[j]]
      BY <1>1 DEF WriteFrames
    <3> QED  BY <3>1, <3>2
  <2>2. read' \in Ring /\ size' \in 0..Capacity
    <3>1. read' = from /\ size' = keep + n
      BY <1>1, <1>14
    <3> QED  BY ONLY <1>15, <3>1 DEF Ring
  <2> QED  BY <2>1, <2>2 DEF FifoInv, Ring
<1>11. ASSUME NEW i \in 1..size'
       PROVE  bytes'[Wrap(read' + i - 1)] =
                IF i <= keep THEN Content[size - keep + i] ELSE block[Len(block) - n + i - keep]
  <2>0. size' = keep + n /\ read' = from
    BY <1>1, <1>14
  <2>1. i \in Int /\ 1 <= i /\ i <= keep + n
    BY <1>15, <2>0
  <2>2. PICK x \in Int : x = Wrap(from + i - 1)
    <3>1. Wrap(from + i - 1) \in Int
      BY ONLY <1>15, <2>1 DEF Wrap
    <3> QED  BY ONLY <3>1
  <2>3. \/ from + keep < Capacity /\ write = from + keep
        \/ from + keep >= Capacity /\ write = from + keep - Capacity
    BY ONLY <1>15, <1>5 DEF Wrap
  <2>4. \/ from + i - 1 < Capacity /\ x = from + i - 1
        \/ from + i - 1 >= Capacity /\ x = from + i - 1 - Capacity
    BY ONLY <1>15, <2>1, <2>2 DEF Wrap
  <2>5. /\ i <= keep => ~(x <= n - piece - 1) /\ ~(write <= x /\ x <= write + piece - 1)
        /\ keep < i /\ i - keep <= piece => x = write + (i - keep - 1) /\ ~(x <= n - piece - 1)
        /\ i - keep > piece => x = i - keep - 1 - piece
    <3>1. CASE from + keep < Capacity /\ write = from + keep
      BY ONLY <1>15, <1>5, <1>6, <2>1, <2>4, <3>1
    <3>2. CASE from + keep >= Capacity /\ write = from + keep - Capacity
      BY ONLY <1>15, <1>5, <1>6, <2>1, <2>4, <3>2
    <3> QED  BY ONLY <2>3, <3>1, <3>2
  <2>6. 0 <= x /\ x < Capacity
    BY ONLY <1>15, <2>1, <2>4
  <2>7. x \in Ring
    BY ONLY <1>15, <2>6, <2>2 DEF Ring
  <2>8. bytes'[x] = IF x <= n - piece - 1 THEN block[skipped + 1 + piece + x]
                    ELSE IF write <= x /\ x <= write + piece - 1 THEN block[skipped + 1 + x - write]
                    ELSE bytes[x]
    BY <1>8, <2>7
  <2>9. CASE i <= keep
    <3>1. from = Wrap(read + (size - keep))
      BY ONLY <1>15, <2>1, <2>9
    <3>2. x = Wrap(read + (size - keep + i) - 1)
      BY ONLY <1>15, <2>1, <2>4, <2>9, <3>1 DEF Wrap
    <3>3. size - keep + i \in 1..size
      BY ONLY <1>15, <2>1, <2>9
    <3>4. Content[size - keep + i] = bytes[x]
      BY <3>2, <3>3, ContentIs
    <3> QED  BY <2>0, <2>2, <2>5, <2>8, <2>9, <3>4
  <2>10. CASE keep < i /\ i - keep <= piece
    <3>0. x = write + (i - keep - 1) /\ ~(x <= n - piece - 1)
      BY ONLY <2>5, <2>10
    <3>1. write <= x /\ x <= write + piece - 1 /\ ~(i <= keep)
      BY ONLY <1>15, <1>5, <1>6, <2>1, <2>10, <3>0
    <3>2. skipped + 1 + x - write = Len(block) - n + i - keep
      <4>1. Len(block) - n = skipped /\ keep \in Int
        BY ONLY <1>15, <1>7
      <4>2. skipped + 1 + x - write = skipped + i - keep
        BY ONLY <1>5, <1>7, <2>1, <3>0, <4>1
      <4> QED  BY ONLY <4>1, <4>2
    <3> QED  BY <2>0, <2>2, <2>8, <3>0, <3>1, <3>2
  <2>11. CASE i - keep > piece
    <3>1. x <= n - piece - 1 /\ ~(i <= keep)
      BY ONLY <1>15, <1>6, <2>1, <2>5, <2>11
    <3>2. skipped + 1 + piece + x = Len(block) - n + i - keep
      BY ONLY <1>15, <1>6, <1>7, <2>1, <2>5, <2>11
    <3> QED  BY <2>0, <2>2, <2>8, <3>1, <3>2
  <2>12. i <= keep \/ (keep < i /\ i - keep <= piece) \/ i - keep > piece
    BY ONLY <1>15, <1>6, <2>1
  <2> QED  BY ONLY <2>9, <2>10, <2>11, <2>12
<1>12. /\ n \in Nat /\ keep \in Nat /\ n <= Len(block) /\ keep <= size /\ size' = keep + n
       /\ n = Len(block) \/ (n = Capacity /\ keep = 0)
       /\ (n = Len(block) /\ keep = size) \/ size' = Capacity
  BY <1>1, <1>3, <1>14, <1>15
<1> HIDE DEF Content
<1> QED  BY ONLY <1>10, <1>11, <1>12

(* Pop plays the oldest frames, in at most two pieces.                     *)
LEMMA PopReads ==
  ASSUME FifoInv, NEW asked \in 1..MaxPop, Pop(asked)
  PROVE  \E n \in Nat :
           /\ FifoInv'
           /\ n = (IF asked < size THEN asked ELSE size)
           /\ played' \in Seq(Frames) /\ Len(played') = n
           /\ \A i \in 1..n : played'[i] = Content[i]
           /\ size' = size - n
           /\ \A i \in 1..size' : bytes'[Wrap(read' + i - 1)] = Content[n + i]
<1> DEFINE n == Fewer(asked, size)
           piece == Fewer(n, Capacity - read)
<1>1. /\ played' = CopyFrames(read, piece) \o CopyFrames(0, n - piece)
      /\ read' = (read + n) % Capacity /\ size' = size - n /\ UNCHANGED bytes
  BY DEF Pop
<1>2. /\ Capacity \in Int /\ read \in Int /\ size \in Int /\ asked \in Int
      /\ 0 <= read /\ read < Capacity /\ 0 <= size /\ size <= Capacity /\ 1 <= asked
  BY FifoAssumption DEF FifoInv, Ring
<1>3. n = (IF asked < size THEN asked ELSE size)
  <2>1. asked <= size /\ ~(asked < size) => asked = size
    BY ONLY <1>2
  <2> QED  BY <1>2, <2>1 DEF Fewer
<1>4. n \in Int /\ 0 <= n /\ n <= size
  BY ONLY <1>2, <1>3
<1> HIDE DEF n
<1>5. /\ piece \in Int /\ 0 <= piece /\ piece <= n /\ piece <= Capacity - read
      /\ piece = n \/ piece = Capacity - read
  BY ONLY <1>2, <1>4 DEF Fewer, piece
<1> HIDE DEF piece
<1>6. read' = Wrap(read + n) /\ 0 <= Wrap(read + n) /\ Wrap(read + n) < Capacity /\ Wrap(read + n) \in Int
  <2>1. read + n \in 0..(2 * Capacity - 1)
    BY ONLY <1>2, <1>4
  <2>2. read' = Wrap(read + n)
    BY <1>1, <2>1, Wrapping
  <2> QED  BY ONLY <1>2, <1>4, <2>2 DEF Wrap
<1>7. FifoInv'
  <2>1. read' \in Ring /\ size' \in 0..Capacity
    <3>1. size - n \in 0..Capacity
      BY ONLY <1>2, <1>4
    <3>2. Wrap(read + n) \in 0..(Capacity - 1)
      BY ONLY <1>2, <1>6
    <3> QED  BY <1>1, <1>6, <3>1, <3>2 DEF Ring
  <2> QED  BY <1>1, <2>1 DEF FifoInv, Ring
<1>8. \A i \in 1..piece : CopyFrames(read, piece)[i] = Content[i] /\ Content[i] \in Frames
  <2> SUFFICES ASSUME NEW i \in 1..piece
               PROVE  CopyFrames(read, piece)[i] = Content[i] /\ Content[i] \in Frames
    OBVIOUS
  <2>1. i \in Int /\ 1 <= i /\ i <= piece
    BY ONLY <1>5
  <2>2. i \in 1..size /\ read + i - 1 < Capacity
    BY ONLY <1>2, <1>4, <1>5, <2>1
  <2>3. Content[i] = bytes[read + i - 1]
    BY ContentIs, <2>2 DEF Wrap
  <2>4. CopyFrames(read, piece)[i] = bytes[read + i - 1]
    BY DEF CopyFrames
  <2> QED  BY <2>2, <2>3, <2>4, ContentIs
<1>9. \A i \in 1..(n - piece) :
        CopyFrames(0, n - piece)[i] = Content[piece + i] /\ Content[piece + i] \in Frames
  <2> SUFFICES ASSUME NEW i \in 1..(n - piece)
               PROVE  CopyFrames(0, n - piece)[i] = Content[piece + i] /\ Content[piece + i] \in Frames
    OBVIOUS
  <2>1. i \in Int /\ 1 <= i /\ i <= n - piece
    BY ONLY <1>4, <1>5
  <2>2. /\ piece + i \in 1..size /\ ~(read + (piece + i) - 1 < Capacity)
        /\ read + (piece + i) - 1 - Capacity = 0 + i - 1
    BY ONLY <1>2, <1>4, <1>5, <2>1
  <2>3. Content[piece + i] = bytes[0 + i - 1]
    <3>1. Wrap(read + (piece + i) - 1) = 0 + i - 1
      BY ONLY <1>2, <1>5, <2>1, <2>2 DEF Wrap
    <3> QED  BY ContentIs, <2>2, <3>1
  <2>4. CopyFrames(0, n - piece)[i] = bytes[0 + i - 1]
    BY DEF CopyFrames
  <2> QED  BY <2>2, <2>3, <2>4, ContentIs
<1>10. /\ CopyFrames(read, piece) \in Seq(Frames) /\ Len(CopyFrames(read, piece)) = piece
       /\ CopyFrames(0, n - piece) \in Seq(Frames) /\ Len(CopyFrames(0, n - piece)) = n - piece
  <2>1. piece \in Nat /\ n - piece \in Nat
    BY ONLY <1>4, <1>5
  <2>2. CopyFrames(read, piece) \in [1..piece -> Frames]
    BY <1>8 DEF CopyFrames
  <2>3. CopyFrames(0, n - piece) \in [1..(n - piece) -> Frames]
    BY <1>9 DEF CopyFrames
  <2> QED  BY <2>1, <2>2, <2>3
<1>11. /\ played' \in Seq(Frames) /\ Len(played') = n
       /\ \A i \in 1..n : played'[i] = Content[i]
  <2>1. played' \in Seq(Frames) /\ Len(played') = n
    <3>1. piece + (n - piece) = n
      BY ONLY <1>4, <1>5
    <3>2. \A s, t \in Seq(Frames) : s \o t \in Seq(Frames) /\ Len(s \o t) = Len(s) + Len(t)
      OBVIOUS
    <3>3. /\ CopyFrames(read, piece) \o CopyFrames(0, n - piece) \in Seq(Frames)
          /\ Len(CopyFrames(read, piece) \o CopyFrames(0, n - piece)) = piece + (n - piece)
      BY ONLY <1>10, <3>2
    <3> QED  BY ONLY <1>1, <3>1, <3>3
  <2>2. ASSUME NEW i \in 1..n PROVE played'[i] = Content[i]
    <3>1. i \in Int /\ 1 <= i /\ i <= n
      BY <1>4
    <3>2. CASE i <= piece
      BY <1>1, <1>5, <1>8, <1>10, <3>1, <3>2
    <3>3. CASE i > piece
      <4>1. i - piece \in 1..(n - piece) /\ piece + (i - piece) = i
        BY ONLY <1>4, <1>5, <3>1, <3>3
      <4>2. played'[i] = CopyFrames(0, n - piece)[i - piece]
        BY <1>1, <1>4, <1>5, <1>10, <3>1, <3>3
      <4> QED  BY <1>9, <4>1, <4>2
    <3> QED  BY ONLY <1>5, <3>1, <3>2, <3>3
  <2> QED  BY <2>1, <2>2
<1>12. ASSUME NEW i \in 1..size' PROVE bytes'[Wrap(read' + i - 1)] = Content[n + i]
  <2>1. i \in Int /\ 1 <= i /\ i <= size - n
    BY <1>1, <1>2, <1>4
  <2>2. n + i \in 1..size
    BY ONLY <1>2, <1>4, <2>1
  <2>3. Wrap(Wrap(read + n) + i - 1) = Wrap(read + (n + i) - 1)
    BY ONLY <1>2, <1>4, <2>1 DEF Wrap
  <2> QED  BY <1>1, <1>6, <2>2, <2>3, ContentIs
<1>13. n \in Nat /\ size' = size - n
  BY <1>1, <1>4
<1> HIDE DEF Content
<1> QED  BY ONLY <1>3, <1>7, <1>11, <1>12, <1>13

LEMMA FifoStart == FifoInit => FifoInv
<1>1. Cardinality(Frames) \in Nat
  BY FifoAssumption, FS_CardinalityType
<1>2. 0 \in Frames
  BY <1>1, FifoAssumption
<1> QED  BY <1>2, FifoAssumption DEF FifoInit, FifoInv, Ring

LEMMA FifoStep == FifoInv /\ [FifoNext]_fifoVars => FifoInv'
<1>1. ASSUME FifoInv, UNCHANGED fifoVars PROVE FifoInv'
  BY <1>1 DEF FifoInv, fifoVars
<1>2. ASSUME FifoInv, NEW block \in Blocks, Push(block) PROVE FifoInv'
  BY <1>2, BlocksAreFrames, PushWrites
<1>3. ASSUME FifoInv, NEW n \in 1..MaxPop, Pop(n) PROVE FifoInv'
  BY <1>3, PopReads
<1> QED  BY <1>1, <1>2, <1>3 DEF FifoNext

(* A push of the ring is one of the queue.                                 *)
LEMMA PushRefines ==
  ASSUME FifoInv, NEW block \in Blocks, Push(block)
  PROVE  Queue!Push
<1> DEFINE all == Content \o block
<1>1. block \in Seq(Frames) /\ Len(block) \in 1..MaxPush /\ Len(block) \in Nat /\ Len(block) >= 1
  BY BlocksAreFrames, FifoAssumption
<1>2. PICK n \in Nat, keep \in Nat :
           /\ FifoInv'
           /\ n <= Len(block) /\ keep <= size /\ size' = keep + n
           /\ n = Len(block) \/ (n = Capacity /\ keep = 0)
           /\ (n = Len(block) /\ keep = size) \/ size' = Capacity
           /\ \A i \in 1..size' :
                bytes'[Wrap(read' + i - 1)] =
                  IF i <= keep THEN Content[size - keep + i]
                  ELSE block[Len(block) - n + i - keep]
  BY <1>1, PushWrites
<1>3. /\ Content \in Seq(Frames) /\ Len(Content) = size /\ size \in Nat
      /\ Capacity \in Nat \ {0} /\ size <= Capacity
  BY ContentIs, FifoAssumption DEF FifoInv
<1>4. /\ Content' \in Seq(Frames) /\ Len(Content)' = size'
      /\ \A i \in 1..size' : Content'[i] = bytes'[Wrap(read' + i - 1)]
  <2>1. (FifoInv => /\ Content \in Seq(Frames) /\ Len(Content) = size
                    /\ \A i \in 1..size : Content[i] = bytes[Wrap(read + i - 1)])'
    BY ContentIs, PTL
  <2> QED  BY <1>2, <2>1 DEF Wrap
<1> HIDE DEF Content
<1>5. /\ all \in Seq(Frames) /\ Len(all) = size + Len(block)
      /\ \A i \in 1..size : all[i] = Content[i]
      /\ \A i \in 1..Len(block) : all[size + i] = block[i]
  BY <1>1, <1>3
<1> HIDE DEF all
<1>6. size' <= Len(all) /\ size' \in Nat /\ (size' = Len(all) \/ size' = Capacity) /\ size' <= Capacity
  <2>1. size' <= Capacity
    BY <1>2, <1>3 DEF FifoInv
  <2>2. Len(block) \in Nat /\ Len(all) = size + Len(block)
    BY <1>1, <1>5
  <2>3. size' \in Nat /\ size' <= Len(all)
    BY ONLY <1>2, <1>3, <2>2
  <2>4. size' = Len(all) \/ size' = Capacity
    BY ONLY <1>2, <1>3, <2>2
  <2> QED  BY ONLY <2>1, <2>3, <2>4
<1>7. \A i \in 1..size' : Content'[i] = all[Len(all) - size' + i]
  <2> SUFFICES ASSUME NEW i \in 1..size' PROVE Content'[i] = all[Len(all) - size' + i]
    OBVIOUS
  <2>0. /\ i \in Nat /\ i >= 1 /\ i <= keep + n /\ size' = keep + n /\ Len(all) = size + Len(block)
        /\ n \in Nat /\ keep \in Nat /\ size \in Nat /\ Len(block) \in Nat /\ n <= Len(block) /\ keep <= size
        /\ n = Len(block) \/ keep = 0
    BY <1>1, <1>2, <1>3, <1>5
  <2>1. CASE i <= keep
    <3>1. Len(all) - size' + i = size - keep + i /\ size - keep + i \in 1..size
      BY ONLY <2>0, <2>1
    <3> QED  BY <1>2, <1>4, <1>5, <2>1, <3>1
  <2>2. CASE i > keep
    <3>1. /\ Len(all) - size' + i = size + (Len(block) - n + i - keep)
          /\ Len(block) - n + i - keep \in 1..Len(block) /\ ~(i <= keep)
      BY ONLY <2>0, <2>2
    <3> QED  BY <1>2, <1>4, <1>5, <2>2, <3>1
  <2> QED  BY ONLY <2>0, <2>1, <2>2
<1>8. Content' = Queue!LastOf(all, Capacity)
  <2>1. CASE Len(all) <= Capacity
    <3>1. size' = Len(all) /\ \A i \in 1..size' : Len(all) - size' + i = i
      BY <1>3, <1>5, <1>6, <2>1
    <3>2. Content' = all
      BY <1>4, <1>5, <1>7, <3>1
    <3> QED  BY <2>1, <3>2 DEF Queue!LastOf
  <2>2. CASE Len(all) > Capacity
    <3>1. size' = Capacity
      BY <1>3, <1>5, <1>6, <2>2
    <3>2. Queue!LastOf(all, Capacity) = SubSeq(all, Len(all) - Capacity + 1, Len(all))
      BY <1>3, <1>5, <2>2 DEF Queue!LastOf
    <3>3. Content' = SubSeq(all, Len(all) - Capacity + 1, Len(all))
      <4> DEFINE end == SubSeq(all, Len(all) - Capacity + 1, Len(all))
      <4>1. /\ Len(all) \in Nat /\ Len(all) - Capacity + 1 \in 1..Len(all)
            /\ Len(all) - (Len(all) - Capacity + 1) + 1 = Capacity
        BY <1>3, <1>5, <2>2
      <4>2. end \in Seq(Frames) /\ Len(end) = Capacity
        BY <1>5, <4>1
      <4>3. \A i \in 1..Capacity : end[i] = all[(Len(all) - Capacity + 1) + i - 1]
        BY <1>5, <4>1
      <4>4. \A i \in 1..Capacity : (Len(all) - Capacity + 1) + i - 1 = Len(all) - size' + i
        BY <1>3, <1>5, <3>1
      <4> HIDE DEF end
      <4>5. \A i \in 1..Capacity : Content'[i] = end[i]
        BY <1>7, <3>1, <4>3, <4>4
      <4>6. Content' = end
        BY <1>4, <3>1, <4>2, <4>5
      <4> QED  BY <4>6 DEF end
    <3> QED  BY <3>2, <3>3
  <2> QED  BY <1>3, <1>5, <2>1, <2>2
<1>9. played' = <<>> /\ given' = block
  BY DEF Push
<1> QED  BY <1>1, <1>8, <1>9 DEF Queue!Push, Content, all

LEMMA PopRefines ==
  ASSUME FifoInv, NEW asked \in 1..MaxPop, Pop(asked)
  PROVE  Queue!Pop(asked)
<1>1. PICK n \in Nat :
           /\ FifoInv'
           /\ n = (IF asked < size THEN asked ELSE size)
           /\ played' \in Seq(Frames) /\ Len(played') = n
           /\ \A i \in 1..n : played'[i] = Content[i]
           /\ size' = size - n
           /\ \A i \in 1..size' : bytes'[Wrap(read' + i - 1)] = Content[n + i]
  BY PopReads
<1>2. Content \in Seq(Frames) /\ Len(Content) = size /\ size \in Nat
  BY ContentIs, FifoAssumption DEF FifoInv
<1>3. /\ Content' \in Seq(Frames) /\ Len(Content)' = size'
      /\ \A i \in 1..size' : Content'[i] = bytes'[Wrap(read' + i - 1)]
  <2>1. (FifoInv => /\ Content \in Seq(Frames) /\ Len(Content) = size
                    /\ \A i \in 1..size : Content[i] = bytes[Wrap(read + i - 1)])'
    BY ContentIs, PTL
  <2> QED  BY <1>1, <2>1 DEF Wrap
<1>4. n <= size /\ size - n \in Nat
  BY <1>1, <1>2, FifoAssumption
<1> HIDE DEF Content
<1>5. played' = SubSeq(Content, 1, n)
  <2>1. SubSeq(Content, 1, n) \in Seq(Frames) /\ Len(SubSeq(Content, 1, n)) = n
    BY <1>1, <1>2, <1>4
  <2>2. \A i \in 1..n : SubSeq(Content, 1, n)[i] = Content[i]
    BY <1>1, <1>2, <1>4
  <2> QED  BY <1>1, <2>1, <2>2
<1>6. Content' = SubSeq(Content, n + 1, Len(Content))
  <2> DEFINE rest == SubSeq(Content, n + 1, Len(Content))
  <2>1. rest \in Seq(Frames) /\ Len(rest) = size - n
    BY <1>1, <1>2, <1>4
  <2>2. \A i \in 1..(size - n) : rest[i] = Content[n + i]
    BY <1>1, <1>2, <1>4
  <2> HIDE DEF rest
  <2>3. Content' = rest
    BY <1>1, <1>3, <2>1, <2>2
  <2> QED  BY <2>3 DEF rest
<1>7. given' = <<>>
  BY DEF Pop
<1> QED  BY <1>1, <1>2, <1>5, <1>6, <1>7 DEF Queue!Pop, Content

(* The ring of MicMonitorPcmFifo, written and read in pieces, is a queue   *)
(* that forgets its oldest frames, for every capacity and all blocks.      *)
THEOREM RingIsQueue == FifoSpec => FifoIsQueue
<1>1. FifoInit => Queue!Init
  BY DEF FifoInit, Queue!Init
<1>2. FifoInv /\ [FifoNext]_fifoVars => [Queue!Next]_<<Content, played, given>>
  <2>1. ASSUME UNCHANGED fifoVars PROVE UNCHANGED <<Content, played, given>>
    BY <2>1 DEF fifoVars, Content
  <2>2. ASSUME FifoInv, NEW block \in Blocks, Push(block) PROVE Queue!Next
    BY <2>2, PushRefines DEF Queue!Next
  <2>3. ASSUME FifoInv, NEW n \in 1..MaxPop, Pop(n) PROVE Queue!Next
    BY <2>3, PopRefines DEF Queue!Next
  <2> QED  BY <2>1, <2>2, <2>3 DEF FifoNext
<1> QED  BY <1>1, <1>2, FifoStart, FifoStep, PTL DEF FifoSpec, FifoIsQueue, Queue!Spec, Content

-----------------------------------------------------------------------------
(* Products and quotients.                                                 *)

LEMMA ProductGrows == \A u, v, b \in Int : u <= v /\ b >= 0 => u * b <= v * b
OBVIOUS

LEMMA SumTimes == \A u, v, b \in Int : (u + v) * b = u * b + v * b /\ (u - v) * b = u * b - v * b
OBVIOUS

LEMMA QuotientIs ==
  \A x \in Int, b \in Nat \ {0} :
    (x \div b) \in Int /\ b * (x \div b) <= x /\ x < b * (x \div b) + b
OBVIOUS

LEMMA QuotientReaches == \A x, y \in Int, b \in Nat \ {0} : x >= y * b => x \div b >= y
BY QuotientIs, ProductGrows, SumTimes

LEMMA QuotientStays == \A x, y \in Int, b \in Nat \ {0} : x < y * b => x \div b < y
BY QuotientIs, ProductGrows, SumTimes

LEMMA SmallRemainder == \A x \in Int, b \in Nat \ {0} : 0 <= x /\ x < b => x % b = x
<1> SUFFICES ASSUME NEW x \in Int, NEW b \in Nat \ {0}, 0 <= x, x < b PROVE x % b = x
  OBVIOUS
<1>1. x = b * (x \div b) + (x % b) /\ (x \div b) \in Int /\ (x % b) \in Int
  OBVIOUS
<1>2. x >= 0 * b /\ x < 1 * b
  OBVIOUS
<1>3. x \div b >= 0 /\ x \div b < 1
  BY <1>2, QuotientReaches, QuotientStays
<1>4. x \div b = 0
  BY <1>1, <1>3
<1> QED  BY <1>1, <1>4

-----------------------------------------------------------------------------
(* The resampler.                                                          *)

\* The frames made are those of the stream so far, and history is the end of
\* the stream, as far as it is kept.
ResamplerInv ==
  /\ rates \in Rates /\ total \in Nat /\ made \in Nat /\ kept \in Nat
  /\ made * rates[1] <= total * rates[2] /\ total * rates[2] < made * rates[1] + rates[1]
  /\ rates[1] # rates[2] => kept = IF total < HistoryLimit THEN total ELSE HistoryLimit

(* An output frame spans at most as many input frames as the ratio says.   *)
LEMMA RatioSpans ==
  ASSUME rates \in Rates
  PROVE  Ratio \in Nat /\ Ratio * rates[2] >= rates[1] /\ Ratio * rates[2] \in Int
<1> DEFINE a == rates[1]
           b == rates[2]
           x == a + b - 1
<1>1. a \in Nat \ {0} /\ b \in Nat \ {0}
  BY ResamplerAssumption
<1>2. Ratio = x \div b
  BY DEF Ratio
<1> HIDE DEF a, b
<1>3. x \in Int /\ x >= 0 * b
  BY <1>1
<1>4. (x \div b) \in Int /\ x < b * (x \div b) + b
  BY <1>1, <1>3, QuotientIs
<1>5. x \div b >= 0
  BY <1>1, <1>3, QuotientReaches
<1>6. x = a + b - 1
  OBVIOUS
<1> HIDE DEF x
<1>7. Ratio \in Int /\ Ratio >= 0 /\ x < b * Ratio + b /\ b * Ratio = Ratio * b /\ Ratio * b \in Int
  BY <1>1, <1>2, <1>4, <1>5
<1>8. Ratio * b >= a
  BY <1>1, <1>6, <1>7
<1> QED  BY <1>7, <1>8 DEF a, b

LEMMA ResamplerStart == ResamplerInit => ResamplerInv
<1> SUFFICES ASSUME ResamplerInit PROVE ResamplerInv
  OBVIOUS
<1>1. rates \in Rates /\ total = 0 /\ made = 0 /\ kept = 0 /\ rates[1] \in Nat \ {0} /\ rates[2] \in Nat \ {0}
  BY ResamplerAssumption DEF ResamplerInit
<1>2. Ratio \in Int /\ Ratio >= 0
  BY <1>1, RatioSpans
<1> QED  BY <1>1, <1>2 DEF ResamplerInv, HistoryLimit

(* What is kept reaches back to the frame the next output starts at.       *)
LEMMA HistorySuffices ==
  ASSUME ResamplerInv, rates[1] # rates[2], NEW end \in Nat, NEW k \in made..(OutputFrames(end) - 1)
  PROVE  SourceFrame(k) \in (total - kept)..(end - 1)
<1> DEFINE a == rates[1]
           b == rates[2]
           r == Ratio
<1>1. a \in Nat \ {0} /\ b \in Nat \ {0}
  BY ResamplerAssumption DEF ResamplerInv
<1>2. r \in Int /\ r >= 0 /\ r * b >= a
  BY RatioSpans DEF ResamplerInv
<1>3. /\ total \in Nat /\ made \in Nat /\ kept \in Nat /\ made * a <= total * b /\ total * b < made * a + a
      /\ kept = total \/ kept = r + 2
  BY DEF ResamplerInv, HistoryLimit
<1> DEFINE target == OutputFrames(end)
<1>4. target \in Int /\ a * target <= end * b
  <2>1. target = (end * b) \div a
    BY DEF OutputFrames
  <2> HIDE DEF a, b, target
  <2>2. end * b \in Int
    BY <1>1
  <2> QED  BY <1>1, <2>1, <2>2, QuotientIs
<1>5. k \in Int /\ made <= k /\ k <= target - 1
  BY <1>3, <1>4
<1>6. SourceFrame(k) = (k * a) \div b
  BY DEF SourceFrame
<1> HIDE DEF a, b, r, target
<1>7. k * a \in Int /\ made * a \in Int /\ total * b \in Int /\ end * b \in Int
  BY <1>1, <1>3, <1>5
<1>8. made * a <= k * a
  BY <1>1, <1>3, <1>5, ProductGrows
<1>9. (k * a) \div b >= total - kept
  <2>1. CASE kept = total
    <3>1. k * a >= 0 * b
      BY <1>1, <1>3, <1>5, ProductGrows
    <3> QED  BY <1>1, <1>3, <1>7, <2>1, <3>1, QuotientReaches
  <2>2. CASE kept = r + 2
    <3>1. /\ (total - (r + 2)) * b = total * b - (r + 2) * b /\ (r + 2) * b = r * b + 2 * b
          /\ r * b \in Int /\ (r + 2) * b \in Int
      BY <1>1, <1>2, <1>3, SumTimes
    <3>2. (total - (r + 2)) * b <= k * a
      BY <1>1, <1>2, <1>3, <1>7, <1>8, <3>1
    <3>3. total - kept \in Int /\ total - kept = total - (r + 2)
      BY <1>2, <1>3, <2>2
    <3> QED  BY <1>1, <1>7, <3>2, <3>3, QuotientReaches
  <2> QED  BY <1>3, <2>1, <2>2
<1>10. (k * a) \div b < end
  <2>1. k * a <= (target - 1) * a
    BY <1>1, <1>4, <1>5, ProductGrows
  <2>2. (target - 1) * a = target * a - a /\ target * a = a * target /\ target * a \in Int
    BY <1>1, <1>4, SumTimes
  <2>3. k * a < end * b
    BY <1>1, <1>4, <1>7, <2>1, <2>2
  <2> DEFINE x == k * a
  <2>4. x \in Int /\ x < end * b
    BY <1>7, <2>3
  <2> HIDE DEF x
  <2>5. x \div b < end
    BY <1>1, <2>4, QuotientStays
  <2> QED  BY <2>5 DEF x
<1>11. (k * a) \div b \in Int
  BY <1>1, <1>7, QuotientIs
<1> QED  BY <1>3, <1>6, <1>9, <1>10, <1>11

(* A block of as many frames as an output frame spans is never too short.  *)
LEMMA BlockSuffices == ResamplerInv => OutputFrames(total + Ratio) > made
<1> SUFFICES ASSUME ResamplerInv PROVE OutputFrames(total + Ratio) > made
  OBVIOUS
<1> DEFINE a == rates[1]
           b == rates[2]
           r == Ratio
<1>1. a \in Nat \ {0} /\ b \in Nat \ {0}
  BY ResamplerAssumption DEF ResamplerInv
<1>2. /\ total \in Nat /\ made \in Nat /\ made * a <= total * b
      /\ r \in Nat /\ r * b >= a /\ r * b \in Int /\ OutputFrames(total + Ratio) = ((total + r) * b) \div a
  BY RatioSpans DEF ResamplerInv, OutputFrames
<1> HIDE DEF a, b, r
<1>4. /\ (total + r) * b = total * b + r * b /\ (made + 1) * a = made * a + 1 * a
      /\ total * b \in Int /\ made * a \in Int
  BY <1>1, <1>2, SumTimes
<1>5. (total + r) * b >= (made + 1) * a
  BY <1>1, <1>2, <1>4
<1> DEFINE x == (total + r) * b
<1>6. x \in Int /\ x >= (made + 1) * a /\ OutputFrames(total + Ratio) = x \div a
  BY <1>2, <1>4, <1>5
<1> HIDE DEF x
<1>7. x \div a >= made + 1 /\ x \div a \in Int
  BY <1>1, <1>2, <1>6, QuotientReaches, QuotientIs
<1> QED  BY <1>2, <1>6, <1>7

LEMMA BlockConverts ==
  ASSUME ResamplerInv, NEW n \in 1..MaxBlock, Convert(n)
  PROVE  ResamplerInv' /\ converted' # "lost" /\ UNCHANGED rates
<1> DEFINE a == rates[1]
           b == rates[2]
           end == total + n
           target == OutputFrames(end)
           needed == {SourceFrame(k) : k \in made..(target - 1)}
<1>0. n \in Nat /\ n >= 1
  BY ResamplerAssumption
<1>1. a \in Nat \ {0} /\ b \in Nat \ {0}
  BY ResamplerAssumption DEF ResamplerInv
<1>2. rates \in Rates /\ total \in Nat /\ made \in Nat /\ kept \in Nat /\ end \in Nat
  BY <1>0 DEF ResamplerInv
<1>3. UNCHANGED rates /\ Ratio' = Ratio /\ HistoryLimit' = HistoryLimit
  BY DEF Convert, Refused, Ratio, HistoryLimit
<1>4. CASE a = b
  <2>1. total' = end /\ made' = made + n /\ converted' = "done" /\ UNCHANGED kept
    BY <1>4 DEF Convert
  <2>2. made * a <= total * b /\ total * b < made * a + a
    BY DEF ResamplerInv
  <2> HIDE DEF a, b
  <2>3. /\ (made + n) * a = made * a + n * a /\ (total + n) * b = total * b + n * b
        /\ n * a \in Int /\ made * a \in Int /\ total * b \in Int /\ n * a = n * b
    BY <1>0, <1>1, <1>2, <1>4, SumTimes
  <2>4. (made + n) * a <= (total + n) * b /\ (total + n) * b < (made + n) * a + a
    BY <1>1, <2>2, <2>3
  <2>5. made' * a <= total' * b /\ total' * b < made' * a + a /\ made' \in Nat
    BY <1>0, <1>2, <2>1, <2>4
  <2> QED  BY <1>2, <1>3, <1>4, <2>1, <2>5 DEF ResamplerInv, a, b
<1>5. CASE a # b
  <2>1. needed \subseteq (total - kept)..(end - 1)
    BY <1>2, <1>5, HistorySuffices
  <2>2. CASE target = made
    <3>1. converted' = "empty" /\ UNCHANGED <<rates, total, made, kept>>
      BY <1>5, <2>2 DEF Convert, Refused
    <3> QED  BY <1>3, <3>1 DEF ResamplerInv
  <2>3. CASE target # made
    <3> HIDE DEF target
    <3>1. /\ total' = end /\ made' = target /\ converted' = "done"
          /\ kept' = IF kept + n < HistoryLimit THEN kept + n ELSE HistoryLimit
      BY <1>5, <2>1, <2>3 DEF Convert, target
    <3>2. target = (end * b) \div a
      BY DEF target, OutputFrames
    <3> HIDE DEF a, b
    <3>3. /\ end * b \in Int /\ target \in Int /\ a * target <= end * b /\ end * b < a * target + a
          /\ a * target = target * a
      BY <1>1, <1>2, <3>2, QuotientIs
    <3>4. target >= 0
      <4>1. end * b >= 0 * a
        BY <1>1, <1>2
      <4> QED  BY <1>1, <3>2, <3>3, <4>1, QuotientReaches
    <3>5. HistoryLimit \in Int /\ kept = IF total < HistoryLimit THEN total ELSE HistoryLimit
      <4>1. Ratio \in Int
        BY <1>2, RatioSpans
      <4> QED  BY <1>5, <4>1 DEF ResamplerInv, HistoryLimit, a, b
    <3> HIDE DEF end
    <3>6. end = total + n
      BY DEF end
    <3>7. kept' = (IF end < HistoryLimit THEN end ELSE HistoryLimit) /\ kept' \in Nat
      BY <1>0, <1>2, <3>1, <3>5, <3>6
    <3>8. made' * a <= total' * b /\ total' * b < made' * a + a /\ made' \in Nat /\ total' \in Nat
      BY <1>1, <1>2, <3>1, <3>3, <3>4
    <3> QED  BY <1>2, <1>3, <3>1, <3>7, <3>8 DEF ResamplerInv, a, b
  <2> QED  BY <2>2, <2>3
<1> QED  BY <1>3, <1>4, <1>5

(* However a stream is cut into blocks, nothing that StreamingPcmResampler *)
(* still needs has left its history, a block is converted once it spans an *)
(* output frame, and the track is as long as the stream, for any rates.    *)
THEOREM StreamsConvert == ResamplerSpec => BlocksConvert
<1>1. ResamplerInv /\ [ResamplerNext]_resamplerVars => ResamplerInv'
  <2> SUFFICES ASSUME ResamplerInv, [ResamplerNext]_resamplerVars PROVE ResamplerInv'
    OBVIOUS
  <2>1. CASE ResamplerNext
    BY <2>1, BlockConverts DEF ResamplerNext
  <2>2. CASE UNCHANGED resamplerVars
    <3>1. UNCHANGED <<rates, total, made, kept>> /\ HistoryLimit' = HistoryLimit
      BY <2>2 DEF resamplerVars, HistoryLimit, Ratio
    <3> QED  BY <3>1 DEF ResamplerInv
  <2> QED  BY <2>1, <2>2
<1> DEFINE Good == /\ converted' # "lost"
                   /\ (total' = total /\ converted' = "empty") => OutputFrames(total + Ratio) > made
                   /\ made' * rates[1] \in (total' * rates[2] - rates[1] + 1)..(total' * rates[2])
<1>2. ResamplerInv /\ [ResamplerNext]_resamplerVars => [Good]_resamplerVars
  <2> SUFFICES ASSUME ResamplerInv, ResamplerNext PROVE Good
    OBVIOUS
  <2>1. ResamplerInv' /\ converted' # "lost" /\ UNCHANGED rates
    BY BlockConverts DEF ResamplerNext
  <2>2. OutputFrames(total + Ratio) > made
    BY BlockSuffices
  <2>3. rates[1] \in Nat \ {0} /\ rates[2] \in Nat \ {0}
    BY ResamplerAssumption DEF ResamplerInv
  <2>4. /\ total' \in Nat /\ made' \in Nat
        /\ made' * rates[1] <= total' * rates[2] /\ total' * rates[2] < made' * rates[1] + rates[1]
    BY <2>1 DEF ResamplerInv
  <2>5. made' * rates[1] \in Int /\ total' * rates[2] \in Int
    BY <2>3, <2>4
  <2>6. made' * rates[1] \in (total' * rates[2] - rates[1] + 1)..(total' * rates[2])
    BY ONLY <2>3, <2>4, <2>5
  <2> QED  BY <2>1, <2>2, <2>6
<1> QED  BY <1>1, <1>2, ResamplerStart, PTL DEF ResamplerSpec, BlocksConvert

-----------------------------------------------------------------------------
(* The cadence.                                                            *)

CadenceTypeOK ==
  /\ rate \in Cadences
  /\ cadence \in [base : Int, last : Int, due : Int]
  /\ history \in [before : Int, last : Int, count : Nat, first : Int]
  /\ cadence.last >= -1
  /\ history.count = 0 => cadence.base = -1
  /\ history.count >= 1 =>
       /\ 0 <= history.first /\ history.first <= cadence.base
       /\ cadence.base <= history.last /\ history.last <= cadence.last
       /\ Interval <= cadence.due /\ cadence.due < Word

\* The last frame accepted lies in the slot before the next one that is due,
\* the one before in an earlier slot.
SlotInv ==
  /\ history.count >= 1 =>
       /\ Span(cadence.base, history.last) >= cadence.due - Interval - Tick
       /\ Span(cadence.base, history.last) < cadence.due
  /\ history.count >= 2 => Span(cadence.base, history.before) < cadence.due - Interval

\* r times the grid was moved because the slots no longer fitted in a word,
\* each time by a tick at most.
PaceInv ==
  history.count >= 1 =>
    \E r \in Nat :
      /\ Span(history.first, cadence.base) >= r * (Word - 2 * Interval)
      /\ Span(history.first, cadence.base) + cadence.due >= history.count * Interval - r * Tick

CadenceInv == CadenceTypeOK /\ SlotInv /\ PaceInv

LEMMA RateIs ==
  ASSUME rate \in Cadences
  PROVE  /\ Interval \in Nat \ {0} /\ Tick \in Nat \ {0} /\ Interval >= Tick
         /\ Word \in Nat \ {0} /\ 2 * Interval < Word
BY CadenceAssumption DEF Interval, Tick

(* Time adds up, and more time is more of it.                              *)
LEMMA SpanAdds ==
  ASSUME rate \in Cadences, NEW x \in Int, NEW y \in Int, NEW z \in Int
  PROVE  /\ Span(x, y) \in Int /\ Span(x, z) = Span(x, y) + Span(y, z) /\ Span(x, x) = 0
         /\ (x <= y => Span(x, y) >= 0) /\ (x < y => Span(x, y) > 0) /\ (x > y => Span(x, y) < 0)
<1>1. Tick \in Nat \ {0}
  BY RateIs
<1>2. /\ Span(x, y) = (y - x) * Tick /\ Span(x, z) = (z - x) * Tick
      /\ Span(y, z) = (z - y) * Tick /\ Span(x, x) = (x - x) * Tick
  BY DEF Span, Tick
<1> DEFINE tick == Tick
<1> HIDE DEF tick
<1>3. /\ Span(x, y) = y * tick - x * tick /\ Span(x, z) = z * tick - x * tick
      /\ Span(y, z) = z * tick - y * tick
      /\ x * tick \in Int /\ y * tick \in Int /\ z * tick \in Int
  <2>1. tick \in Nat \ {0}
    BY <1>1 DEF tick
  <2> QED  BY <1>2, <2>1, SumTimes DEF tick
<1>4. x <= y => x * tick <= y * tick
  BY <1>1, ProductGrows DEF tick
<1>5. x < y => (x + 1) * tick <= y * tick
  BY <1>1, ProductGrows DEF tick
<1>6. x > y => (y + 1) * tick <= x * tick
  BY <1>1, ProductGrows DEF tick
<1>7. /\ (x + 1) * tick = x * tick + 1 * tick /\ (y + 1) * tick = y * tick + 1 * tick
      /\ tick \in Int /\ tick > 0
  BY <1>1, SumTimes DEF tick
<1>8. Span(x, x) = 0
  BY <1>1, <1>2
<1> QED  BY <1>3, <1>4, <1>5, <1>6, <1>7, <1>8

LEMMA CadenceStart == CadenceInit => CadenceInv
<1> SUFFICES ASSUME CadenceInit PROVE CadenceInv
  OBVIOUS
<1>1. /\ rate \in Cadences /\ cadence = [base |-> -1, last |-> -1, due |-> 0]
      /\ history = [before |-> -1, last |-> -1, count |-> 0, first |-> -1]
  BY DEF CadenceInit
<1> QED  BY <1>1 DEF CadenceInv, CadenceTypeOK, SlotInv, PaceInv

(* What a frame at t does: it is held back in its slot, or it is accepted  *)
(* on the grid, or it is where the grid starts anew.                       *)
Held(t) ==
  /\ history.count >= 1 /\ Span(cadence.base, t) < cadence.due - Tick
  /\ cadence' = [cadence EXCEPT !.last = t] /\ history' = history
OnGrid(t) ==
  /\ history.count >= 1
  /\ Span(cadence.base, t) >= cadence.due - Tick /\ Span(cadence.base, t) < cadence.due + Interval
  /\ cadence.due + Interval < Word
  /\ cadence' = [cadence EXCEPT !.last = t, !.due = cadence.due + Interval]
Anew(t) ==
  /\ history.count >= 1 =>
       \/ Span(cadence.base, t) >= cadence.due
       \/ Span(cadence.base, t) >= cadence.due - Tick /\ cadence.due + Interval >= Word
  /\ RebaseAt(t)
Kept(t) ==
  /\ history' = [before |-> history.last, last |-> t, count |-> history.count + 1,
                 first |-> IF history.count = 0 THEN t ELSE history.first]
FrameMoves(t) ==
  /\ UNCHANGED rate /\ offered'.stamp = t
  /\ \/ Held(t) /\ offered'.accepted = FALSE
     \/ (OnGrid(t) \/ Anew(t)) /\ Kept(t) /\ offered'.accepted = TRUE

(* Elapsed time fits in a word where the grid is followed.                 *)
LEMMA EvaluateMoves ==
  ASSUME CadenceInv, NEW t \in Int, t > cadence.last, Evaluate(t)
  PROVE  FrameMoves(t)
<1> DEFINE ticks == t - cadence.base
           elapsed == (ticks * Tick) % Word
           early == elapsed < cadence.due /\ cadence.due - elapsed > Tick
           span == Span(cadence.base, t)
<1>1. /\ rate \in Cadences /\ cadence \in [base : Int, last : Int, due : Int] /\ cadence.last >= -1
      /\ history.count \in Nat /\ (history.count = 0 => cadence.base = -1)
      /\ history.count >= 1 => /\ cadence.base >= 0 /\ cadence.base <= cadence.last
                               /\ Interval <= cadence.due /\ cadence.due < Word
  BY DEF CadenceInv, CadenceTypeOK
<1>2. /\ Interval \in Nat \ {0} /\ Tick \in Nat \ {0} /\ Interval >= Tick
      /\ Word \in Nat \ {0} /\ 2 * Interval < Word
  BY <1>1, RateIs
<1>3. UNCHANGED rate
  BY DEF Evaluate
<1>4. /\ ticks \in Int /\ cadence.base \in Int /\ cadence.due \in Int /\ cadence.last \in Int
      /\ span = ticks * Tick /\ span \in Int
  <2>1. ticks \in Int /\ cadence.base \in Int /\ cadence.due \in Int /\ cadence.last \in Int
    BY <1>1
  <2>2. span = ticks * Tick
    BY DEF Span, Tick
  <2> QED  BY <1>1, <2>1, <2>2, SpanAdds
<1>5. Started <=> history.count >= 1
  BY <1>1 DEF Started
<1>6. CASE ~Started
  <2>1. RebaseAt(t) /\ Remember(t, TRUE)
    BY <1>6 DEF Evaluate
  <2> QED  BY <1>3, <1>5, <1>6, <2>1 DEF FrameMoves, Anew, Kept, Remember
<1>7. CASE Started /\ ticks > (Word - 1) \div Tick
  <2>1. RebaseAt(t) /\ Remember(t, TRUE)
    BY <1>7 DEF Evaluate
  <2>2. span >= Word
    <3> DEFINE x == Word - 1
    <3>1. x \in Int
      BY <1>2
    <3>2. ticks > x \div Tick
      BY <1>7
    <3>3. x = Word - 1
      OBVIOUS
    <3> HIDE DEF x
    <3> DEFINE q == x \div Tick
    <3>4. q \in Int /\ x < Tick * q + Tick
      BY <1>2, <3>1, QuotientIs
    <3>5. ticks >= q + 1
      BY <1>4, <3>2, <3>4
    <3> HIDE DEF q, ticks
    <3>6. ticks * Tick >= (q + 1) * Tick /\ (q + 1) * Tick = q * Tick + 1 * Tick
      BY <1>2, <1>4, <3>4, <3>5, ProductGrows, SumTimes
    <3>7. Tick * q = q * Tick /\ q * Tick \in Int /\ ticks * Tick \in Int
      BY <1>2, <1>4, <3>4
    <3>8. ticks * Tick >= Word
      BY ONLY <1>2, <3>1, <3>3, <3>4, <3>6, <3>7
    <3> QED  BY <1>4, <3>8
  <2>3. history.count >= 1 /\ span >= cadence.due
    BY <1>1, <1>2, <1>4, <1>5, <1>7, <2>2
  <2> QED  BY <1>3, <2>1, <2>3 DEF FrameMoves, Anew, Kept, Remember
<1>8. CASE Started /\ ~(ticks > (Word - 1) \div Tick)
  <2>1. elapsed = span
    <3> DEFINE x == Word - 1
               q == x \div Tick
    <3>1. x \in Int /\ x = Word - 1 /\ ticks <= x \div Tick
      <4>1. x \in Int
        BY <1>2
      <4>2. x \div Tick \in Int
        BY <1>2, <4>1
      <4> QED  BY <1>4, <1>8, <4>1, <4>2
    <3> HIDE DEF x
    <3>2. q \in Int /\ Tick * q <= x
      BY <1>2, <3>1, QuotientIs
    <3>3. ticks <= q /\ ticks >= 0
      BY <1>1, <1>4, <1>5, <1>8, <3>1
    <3> HIDE DEF q
    <3>4. ticks * Tick <= q * Tick /\ 0 * Tick <= ticks * Tick
      BY <1>2, <1>4, <3>2, <3>3, ProductGrows
    <3>5. Tick * q = q * Tick /\ q * Tick \in Int
      BY <1>2, <3>2
    <3>6. span >= 0 /\ span < Word
      BY <1>2, <1>4, <3>1, <3>2, <3>4, <3>5
    <3>7. span % Word = span
      BY <1>2, <1>4, <3>6, SmallRemainder
    <3> QED  BY <1>4, <3>7
  <2>2. history.count >= 1 /\ Interval <= cadence.due /\ cadence.due < Word
    BY <1>1, <1>5, <1>8
  <2>3. CASE early
    <3>1. cadence' = [cadence EXCEPT !.last = t] /\ Remember(t, FALSE)
      BY <1>8, <2>3 DEF Evaluate
    <3>2. span < cadence.due - Tick
      BY <1>2, <1>4, <2>1, <2>3
    <3> QED  BY <1>3, <2>2, <3>1, <3>2 DEF FrameMoves, Held, Remember
  <2>4. CASE ~early
    <3>1. Advance(t, elapsed) /\ Remember(t, TRUE)
      BY <1>8, <2>4 DEF Evaluate
    <3>2. span >= cadence.due - Tick
      BY <1>2, <1>4, <2>1, <2>4
    <3>3. Advance(t, span)
      BY <2>1, <3>1
    <3> HIDE DEF span
    <3> DEFINE lateness == IF span > cadence.due THEN span - cadence.due ELSE 0
    <3>4. IF lateness >= Interval \/ cadence.due > Word - 1 - Interval
          THEN RebaseAt(t)
          ELSE cadence' = [cadence EXCEPT !.last = t, !.due = cadence.due + Interval]
      BY <3>3 DEF Advance
    <3>5. lateness >= Interval => span >= cadence.due
      BY <1>2, <1>4
    <3>6. ~(lateness >= Interval) => span < cadence.due + Interval
      BY <1>2, <1>4, <2>2
    <3>7. cadence.due > Word - 1 - Interval <=> cadence.due + Interval >= Word
      BY <1>2, <1>4
    <3> HIDE DEF lateness
    <3>8. CASE lateness >= Interval \/ cadence.due > Word - 1 - Interval
      <4>1. /\ RebaseAt(t)
            /\ span >= cadence.due \/ (span >= cadence.due - Tick /\ cadence.due + Interval >= Word)
        BY <3>2, <3>4, <3>5, <3>7, <3>8
      <4> QED  BY <1>3, <3>1, <4>1 DEF FrameMoves, Anew, Kept, Remember, span
    <3>9. CASE ~(lateness >= Interval \/ cadence.due > Word - 1 - Interval)
      <4>1. /\ cadence' = [cadence EXCEPT !.last = t, !.due = cadence.due + Interval]
            /\ span < cadence.due + Interval /\ cadence.due + Interval < Word
        BY <1>2, <1>4, <3>4, <3>6, <3>7, <3>9
      <4> QED  BY <1>3, <2>2, <3>1, <3>2, <4>1 DEF FrameMoves, OnGrid, Kept, Remember, span
    <3> QED  BY <3>8, <3>9
  <2> QED  BY <2>3, <2>4
<1> QED  BY <1>6, <1>7, <1>8

(* The numbers of a step.                                                  *)
LEMMA CadenceNumbers ==
  ASSUME CadenceInv, NEW t \in Int, t > cadence.last, history.count >= 1
  PROVE  /\ Span(cadence.base, t) \in Int /\ Span(cadence.base, history.last) \in Int
         /\ Span(history.last, t) \in Int /\ Span(history.first, cadence.base) \in Int
         /\ Span(cadence.base, history.before) \in Int /\ Span(history.before, t) \in Int
         /\ Span(history.first, t) = Span(history.first, cadence.base) + Span(cadence.base, t)
         /\ Span(cadence.base, t) = Span(cadence.base, history.last) + Span(history.last, t)
         /\ Span(cadence.base, t) = Span(cadence.base, history.before) + Span(history.before, t)
         /\ Span(cadence.base, t) >= 0 /\ Span(t, t) = 0 /\ Span(t, history.last) < 0
<1>1. /\ rate \in Cadences /\ cadence.base \in Int /\ cadence.last \in Int /\ history.last \in Int
      /\ history.before \in Int /\ history.first \in Int
      /\ cadence.base <= history.last /\ history.last <= cadence.last
  BY DEF CadenceInv, CadenceTypeOK
<1>2. cadence.base <= t /\ t > history.last
  BY <1>1
<1>3. /\ Span(cadence.base, t) = Span(cadence.base, history.last) + Span(history.last, t)
      /\ Span(cadence.base, history.last) \in Int /\ Span(cadence.base, t) >= 0
  BY <1>1, <1>2, SpanAdds
<1>4. /\ Span(cadence.base, t) = Span(cadence.base, history.before) + Span(history.before, t)
      /\ Span(cadence.base, history.before) \in Int
  BY <1>1, SpanAdds
<1>5. /\ Span(history.first, t) = Span(history.first, cadence.base) + Span(cadence.base, t)
      /\ Span(history.first, cadence.base) \in Int
  <2>1. Span(history.first, t) = Span(history.first, cadence.base) + Span(cadence.base, t)
    <3>1. rate \in Cadences /\ history.first \in Int /\ cadence.base \in Int /\ t \in Int
      BY <1>1
    <3> QED  BY ONLY <3>1, SpanAdds
  <2>2. Span(history.first, cadence.base) \in Int
    BY <1>1, SpanAdds
  <2> QED  BY <2>1, <2>2
<1>6. /\ Span(cadence.base, t) \in Int /\ Span(history.last, t) \in Int
      /\ Span(history.before, t) \in Int
  <2>1. Span(cadence.base, t) \in Int
    BY <1>1, SpanAdds
  <2>2. Span(history.last, t) \in Int
    BY <1>1, SpanAdds
  <2>3. Span(history.before, t) \in Int
    BY <1>1, SpanAdds
  <2> QED  BY <2>1, <2>2, <2>3
<1>7. Span(t, t) = 0 /\ Span(t, history.last) < 0
  BY <1>1, <1>2, SpanAdds
<1> QED  BY <1>3, <1>4, <1>5, <1>6, <1>7

LEMMA HeldKeeps ==
  ASSUME CadenceInv, NEW t \in Int, t > cadence.last, Held(t), UNCHANGED rate
  PROVE  CadenceInv'
<1>1. /\ UNCHANGED <<history, rate>> /\ cadence' = [cadence EXCEPT !.last = t]
      /\ cadence \in [base : Int, last : Int, due : Int]
  BY DEF Held, CadenceInv, CadenceTypeOK
<1>2. /\ cadence' \in [base : Int, last : Int, due : Int] /\ cadence'.last = t
      /\ cadence'.base = cadence.base /\ cadence'.due = cadence.due
  BY <1>1
<1>3. Interval' = Interval /\ Tick' = Tick
  BY <1>1 DEF Interval, Tick
<1>4. CadenceTypeOK'
  BY <1>1, <1>2, <1>3 DEF CadenceInv, CadenceTypeOK
<1>5. SlotInv'
  BY <1>1, <1>2, <1>3 DEF CadenceInv, SlotInv, Span
<1>6. PaceInv'
  BY <1>1, <1>2, <1>3 DEF CadenceInv, PaceInv, Span
<1> QED  BY <1>4, <1>5, <1>6 DEF CadenceInv

LEMMA OnGridKeeps ==
  ASSUME CadenceInv, NEW t \in Int, t > cadence.last, OnGrid(t), Kept(t), UNCHANGED rate
  PROVE  CadenceInv'
<1>1. /\ UNCHANGED rate /\ rate \in Cadences /\ history.count \in Nat /\ history.count >= 1
      /\ cadence' = [cadence EXCEPT !.last = t, !.due = cadence.due + Interval]
      /\ cadence \in [base : Int, last : Int, due : Int]
      /\ history' = [before |-> history.last, last |-> t, count |-> history.count + 1,
                     first |-> history.first]
      /\ history \in [before : Int, last : Int, count : Nat, first : Int]
  BY DEF OnGrid, Kept, CadenceInv, CadenceTypeOK
<1>2. /\ Interval \in Nat \ {0} /\ Tick \in Nat \ {0} /\ Word \in Nat \ {0} /\ 2 * Interval < Word
      /\ cadence.due \in Int /\ cadence.base \in Int
  BY <1>1, RateIs
<1>3. /\ cadence' \in [base : Int, last : Int, due : Int] /\ cadence'.last = t
      /\ cadence'.base = cadence.base /\ cadence'.due = cadence.due + Interval
      /\ history' \in [before : Int, last : Int, count : Nat, first : Int]
      /\ history'.before = history.last /\ history'.last = t /\ history'.count = history.count + 1
      /\ history'.first = history.first
  <2>1. cadence.due + Interval \in Int
    BY <1>2
  <2>2. /\ cadence' \in [base : Int, last : Int, due : Int] /\ cadence'.last = t
        /\ cadence'.base = cadence.base /\ cadence'.due = cadence.due + Interval
    BY <1>1, <2>1
  <2>3. history.count + 1 \in Nat /\ history.last \in Int /\ history.first \in Int
    BY <1>1
  <2> QED  BY <1>1, <2>2, <2>3
<1>4. Interval' = Interval /\ Tick' = Tick /\ \A x, y : Span(x, y)' = Span(x, y)
  BY <1>1 DEF Interval, Tick, Span
<1>5. CadenceTypeOK'
  <2>1. /\ cadence.last >= -1 /\ 0 <= history.first /\ history.first <= cadence.base
        /\ cadence.base <= cadence.last /\ cadence.last \in Int /\ Interval <= cadence.due
    BY <1>1 DEF CadenceInv, CadenceTypeOK
  <2>2. cadence.due + Interval < Word
    BY DEF OnGrid
  <2> QED  BY <1>1, <1>2, <1>3, <1>4, <2>1, <2>2 DEF CadenceTypeOK
<1>6. SlotInv'
  <2>1. /\ Span(cadence.base, t) \in Int /\ Span(cadence.base, t) >= cadence.due - Tick
        /\ Span(cadence.base, t) < cadence.due + Interval
        /\ Span(cadence.base, history.last) \in Int /\ Span(cadence.base, history.last) < cadence.due
    BY <1>1, CadenceNumbers DEF OnGrid, CadenceInv, SlotInv
  <2>2. /\ Span(cadence.base, t) >= cadence'.due - Interval - Tick /\ Span(cadence.base, t) < cadence'.due
        /\ Span(cadence.base, history.last) < cadence'.due - Interval
    BY <1>2, <1>3, <2>1
  <2>4. Span(cadence.base, history.last)' = Span(cadence.base, t)
    BY <1>1, <1>3 DEF Span
  <2>5. Span(cadence.base, history.before)' = Span(cadence.base, history.last)
    BY <1>1, <1>3 DEF Span
  <2> QED  BY <1>4, <2>2, <2>4, <2>5 DEF SlotInv
<1>7. PaceInv'
  <2>1. PICK r \in Nat :
          /\ Span(history.first, cadence.base) >= r * (Word - 2 * Interval)
          /\ Span(history.first, cadence.base) + cadence.due >= history.count * Interval - r * Tick
    BY <1>1 DEF CadenceInv, PaceInv
  <2>2. Span(history.first, cadence.base) \in Int
    BY <1>1, CadenceNumbers
  <2>6. history.count * Interval \in Int /\ r * Tick \in Int
    BY <1>1, <1>2
  <2>7. (history.count + 1) * Interval = history.count * Interval + 1 * Interval
    BY <1>1, <1>2, SumTimes
  <2>3. Span(history.first, cadence.base) + (cadence.due + Interval)
          >= (history.count + 1) * Interval - r * Tick
    BY <1>2, <2>1, <2>2, <2>6, <2>7
  <2>4. Span(history.first, cadence.base)' = Span(history.first, cadence.base)
    BY <1>1, <1>3 DEF Span
  <2>5. /\ Span(history.first, cadence.base)' >= r * (Word - 2 * Interval')
        /\ Span(history.first, cadence.base)' + cadence'.due >= history'.count * Interval' - r * Tick'
    BY <1>3, <1>4, <2>1, <2>3, <2>4
  <2> QED  BY <2>5 DEF PaceInv
<1> QED  BY <1>5, <1>6, <1>7 DEF CadenceInv

LEMMA AnewKeeps ==
  ASSUME CadenceInv, NEW t \in Int, t > cadence.last, Anew(t), Kept(t), UNCHANGED rate
  PROVE  CadenceInv'
<1>1. /\ UNCHANGED rate /\ rate \in Cadences /\ history.count \in Nat
      /\ cadence' = [base |-> t, last |-> t, due |-> Interval]
      /\ cadence \in [base : Int, last : Int, due : Int]
      /\ history' = [before |-> history.last, last |-> t, count |-> history.count + 1,
                     first |-> IF history.count = 0 THEN t ELSE history.first]
      /\ history \in [before : Int, last : Int, count : Nat, first : Int]
  BY DEF Anew, RebaseAt, Kept, CadenceInv, CadenceTypeOK
<1>2. /\ Interval \in Nat \ {0} /\ Tick \in Nat \ {0} /\ Word \in Nat \ {0} /\ 2 * Interval < Word
      /\ Interval >= Tick /\ cadence.due \in Int /\ t >= 0
  <2>1. cadence.last >= -1 /\ cadence.last \in Int
    BY <1>1 DEF CadenceInv, CadenceTypeOK
  <2> QED  BY <1>1, <2>1, RateIs
<1>3. /\ cadence' \in [base : Int, last : Int, due : Int] /\ cadence'.last = t
      /\ cadence'.base = t /\ cadence'.due = Interval
      /\ history' \in [before : Int, last : Int, count : Nat, first : Int]
      /\ history'.before = history.last /\ history'.last = t /\ history'.count = history.count + 1
      /\ history'.first = IF history.count = 0 THEN t ELSE history.first
  BY <1>1, <1>2
<1>4. Interval' = Interval /\ Tick' = Tick
  BY <1>1 DEF Interval, Tick
<1>5. CadenceTypeOK'
  <2>1. history.count >= 1 => 0 <= history.first /\ history.first <= cadence.base
                              /\ cadence.base <= cadence.last
    BY <1>1 DEF CadenceInv, CadenceTypeOK
  <2>2. 0 <= history'.first /\ history'.first <= t
    BY <1>1, <1>2, <1>3, <2>1
  <2> QED  BY <1>1, <1>2, <1>3, <1>4, <2>2 DEF CadenceTypeOK
<1>6. SlotInv'
  <2>1. Span(t, t) = 0
    BY <1>1, SpanAdds
  <2>2. history.count >= 1 => Span(t, history.last) < 0 /\ Span(t, history.last) \in Int
    BY <1>1, CadenceNumbers, SpanAdds
  <2>3. Span(cadence.base, history.last)' = Span(t, t)
    BY <1>1, <1>3 DEF Span
  <2>4. Span(cadence.base, history.before)' = Span(t, history.last)
    BY <1>1, <1>3 DEF Span
  <2>5. /\ Span(cadence.base, history.last)' >= cadence'.due - Interval' - Tick'
        /\ Span(cadence.base, history.last)' < cadence'.due
    BY <1>2, <1>3, <1>4, <2>1, <2>3
  <2>6. history'.count >= 2 => Span(cadence.base, history.before)' < cadence'.due - Interval'
    BY <1>1, <1>2, <1>3, <1>4, <2>2, <2>4
  <2> QED  BY <2>5, <2>6 DEF SlotInv
<1>7. PaceInv'
  <2>1. CASE history.count = 0
    <3>1. Span(history.first, cadence.base)' = Span(t, t) /\ Span(t, t) = 0 /\ history'.count = 1
      <4>1. history'.first = t
        BY <1>3, <2>1
      <4> QED  BY <1>1, <1>3, <2>1, <4>1, SpanAdds DEF Span
    <3>2. /\ Span(history.first, cadence.base)' >= 0 * (Word - 2 * Interval')
          /\ Span(history.first, cadence.base)' + cadence'.due >= history'.count * Interval' - 0 * Tick'
      BY <1>2, <1>3, <1>4, <3>1
    <3> QED  BY <3>2 DEF PaceInv
  <2>2. CASE history.count # 0
    <3> DEFINE b == Span(history.first, cadence.base)
               e == Span(cadence.base, t)
    <3>0. history.count >= 1 /\ history'.first = history.first
      BY <1>1, <1>3, <2>2
    <3>1. PICK r \in Nat :
            /\ b >= r * (Word - 2 * Interval)
            /\ b + cadence.due >= history.count * Interval - r * Tick
      BY <3>0 DEF CadenceInv, PaceInv
    <3>2. b \in Int /\ e \in Int /\ e >= 0 /\ Span(history.first, t) = b + e
      BY <3>0, CadenceNumbers
    <3>3. Span(history.first, cadence.base)' = Span(history.first, t)
      BY <1>1, <1>3, <3>0 DEF Span
    <3>4. e >= cadence.due \/ (e >= cadence.due - Tick /\ cadence.due + Interval >= Word)
      BY <3>0 DEF Anew
    <3> HIDE DEF b, e
    <3>5. /\ history.count * Interval \in Int /\ r * Tick \in Int /\ r * (Word - 2 * Interval) \in Int
          /\ (history.count + 1) * Interval = history.count * Interval + 1 * Interval
          /\ (r + 1) * Tick = r * Tick + 1 * Tick
          /\ (r + 1) * (Word - 2 * Interval) = r * (Word - 2 * Interval) + 1 * (Word - 2 * Interval)
      <4>1. history.count \in Int /\ Interval \in Int /\ Tick \in Int /\ Word - 2 * Interval \in Int
        BY <1>1, <1>2
      <4>2. (history.count + 1) * Interval = history.count * Interval + 1 * Interval
        BY <4>1, SumTimes
      <4>3. (r + 1) * Tick = r * Tick + 1 * Tick
        BY <4>1, SumTimes
      <4>4. (r + 1) * (Word - 2 * Interval) = r * (Word - 2 * Interval) + 1 * (Word - 2 * Interval)
        BY <4>1, SumTimes
      <4>5. history.count * Interval \in Int /\ r * Tick \in Int /\ r * (Word - 2 * Interval) \in Int
        BY <4>1
      <4> QED  BY <4>2, <4>3, <4>4, <4>5
    <3>6. CASE e >= cadence.due
      <4>1. /\ b + e >= r * (Word - 2 * Interval)
            /\ b + e + Interval >= (history.count + 1) * Interval - r * Tick
        BY <1>2, <3>1, <3>2, <3>5, <3>6
      <4>2. /\ Span(history.first, cadence.base)' >= r * (Word - 2 * Interval')
            /\ Span(history.first, cadence.base)' + cadence'.due >= history'.count * Interval' - r * Tick'
        BY <1>3, <1>4, <3>2, <3>3, <4>1
      <4> QED  BY <4>2 DEF PaceInv
    <3>7. CASE e >= cadence.due - Tick /\ cadence.due + Interval >= Word
      <4>1. /\ b + e >= (r + 1) * (Word - 2 * Interval)
            /\ b + e + Interval >= (history.count + 1) * Interval - (r + 1) * Tick
        BY <1>2, <3>1, <3>2, <3>5, <3>7
      <4>2. /\ Span(history.first, cadence.base)' >= (r + 1) * (Word - 2 * Interval')
            /\ Span(history.first, cadence.base)' + cadence'.due
                 >= history'.count * Interval' - (r + 1) * Tick'
        BY <1>3, <1>4, <3>2, <3>3, <4>1
      <4>3. r + 1 \in Nat
        OBVIOUS
      <4> QED  BY <4>2, <4>3 DEF PaceInv
    <3> QED  BY <3>4, <3>6, <3>7
  <2> QED  BY <2>1, <2>2
<1> QED  BY <1>5, <1>6, <1>7 DEF CadenceInv

LEMMA CadenceStep == CadenceInv /\ [CadenceNext]_cadenceVars => CadenceInv'
<1> SUFFICES ASSUME CadenceInv, [CadenceNext]_cadenceVars PROVE CadenceInv'
  OBVIOUS
<1>1. CASE CadenceNext
  <2>1. PICK gap \in 1..MaxGap : Evaluate(cadence.last + gap)
    BY <1>1 DEF CadenceNext
  <2>2. cadence.last + gap \in Int /\ cadence.last + gap > cadence.last
    BY CadenceAssumption DEF CadenceInv, CadenceTypeOK
  <2>3. FrameMoves(cadence.last + gap)
    BY <2>1, <2>2, EvaluateMoves
  <2> QED  BY <2>2, <2>3, HeldKeeps, OnGridKeeps, AnewKeeps DEF FrameMoves
<1>2. CASE UNCHANGED cadenceVars
  BY <1>2 DEF cadenceVars, CadenceInv, CadenceTypeOK, SlotInv, PaceInv, Span, Interval, Tick
<1> QED  BY <1>1, <1>2

Paced ==
  LET t == offered'.stamp
      n == history.count
      all == Span(history.first, t)
  IN /\ offered'.accepted /\ n >= 2 => Span(history.before, t) >= Interval - Tick
     /\ offered'.accepted /\ n >= 1 => all >= n * Interval - Rounding(all)
     /\ n >= 1 /\ Span(history.last, t) >= Interval => offered'.accepted

LEMMA FramesArePaced ==
  ASSUME CadenceInv, NEW t \in Int, t > cadence.last, FrameMoves(t)
  PROVE  Paced
<1>1. /\ offered'.stamp = t /\ rate \in Cadences /\ history.count \in Nat /\ cadence.due \in Int
  BY DEF FrameMoves, CadenceInv, CadenceTypeOK
<1>2. /\ Interval \in Nat \ {0} /\ Tick \in Nat \ {0} /\ Word \in Nat \ {0} /\ 2 * Interval < Word
  BY <1>1, RateIs
<1>3. offered'.accepted /\ history.count >= 1 => Span(cadence.base, t) >= cadence.due - Tick
  <2> SUFFICES ASSUME offered'.accepted, history.count >= 1 PROVE Span(cadence.base, t) >= cadence.due - Tick
    OBVIOUS
  <2>1. OnGrid(t) \/ Anew(t)
    BY DEF FrameMoves
  <2>2. \/ Span(cadence.base, t) >= cadence.due - Tick
        \/ Span(cadence.base, t) >= cadence.due
    BY <2>1 DEF OnGrid, Anew
  <2>3. Span(cadence.base, t) \in Int
    BY CadenceNumbers
  <2> QED  BY <1>1, <1>2, <2>2, <2>3
<1>4. offered'.accepted /\ history.count >= 2 => Span(history.before, t) >= Interval - Tick
  <2> SUFFICES ASSUME offered'.accepted, history.count >= 2
               PROVE  Span(history.before, t) >= Interval - Tick
    OBVIOUS
  <2>1. history.count >= 1
    BY <1>1
  <2>2. /\ Span(cadence.base, t) \in Int /\ Span(cadence.base, history.before) \in Int
        /\ Span(history.before, t) \in Int
        /\ Span(cadence.base, t) = Span(cadence.base, history.before) + Span(history.before, t)
    BY <2>1, CadenceNumbers
  <2>3. Span(cadence.base, history.before) < cadence.due - Interval
    BY DEF CadenceInv, SlotInv
  <2> QED  BY <1>1, <1>2, <1>3, <2>1, <2>2, <2>3
<1>5. offered'.accepted /\ history.count >= 1 =>
        Span(history.first, t) >= history.count * Interval - Rounding(Span(history.first, t))
  <2> SUFFICES ASSUME offered'.accepted, history.count >= 1
               PROVE  Span(history.first, t) >= history.count * Interval - Rounding(Span(history.first, t))
    OBVIOUS
  <2> DEFINE all == Span(history.first, t)
             b == Span(history.first, cadence.base)
             e == Span(cadence.base, t)
             w == Word - 2 * Interval
  <2>1. PICK r \in Nat : b >= r * w /\ b + cadence.due >= history.count * Interval - r * Tick
    BY DEF CadenceInv, PaceInv
  <2>2. b \in Int /\ e \in Int /\ e >= 0 /\ all = b + e
    BY CadenceNumbers
  <2>3. e >= cadence.due - Tick
    BY <1>3
  <2>4. w \in Nat \ {0}
    BY <1>2
  <2>5. Rounding(all) = Tick * (1 + all \div w)
    BY DEF Rounding, Tick, Interval
  <2> HIDE DEF b, e, w, all
  <2>6. all \in Int /\ r * w \in Int /\ all >= r * w
    BY <2>1, <2>2, <2>4
  <2>7. all \div w >= r /\ all \div w \in Int
    BY <2>4, <2>6, QuotientReaches, QuotientIs
  <2> DEFINE q == all \div w
  <2>8. q \in Int /\ q >= r /\ Rounding(all) = Tick * (1 + q)
    BY <2>5, <2>7
  <2> HIDE DEF q
  <2>9. r * Tick <= q * Tick /\ Tick * (1 + q) = Tick + q * Tick /\ r * Tick \in Int /\ q * Tick \in Int
    BY <1>2, <2>8, ProductGrows
  <2>10. history.count * Interval \in Int
    BY <1>1, <1>2
  <2>11. all >= history.count * Interval - Rounding(all)
    BY <1>1, <1>2, <2>1, <2>2, <2>3, <2>8, <2>9, <2>10
  <2> QED  BY <2>11 DEF all
<1>6. history.count >= 1 /\ Span(history.last, t) >= Interval => offered'.accepted
  <2> SUFFICES ASSUME history.count >= 1, Span(history.last, t) >= Interval, ~offered'.accepted
               PROVE  FALSE
    OBVIOUS
  <2>1. Span(cadence.base, t) < cadence.due - Tick
    BY DEF FrameMoves, Held
  <2>2. /\ Span(cadence.base, t) \in Int /\ Span(cadence.base, history.last) \in Int
        /\ Span(history.last, t) \in Int
        /\ Span(cadence.base, t) = Span(cadence.base, history.last) + Span(history.last, t)
    BY CadenceNumbers
  <2>3. Span(cadence.base, history.last) >= cadence.due - Interval - Tick
    BY DEF CadenceInv, SlotInv
  <2> QED  BY <1>1, <1>2, <2>1, <2>2, <2>3
<1> QED  BY <1>1, <1>4, <1>5, <1>6 DEF Paced

(* The frames recorded keep the target rate, to the rounding of stamps and *)
(* of the words they are counted in, and none is held back that comes a    *)
(* whole slot after the last: VideoFrameCadence, for any rate and word.    *)
THEOREM FramesKeepTheRate == CadenceSpec => CadencePaced
<1>1. CadenceInv /\ [CadenceNext]_cadenceVars => [Paced]_cadenceVars
  <2> SUFFICES ASSUME CadenceInv, CadenceNext PROVE Paced
    OBVIOUS
  <2>1. PICK gap \in 1..MaxGap : Evaluate(cadence.last + gap)
    BY DEF CadenceNext
  <2>2. cadence.last + gap \in Int /\ cadence.last + gap > cadence.last
    BY CadenceAssumption DEF CadenceInv, CadenceTypeOK
  <2> QED  BY <2>1, <2>2, EvaluateMoves, FramesArePaced
<1>2. [][Paced]_cadenceVars => CadencePaced
  BY DEF CadencePaced, Paced
<1> QED  BY <1>1, <1>2, CadenceStart, CadenceStep, PTL DEF CadenceSpec

-----------------------------------------------------------------------------
(* The least and the greatest of a set of numbers.                         *)

LEMMA LeastOf ==
  ASSUME NEW S, S \subseteq Nat, S # {}
  PROVE  Min(S) \in S /\ \A x \in S : Min(S) <= x
<1> DEFINE R == {p \in Nat \X Nat : p[1] < p[2]}
<1>1. IsWellFoundedOn(R, Nat)
  BY NatLessThanWellFounded DEF OpToRel
<1> HIDE DEF R
<1>2. PICK m \in S : \A y \in S : <<y, m>> \notin R
  BY <1>1, WFMin
<1>3. \A y \in S : ~(y < m)
  BY <1>2 DEF R
<1>4. \A y \in S : m <= y
  BY <1>3
<1> QED  BY <1>4 DEF Min

(* The greatest is n less the least of what is missing to n.               *)
LEMMA GreatestOf ==
  ASSUME NEW S, S \subseteq Nat, S # {}, NEW n \in Nat, \A x \in S : x <= n
  PROVE  Max(S) \in S /\ \A x \in S : x <= Max(S)
<1> DEFINE T == {n - x : x \in S}
<1>1. T \subseteq Nat /\ T # {}
  <2>1. \A x \in S : n - x \in Nat
    OBVIOUS
  <2>2. T \subseteq Nat
    BY <2>1
  <2>3. T # {}
    BY Zenon
  <2> QED  BY <2>2, <2>3
<1>2. Min(T) \in T /\ \A y \in T : Min(T) <= y
  BY <1>1, LeastOf
<1>3. PICK m \in S : Min(T) = n - m
  BY <1>2
<1>4. \A x \in S : n - m <= n - x
  BY <1>2, <1>3
<1>5. \A x \in S : m >= x
  BY <1>4
<1>6. Max(S) \in S /\ \A x \in S : Max(S) >= x
  BY <1>5 DEF Max
<1> QED  BY <1>6

-----------------------------------------------------------------------------
(* In order: what InOrder makes of a finite set and an order of it.        *)

StrictOrder(S, R) ==
  /\ \A x \in S : <<x, x>> \notin R
  /\ \A x, y, z \in S : <<x, y>> \in R /\ <<y, z>> \in R => <<x, z>> \in R
  /\ \A x, y \in S : x = y \/ <<x, y>> \in R \/ <<y, x>> \in R

Ranked(S, R) ==
  [k \in 1..Cardinality(S) |->
     CHOOSE x \in S : Cardinality({y \in S : <<y, x>> \in R}) = k - 1]

Arranged(s, S, R) ==
  /\ s \in [1..Cardinality(S) -> S]
  /\ \A x \in S : \E k \in DOMAIN s : s[k] = x
  /\ \A j, k \in DOMAIN s : j < k <=> <<s[j], s[k]>> \in R

(* Ranks are different numbers from 1 to the size of the set, so that each *)
(* is taken; x comes before y exactly if its rank is lower.                *)
LEMMA Ordering ==
  ASSUME NEW S, IsFiniteSet(S), NEW R, StrictOrder(S, R)
  PROVE  Arranged(Ranked(S, R), S, R)
<1> USE DEF StrictOrder
<1> DEFINE s == Ranked(S, R)
           n == Cardinality(S)
           Below(x) == {y \in S : <<y, x>> \in R}
           rank == [x \in S |-> Cardinality(Below(x)) + 1]
<1>1. n \in Nat
  BY FS_CardinalityType
<1>2. ASSUME NEW x \in S
      PROVE  /\ IsFiniteSet(Below(x)) /\ Cardinality(Below(x)) \in Nat
             /\ Cardinality(Below(x)) < n
  <2>1. Below(x) \in SUBSET S
    OBVIOUS
  <2>2. IsFiniteSet(Below(x)) /\ Cardinality(Below(x)) <= n
    BY <2>1, FS_Subset
  <2>3. Cardinality(Below(x)) \in Nat
    BY <2>2, FS_CardinalityType
  <2>4. Below(x) # S
    OBVIOUS
  <2>5. Cardinality(Below(x)) # n
    BY <2>1, <2>4, FS_Subset
  <2> QED  BY <2>2, <2>3, <2>5, <1>1
<1>3. ASSUME NEW x \in S, NEW y \in S, <<x, y>> \in R
      PROVE  Cardinality(Below(x)) < Cardinality(Below(y))
  <2>1. Below(x) \in SUBSET Below(y)
    BY <1>3
  <2>2. Below(x) # Below(y)
    BY <1>3
  <2>3. IsFiniteSet(Below(y))
    BY <1>2
  <2>4. Cardinality(Below(x)) <= Cardinality(Below(y))
    BY <2>1, <2>3, FS_Subset
  <2>5. Cardinality(Below(x)) # Cardinality(Below(y))
    BY <2>1, <2>2, <2>3, FS_Subset
  <2>6. Cardinality(Below(x)) \in Nat /\ Cardinality(Below(y)) \in Nat
    BY <1>2
  <2> QED  BY <2>4, <2>5, <2>6
<1> HIDE DEF Below
<1>4. \A x, y \in S : rank[x] = rank[y] => x = y
  <2>1. SUFFICES ASSUME NEW x \in S, NEW y \in S, x # y PROVE rank[x] # rank[y]
    OBVIOUS
  <2>2. Cardinality(Below(x)) \in Nat /\ Cardinality(Below(y)) \in Nat
    BY <1>2
  <2>3. CASE <<x, y>> \in R
    <3>1. Cardinality(Below(x)) < Cardinality(Below(y))
      BY <2>3, <1>3
    <3> QED  BY <2>2, <3>1
  <2>4. CASE <<y, x>> \in R
    <3>1. Cardinality(Below(y)) < Cardinality(Below(x))
      BY <2>4, <1>3
    <3> QED  BY <2>2, <3>1
  <2> QED  BY <2>1, <2>3, <2>4
<1>5. \A x \in S : rank[x] \in 1..n
  <2>1. SUFFICES ASSUME NEW x \in S PROVE Cardinality(Below(x)) + 1 \in 1..n
    OBVIOUS
  <2> QED  BY <1>1, <1>2
<1>6. rank \in Injection(S, 1..n)
  BY <1>4, <1>5 DEF Injection, IsInjective
<1>7. IsFiniteSet(1..n) /\ Cardinality(1..n) = n
  BY <1>1, FS_Interval
<1>8. rank \in Surjection(S, 1..n)
  BY <1>6, <1>7, FS_Injection
<1>9. \A k \in 1..n : \E x \in S : Cardinality(Below(x)) = k - 1
  <2>1. SUFFICES ASSUME NEW k \in 1..n PROVE \E x \in S : Cardinality(Below(x)) = k - 1
    OBVIOUS
  <2>2. PICK x \in S : rank[x] = k
    BY <1>8 DEF Surjection
  <2>3. Cardinality(Below(x)) \in Nat /\ Cardinality(Below(x)) + 1 = k
    BY <1>2, <2>2
  <2> QED  BY <1>1, <2>3
<1>10. s = [k \in 1..n |-> CHOOSE x \in S : Cardinality(Below(x)) = k - 1]
  BY DEF Below, Ranked
<1> HIDE DEF s
<1>11. ASSUME NEW k \in 1..n
       PROVE  s[k] \in S /\ Cardinality(Below(s[k])) = k - 1
  BY <1>9, <1>10
<1>12. DOMAIN s = 1..n /\ s \in [1..n -> S]
  BY <1>10, <1>11
<1>13. \A x \in S : \E k \in DOMAIN s : s[k] = x
  <2>1. SUFFICES ASSUME NEW x \in S PROVE \E k \in 1..n : s[k] = x
    BY <1>12
  <2>2. rank[x] \in 1..n
    BY <1>5
  <2>3. s[rank[x]] \in S /\ Cardinality(Below(s[rank[x]])) = rank[x] - 1
    BY <2>2, <1>11
  <2>4. rank[s[rank[x]]] = (rank[x] - 1) + 1
    BY <2>3
  <2>5. rank[s[rank[x]]] = rank[x]
    BY <1>1, <2>2, <2>4
  <2>6. s[rank[x]] = x
    BY <2>3, <2>5, <1>4
  <2> QED  BY <2>2, <2>6
<1>14. \A j, k \in DOMAIN s : j < k <=> <<s[j], s[k]>> \in R
  <2>1. SUFFICES ASSUME NEW j \in 1..n, NEW k \in 1..n
                 PROVE  j < k <=> <<s[j], s[k]>> \in R
    BY <1>12
  <2>2. s[j] \in S /\ Cardinality(Below(s[j])) = j - 1
    BY <1>11
  <2>3. s[k] \in S /\ Cardinality(Below(s[k])) = k - 1
    BY <1>11
  <2>4. <<s[j], s[k]>> \in R => j - 1 < k - 1
    <3>1. <<s[j], s[k]>> \in R => Cardinality(Below(s[j])) < Cardinality(Below(s[k]))
      BY <2>2, <2>3, <1>3
    <3> QED  BY <2>2, <2>3, <3>1
  <2>5. <<s[k], s[j]>> \in R => k - 1 < j - 1
    <3>1. <<s[k], s[j]>> \in R => Cardinality(Below(s[k])) < Cardinality(Below(s[j]))
      BY <2>2, <2>3, <1>3
    <3> QED  BY <2>2, <2>3, <3>1
  <2>6. s[j] = s[k] => j = k
    <3>1. s[j] = s[k] => j - 1 = k - 1
      BY <2>2, <2>3
    <3>2. j \in Int /\ k \in Int
      BY <1>1
    <3> QED  BY ONLY <3>1, <3>2
  <2>7. s[j] = s[k] \/ <<s[j], s[k]>> \in R \/ <<s[k], s[j]>> \in R
    BY <2>2, <2>3
  <2>8. j \in Int /\ k \in Int
    BY <1>1
  <2> QED  BY ONLY <2>4, <2>5, <2>6, <2>7, <2>8
<1>15. Arranged(s, S, R)
  BY <1>12, <1>13, <1>14 DEF Arranged
<1> QED  BY ONLY <1>15 DEF s

-----------------------------------------------------------------------------
(* The index: video is in order and nominally long, its first packet a     *)
(* key frame.  The inductive invariant of ExportPlan.                      *)

Packets == [track : Nat, key : BOOLEAN, duration : Nat \ {0}, pts : Nat]

IndexTypeOK ==
  /\ index \in Seq(Packets)
  /\ \A i \in DOMAIN index : Track(i) \in {VideoTrack} \cup AudioTracks

VideoInOrder ==
  \A i, j \in OfTrack(VideoTrack) : i < j => index[i].pts < index[j].pts

NominalFrames == \A i \in OfTrack(VideoTrack) : index[i].duration = FrameLength

FirstIsKey ==
  \A i \in OfTrack(VideoTrack) :
    (\A j \in OfTrack(VideoTrack) : i <= j) => index[i].key

IndexInv == IndexTypeOK /\ VideoInOrder /\ NominalFrames /\ FirstIsKey

(* What is so of the packets of the index and the places of a track.       *)
LEMMA IndexPlaces ==
  ASSUME IndexTypeOK, NEW t
  PROVE  /\ Len(index) \in Nat /\ DOMAIN index = 1..Len(index)
         /\ OfTrack(t) \subseteq 1..Len(index) /\ OfTrack(t) \subseteq Nat
         /\ IsFiniteSet(OfTrack(t)) /\ Cardinality(OfTrack(t)) \in Nat
         /\ \A i \in OfTrack(t) : i <= Len(index)
         /\ \A i \in DOMAIN index :
              /\ index[i].track \in Nat /\ index[i].key \in BOOLEAN
              /\ index[i].duration \in Nat /\ index[i].duration > 0 /\ index[i].pts \in Nat
<1> DEFINE P == Packets
<1>1. index \in Seq(P)
  BY DEF IndexTypeOK
<1> HIDE DEF P
<1>2. Len(index) \in Nat /\ DOMAIN index = 1..Len(index)
  BY <1>1
<1>3. \A i \in DOMAIN index : index[i] \in P
  BY <1>1
<1>4. OfTrack(t) \subseteq 1..Len(index) /\ OfTrack(t) \subseteq Nat
  BY <1>2 DEF OfTrack
<1>5. IsFiniteSet(1..Len(index))
  BY <1>2, FS_Interval
<1>6. IsFiniteSet(OfTrack(t)) /\ Cardinality(OfTrack(t)) \in Nat
  BY <1>4, <1>5, FS_Subset, FS_CardinalityType
<1>7. \A i \in OfTrack(t) : i <= Len(index)
  BY <1>2, <1>4
<1>8. ASSUME NEW i \in DOMAIN index
      PROVE  /\ index[i].track \in Nat /\ index[i].key \in BOOLEAN
             /\ index[i].duration \in Nat /\ index[i].duration > 0 /\ index[i].pts \in Nat
  BY <1>3 DEF P, Packets
<1> QED  BY <1>2, <1>4, <1>6, <1>7, <1>8

(* A packet comes last in its track, and what was there stays.             *)
LEMMA Appended ==
  ASSUME IndexTypeOK, NEW p \in Packets, index' = Append(index, p),
         p.track \in {VideoTrack} \cup AudioTracks
  PROVE  /\ IndexTypeOK'
         /\ DOMAIN index' = DOMAIN index \cup {Len(index) + 1}
         /\ \A i \in DOMAIN index : index'[i] = index[i] /\ i < Len(index) + 1
         /\ index'[Len(index) + 1] = p
         /\ \A t : OfTrack(t)' = OfTrack(t) \cup (IF p.track = t THEN {Len(index) + 1} ELSE {})
<1> DEFINE P == Packets
           n == Len(index)
<1>1. index \in Seq(P) /\ p \in P
  BY DEF IndexTypeOK
<1>2. n \in Nat /\ DOMAIN index = 1..n
  BY IndexPlaces
<1> HIDE DEF P
<1>3. index' \in Seq(P) /\ Len(index') = n + 1
  BY <1>1
<1>4. DOMAIN index' = 1..(n + 1)
  BY <1>3
<1>5. 1..(n + 1) = 1..n \cup {n + 1}
  BY <1>2
<1>6. \A i \in DOMAIN index : index'[i] = index[i] /\ i < n + 1
  BY <1>1, <1>2
<1>7. index'[n + 1] = p
  BY <1>1, <1>2
<1>8. n + 1 \notin DOMAIN index
  BY <1>2
<1> HIDE DEF n
<1>9. \A t : OfTrack(t)' = OfTrack(t) \cup (IF p.track = t THEN {n + 1} ELSE {})
  BY <1>2, <1>4, <1>5, <1>6, <1>7, <1>8 DEF OfTrack, Track
<1>10. \A i \in DOMAIN index' : Track(i)' \in {VideoTrack} \cup AudioTracks
  <2>1. \A i \in DOMAIN index : index[i].track \in {VideoTrack} \cup AudioTracks
    BY DEF IndexTypeOK, Track
  <2> QED  BY <2>1, <1>2, <1>4, <1>5, <1>6, <1>7 DEF Track
<1>11. IndexTypeOK'
  BY <1>3, <1>10 DEF IndexTypeOK, P
<1> QED  BY <1>2, <1>4, <1>5, <1>6, <1>7, <1>9, <1>11 DEF n

(* The index of a new store, and of one with a packet more.                *)
LEMMA IndexStarts == ExportInit => IndexInv
  BY DEF ExportInit, IndexInv, IndexTypeOK, VideoInOrder, NominalFrames, FirstIsKey, OfTrack

LEMMA IndexStays == IndexInv /\ [ExportNext]_index => IndexInv'
<1> USE ExportAssumption
<1>2. ASSUME IndexInv, AppendH264Packet PROVE IndexInv'
  <2> DEFINE own == OfTrack(VideoTrack)
             n == Len(index)
  <2>1. IndexTypeOK
    BY <1>2 DEF IndexInv
  <2>2. PICK interval \in 1..MaxInterval, key \in BOOLEAN :
          /\ own = {} => key
          /\ index' = Append(index,
               [track |-> VideoTrack, key |-> key, duration |-> FrameLength,
                pts |-> IF own = {} THEN interval - 1 ELSE index[Max(own)].pts + interval])
    BY <1>2 DEF AppendH264Packet
  <2> DEFINE p == [track |-> VideoTrack, key |-> key, duration |-> FrameLength,
                   pts |-> IF own = {} THEN interval - 1 ELSE index[Max(own)].pts + interval]
  <2>3. MaxInterval \in Nat /\ FrameLength \in Nat \ {0} /\ interval \in Nat /\ interval > 0
    BY DEF ExportAssumption
  <2>4. own # {} => Max(own) \in own /\ \A i \in own : i <= Max(own)
    BY <2>1, IndexPlaces, GreatestOf
  <2>5. \A i \in own : i \in DOMAIN index /\ index[i].pts \in Nat
    BY <2>1, IndexPlaces DEF OfTrack
  <2>6. p.pts \in Nat
    BY <2>3, <2>4, <2>5
  <2>7. p \in Packets
    BY <2>3, <2>6 DEF Packets, VideoTrack
  <2>8. \A i \in own : index[i].pts < p.pts
    <3>1. SUFFICES ASSUME NEW i \in own PROVE index[i].pts < index[Max(own)].pts + interval
      OBVIOUS
    <3>2. i = Max(own) \/ i < Max(own)
      BY <2>1, <2>4, IndexPlaces
    <3>3. index[i].pts = index[Max(own)].pts \/ index[i].pts < index[Max(own)].pts
      BY <1>2, <2>4, <3>2 DEF IndexInv, VideoInOrder
    <3> QED  BY <2>3, <2>4, <2>5, <3>3
  <2>9. p.track = VideoTrack /\ p.duration = FrameLength /\ (own = {} => p.key)
    BY <2>2
  <2>10. index' = Append(index, p)
    BY <2>2
  <2> HIDE DEF p
  <2>11. /\ IndexTypeOK' /\ DOMAIN index' = DOMAIN index \cup {n + 1}
         /\ \A i \in DOMAIN index : index'[i] = index[i] /\ i < n + 1
         /\ index'[n + 1] = p
         /\ OfTrack(VideoTrack)' = own \cup {n + 1}
    <3>1. p.track \in {VideoTrack} \cup AudioTracks
      BY <2>9
    <3> QED  BY <2>1, <2>7, <2>9, <2>10, <3>1, Appended
  <2> HIDE DEF n
  <2>12. n + 1 \notin own /\ \A i \in own : ~(n + 1 < i)
    <3>1. n \in Nat /\ \A i \in own : i \in Nat /\ i <= n
      BY <2>1, IndexPlaces DEF n
    <3> QED  BY <3>1
  <2>13. VideoInOrder'
    <3>1. SUFFICES ASSUME NEW i \in own \cup {n + 1}, NEW j \in own \cup {n + 1}, i < j
                   PROVE  index'[i].pts < index'[j].pts
      BY <2>11 DEF VideoInOrder
    <3>2. i \in own
      <4>1. n \in Nat /\ ~(n + 1 < n + 1)
        BY <2>1, IndexPlaces DEF n
      <4> QED  BY <2>12, <3>1, <4>1
    <3>3. index'[i] = index[i]
      BY <2>5, <2>11, <3>2
    <3>4. CASE j \in own
      <4>1. index'[j] = index[j]
        BY <2>5, <2>11, <3>4
      <4>2. index[i].pts < index[j].pts
        BY <1>2, <3>1, <3>2, <3>4 DEF IndexInv, VideoInOrder
      <4> QED  BY <3>3, <4>1, <4>2
    <3>5. CASE j = n + 1
      BY <2>8, <2>11, <3>2, <3>3, <3>5
    <3> QED  BY <3>4, <3>5
  <2>14. NominalFrames'
    BY <1>2, <2>5, <2>9, <2>11 DEF IndexInv, NominalFrames
  <2>15. FirstIsKey'
    <3>1. SUFFICES ASSUME NEW i \in own \cup {n + 1}, \A j \in own \cup {n + 1} : i <= j
                   PROVE  index'[i].key
      BY <2>11 DEF FirstIsKey
    <3>2. CASE i \in own
      BY <1>2, <2>5, <2>11, <3>1, <3>2 DEF IndexInv, FirstIsKey
    <3>3. CASE i = n + 1
      <4>1. own = {}
        <5>1. \A j \in own : j < n + 1 /\ j \in Nat
          BY <2>1, <2>5, <2>11, IndexPlaces
        <5>2. n \in Nat
          BY <2>1, IndexPlaces DEF n
        <5>3. ASSUME NEW j \in own PROVE FALSE
          <6>1. n + 1 <= j /\ j < n + 1 /\ j \in Nat
            BY <3>1, <3>3, <5>1
          <6> QED  BY ONLY <5>2, <6>1
        <5> QED  BY <5>3
      <4> QED  BY <2>9, <2>11, <3>3, <4>1
    <3> QED  BY <3>1, <3>2, <3>3
  <2> QED  BY <2>11, <2>13, <2>14, <2>15 DEF IndexInv
<1>3. ASSUME IndexInv, NEW t \in AudioTracks, AppendAacPacket(t) PROVE IndexInv'
  <2> DEFINE count == Cardinality(OfTrack(t))
             own == OfTrack(VideoTrack)
             n == Len(index)
  <2>1. IndexTypeOK
    BY <1>3 DEF IndexInv
  <2>2. PICK rounding \in {0, 1} :
          index' = Append(index, [track |-> t, key |-> FALSE, duration |-> AacLength + rounding,
                                  pts |-> count * AacLength])
    BY <1>3 DEF AppendAacPacket
  <2> DEFINE p == [track |-> t, key |-> FALSE, duration |-> AacLength + rounding,
                   pts |-> count * AacLength]
  <2>3. t \in Nat /\ t # VideoTrack /\ AacLength \in Nat \ {0}
    BY DEF ExportAssumption
  <2>4. count \in Nat
    BY <2>1, IndexPlaces
  <2>5. p \in Packets
    BY <2>3, <2>4 DEF Packets
  <2>6. p.track = t
    OBVIOUS
  <2>7. index' = Append(index, p)
    BY <2>2
  <2> HIDE DEF p
  <2>8. /\ IndexTypeOK' /\ DOMAIN index' = DOMAIN index \cup {n + 1}
        /\ \A i \in DOMAIN index : index'[i] = index[i] /\ i < n + 1
        /\ OfTrack(VideoTrack)' = own
    <3>1. p.track \in {VideoTrack} \cup AudioTracks
      BY <2>6
    <3>2. \A u : OfTrack(u)' = OfTrack(u) \cup (IF p.track = u THEN {n + 1} ELSE {})
      BY <2>1, <2>5, <2>7, <3>1, Appended
    <3>3. OfTrack(VideoTrack)' = own
      BY <2>3, <2>6, <3>2
    <3> QED  BY <2>1, <2>5, <2>7, <3>1, <3>3, Appended
  <2>9. \A i \in own : i \in DOMAIN index
    BY DEF OfTrack
  <2>10. \A i \in own : index'[i] = index[i]
    BY <2>8, <2>9
  <2>11. VideoInOrder' /\ NominalFrames' /\ FirstIsKey'
    BY <1>3, <2>8, <2>10 DEF IndexInv, VideoInOrder, NominalFrames, FirstIsKey
  <2> QED  BY <2>8, <2>11 DEF IndexInv
<1>4. ASSUME IndexInv, UNCHANGED index PROVE IndexInv'
  BY <1>4 DEF IndexInv, IndexTypeOK, VideoInOrder, NominalFrames, FirstIsKey, OfTrack, Track
<1> QED  BY <1>2, <1>3, <1>4 DEF ExportNext

-----------------------------------------------------------------------------
(* A plan is in order, and has every packet of its range.                  *)

IsPlan(packets, places, start) ==
  /\ \E n \in Nat : DOMAIN packets = 1..n
  /\ \A k \in DOMAIN packets :
       /\ packets[k].packet \in places
       /\ packets[k].time = NormalizeTimestamp(index[packets[k].packet].pts, start)
  /\ \A i \in places : \E k \in DOMAIN packets : packets[k].packet = i
  /\ \A j, k \in DOMAIN packets : j < k <=> Before(packets[j], packets[k])

(* The order of the writer is total: two packets at one time are of        *)
(* different tracks or have their places.                                  *)
LEMMA PlanInOrder ==
  ASSUME IndexTypeOK, NEW range, range.packets \subseteq DOMAIN index, range.start \in Nat
  PROVE  IsPlan(BuildMuxPlan(range), range.packets, range.start)
<1> DEFINE Ref(i) == [packet |-> i, time |-> NormalizeTimestamp(index[i].pts, range.start)]
           refs == {Ref(i) : i \in range.packets}
           R == {p \in refs \X refs : Before(p[1], p[2])}
           s == BuildMuxPlan(range)
<1>1. /\ Len(index) \in Nat /\ DOMAIN index = 1..Len(index)
      /\ \A i \in DOMAIN index : index[i].track \in Nat /\ index[i].pts \in Nat
  BY IndexPlaces
<1>2. IsFiniteSet(range.packets)
  <2>1. IsFiniteSet(1..Len(index))
    BY <1>1, FS_Interval
  <2> QED  BY <1>1, <2>1, FS_Subset
<1>3. IsFiniteSet(refs)
  <2> DEFINE f == [i \in range.packets |-> Ref(i)]
  <2>1. f \in Surjection(range.packets, refs)
    BY DEF Surjection
  <2> QED  BY <1>2, <2>1, FS_Surjection
<1>4. \A r \in refs : /\ r.packet \in range.packets /\ r.packet \in Nat
                      /\ r.time \in Nat /\ Track(r.packet) \in Nat
                      /\ r.time = NormalizeTimestamp(index[r.packet].pts, range.start)
  <2>1. SUFFICES ASSUME NEW i \in range.packets
                 PROVE  /\ i \in Nat /\ Track(i) \in Nat
                        /\ NormalizeTimestamp(index[i].pts, range.start) \in Nat
    OBVIOUS
  <2>2. i \in Nat /\ index[i].pts \in Nat /\ index[i].track \in Nat
    BY <1>1
  <2>3. index[i].pts - range.start \in Int
    BY <2>2
  <2> QED  BY <2>2, <2>3 DEF NormalizeTimestamp, Later, Track
<1>5. \A q, r \in refs : q.packet = r.packet => q = r
  OBVIOUS
<1>6. \A i \in range.packets : Ref(i) \in refs /\ Ref(i).packet = i
  OBVIOUS
<1> HIDE DEF refs
<1>7. s = Ranked(refs, R)
  <2>1. \A x \in refs : {y \in refs : <<y, x>> \in R} = {y \in refs : Before(y, x)}
    OBVIOUS
  <2>2. s = InOrder(refs, Before)
    BY DEF BuildMuxPlan, refs
  <2>3. \A k \in 1..Cardinality(refs) :
          (CHOOSE x \in refs : Cardinality({y \in refs : <<y, x>> \in R}) = k - 1)
          = (CHOOSE x \in refs : Cardinality({y \in refs : Before(y, x)}) = k - 1)
    BY <2>1
  <2> QED  BY <2>2, <2>3 DEF InOrder, Ranked
<1>8. \A q, r \in refs : <<q, r>> \in R <=> Before(q, r)
  OBVIOUS
<1> HIDE DEF s, R, Ref
<1>9. \A x \in refs : ~Before(x, x)
  BY <1>4 DEF Before
<1>10. \A x, y, z \in refs : Before(x, y) /\ Before(y, z) => Before(x, z)
  BY <1>4 DEF Before
<1>11. \A x, y \in refs : x = y \/ Before(x, y) \/ Before(y, x)
  BY <1>4, <1>5 DEF Before
<1>12. /\ s \in [1..Cardinality(refs) -> refs]
       /\ \A x \in refs : \E k \in DOMAIN s : s[k] = x
       /\ \A j, k \in DOMAIN s : j < k <=> <<s[j], s[k]>> \in R
  <2>1. \A x \in refs : <<x, x>> \notin R
    BY <1>8, <1>9
  <2>2. \A x, y, z \in refs : <<x, y>> \in R /\ <<y, z>> \in R => <<x, z>> \in R
    BY <1>8, <1>10
  <2>3. \A x, y \in refs : x = y \/ <<x, y>> \in R \/ <<y, x>> \in R
    BY <1>8, <1>11
  <2>4. Arranged(s, refs, R)
    BY <1>3, <1>7, <2>1, <2>2, <2>3, Ordering DEF StrictOrder
  <2> QED  BY <2>4 DEF Arranged
<1>13. DOMAIN s = 1..Cardinality(refs) /\ Cardinality(refs) \in Nat
  BY <1>3, <1>12, FS_CardinalityType
<1>14. \A k \in DOMAIN s : s[k] \in refs
  BY <1>12
<1>15. \A i \in range.packets : \E k \in DOMAIN s : s[k].packet = i
  BY <1>6, <1>12
<1>16. \A j, k \in DOMAIN s : j < k <=> Before(s[j], s[k])
  BY <1>8, <1>12, <1>14
<1>17. \A k \in DOMAIN s :
         /\ s[k].packet \in range.packets
         /\ s[k].time = NormalizeTimestamp(index[s[k].packet].pts, range.start)
  BY <1>4, <1>14
<1>18. IsPlan(s, range.packets, range.start)
  BY <1>13, <1>15, <1>16, <1>17 DEF IsPlan
<1> QED  BY <1>18 DEF s

(* The same of tracks.                                                     *)
LEMMA TracksInOrder ==
  ASSUME NEW T, T \subseteq Nat, IsFiniteSet(T)
  PROVE  LET s == InOrder(T, Less)
         IN /\ s \in [1..Cardinality(T) -> T] /\ Cardinality(T) \in Nat
            /\ ToSet(s) = T
            /\ IsInjective(s)
<1> DEFINE R == {p \in T \X T : p[1] < p[2]}
           s == InOrder(T, Less)
<1>1. s = Ranked(T, R)
  <2>1. \A x \in T : {y \in T : <<y, x>> \in R} = {y \in T : Less(y, x)}
    BY DEF Less
  <2>2. \A k \in 1..Cardinality(T) :
          (CHOOSE x \in T : Cardinality({y \in T : <<y, x>> \in R}) = k - 1)
          = (CHOOSE x \in T : Cardinality({y \in T : Less(y, x)}) = k - 1)
    BY <2>1
  <2> QED  BY <2>2 DEF InOrder, Ranked
<1>2. \A x, y \in T : <<x, y>> \in R <=> x < y
  OBVIOUS
<1> HIDE DEF s, R
<1>3. /\ s \in [1..Cardinality(T) -> T]
      /\ \A x \in T : \E k \in DOMAIN s : s[k] = x
      /\ \A j, k \in DOMAIN s : j < k <=> <<s[j], s[k]>> \in R
  <2>0. \A x \in T : x \in Nat
    OBVIOUS
  <2>1. \A x \in T : <<x, x>> \notin R
    BY <1>2, <2>0
  <2>2. \A x, y, z \in T : <<x, y>> \in R /\ <<y, z>> \in R => <<x, z>> \in R
    <3>1. \A x, y, z \in T : x < y /\ y < z => x < z
      BY <2>0
    <3> QED  BY <1>2, <3>1
  <2>3. \A x, y \in T : x = y \/ <<x, y>> \in R \/ <<y, x>> \in R
    <3>1. \A x, y \in T : x = y \/ x < y \/ y < x
      BY <2>0
    <3> QED  BY <1>2, <3>1
  <2>4. Arranged(s, T, R)
    BY <1>1, <2>1, <2>2, <2>3, Ordering DEF StrictOrder
  <2> QED  BY <2>4 DEF Arranged
<1>4. Cardinality(T) \in Nat /\ DOMAIN s = 1..Cardinality(T)
  BY <1>3, FS_CardinalityType
<1>5. ToSet(s) = T
  BY <1>3 DEF ToSet
<1>6. ASSUME NEW j \in DOMAIN s, NEW k \in DOMAIN s, s[j] = s[k] PROVE j = k
  <2>1. j \in Nat /\ k \in Nat
    BY <1>4
  <2>2. s[j] \in T /\ s[k] \in T /\ ~(s[j] < s[k]) /\ ~(s[k] < s[j])
    <3>1. s[j] \in T /\ s[k] \in T
      BY <1>3
    <3>2. s[j] \in Nat
      BY <3>1
    <3>3. ~(s[j] < s[j])
      BY ONLY <3>2
    <3> QED  BY <1>6, <3>1, <3>3
  <2>3. <<s[j], s[k]>> \notin R /\ <<s[k], s[j]>> \notin R
    BY <1>2, <2>2
  <2>4. ~(j < k) /\ ~(k < j)
    BY <1>3, <2>3
  <2> QED  BY ONLY <2>1, <2>4
<1>7. IsInjective(s)
  BY <1>6 DEF IsInjective
<1> QED  BY <1>3, <1>4, <1>5, <1>7 DEF s

-----------------------------------------------------------------------------
(* The end of the recording is that of the last frame.                     *)

Video == OfTrack(VideoTrack)
KeysBefore(from) == {i \in Video : index[i].key /\ index[i].pts <= from}
FirstOf(from) == IF KeysBefore(from) = {} THEN Min(Video) ELSE Max(KeysBefore(from))

(* Video is shown in the order of the index, a nominal frame each.         *)
LEMMA VideoFacts ==
  ASSUME IndexInv
  PROVE  /\ Video \subseteq DOMAIN index /\ Video \subseteq Nat
         /\ \A i \in Video :
              /\ i \in DOMAIN index /\ i \in Nat /\ Track(i) = VideoTrack
              /\ index[i].pts \in Nat /\ index[i].duration = FrameLength
              /\ EndPts(index[i]) = index[i].pts + FrameLength
         /\ FrameLength \in Nat /\ FrameLength > 0
         /\ \A i, j \in Video : i <= j <=> index[i].pts <= index[j].pts
<1>1. IndexTypeOK
  BY DEF IndexInv
<1>2. FrameLength \in Nat /\ FrameLength > 0
  BY ExportAssumption DEF ExportAssumption
<1>3. \A i \in Video :
        /\ i \in DOMAIN index /\ i \in Nat /\ Track(i) = VideoTrack
        /\ index[i].pts \in Nat /\ index[i].duration = FrameLength
  BY <1>1, IndexPlaces DEF Video, OfTrack, IndexInv, NominalFrames
<1>4. \A i \in Video : EndPts(index[i]) = index[i].pts + FrameLength
  BY <1>3 DEF EndPts
<1>5. ASSUME NEW i \in Video, NEW j \in Video
      PROVE  i <= j <=> index[i].pts <= index[j].pts
  <2>1. i < j => index[i].pts < index[j].pts
    BY DEF IndexInv, VideoInOrder, Video
  <2>2. j < i => index[j].pts < index[i].pts
    BY DEF IndexInv, VideoInOrder, Video
  <2>3. i = j => index[i].pts = index[j].pts
    OBVIOUS
  <2>4. i \in Nat /\ j \in Nat /\ index[i].pts \in Nat /\ index[j].pts \in Nat
    BY <1>3
  <2> QED  BY ONLY <2>1, <2>2, <2>3, <2>4
<1> QED  BY <1>2, <1>3, <1>4, <1>5

LEMMA EndOfRecording ==
  ASSUME IndexInv, RecordingEnd > 0
  PROVE  /\ Video # {} /\ RecordingEnd \in Nat
         /\ \A i \in Video : index[i].pts < RecordingEnd
<1> DEFINE last == Max(Video)
           ends == {0} \cup {EndPts(index[i]) : i \in Video}
<1>1. RecordingEnd = Max(ends)
  BY DEF RecordingEnd, Video
<1>2. CASE Video = {}
  <2>1. ends = {0}
    BY <1>2
  <2>2. Max(ends) \in ends
    BY <2>1, GreatestOf
  <2> QED  BY <1>1, <2>1, <2>2
<1>3. CASE Video # {}
  <2>1. Len(index) \in Nat /\ \A i \in Video : i <= Len(index)
    BY IndexPlaces DEF IndexInv, Video
  <2>2. last \in Video /\ \A i \in Video : i <= last
    BY <1>3, <2>1, VideoFacts, GreatestOf
  <2>3. \A i \in Video : index[i].pts <= index[last].pts
    BY <2>2, VideoFacts
  <2>4. \A i \in Video : EndPts(index[i]) \in Nat /\ EndPts(index[i]) <= EndPts(index[last])
    BY <2>2, <2>3, VideoFacts
  <2>5. \A e \in ends : e \in Nat /\ e <= EndPts(index[last])
    BY <2>2, <2>4
  <2>6. ends # {}
    OBVIOUS
  <2> HIDE DEF ends, last
  <2>7. Max(ends) \in ends /\ \A e \in ends : e <= Max(ends)
    BY <2>2, <2>4, <2>5, <2>6, GreatestOf
  <2>8. ASSUME NEW i \in Video PROVE index[i].pts < RecordingEnd
    <3>1. EndPts(index[i]) \in ends
      BY DEF ends
    <3>2. EndPts(index[i]) <= RecordingEnd /\ RecordingEnd \in Nat
      BY <1>1, <2>5, <2>7, <3>1
    <3> QED  BY <3>2, VideoFacts
  <2> QED  BY <1>1, <1>3, <2>5, <2>7, <2>8
<1> QED  BY <1>2, <1>3

(* The range of an export begins with a key frame, and from there on has   *)
(* all of the video.                                                       *)
LEMMA RangeStarts ==
  ASSUME IndexInv, RecordingEnd > 0, NEW from \in Nat, from < RecordingEnd
  PROVE  /\ ActualStart(from) \in Nat /\ ActualStart(from) <= from
         /\ FirstOf(from) \in Video /\ index[FirstOf(from)].key
         /\ \A i \in Video : index[i].pts >= ActualStart(from) <=> i >= FirstOf(from)
<1> DEFINE keys == KeysBefore(from)
           first == FirstOf(from)
<1>1. /\ Video # {} /\ Video \subseteq Nat
      /\ Len(index) \in Nat /\ \A i \in Video : i <= Len(index)
  BY VideoFacts, EndOfRecording, IndexPlaces DEF IndexInv, Video
<1>2. CASE keys = {}
  <2>1. first = Min(Video) /\ ActualStart(from) = from
    BY <1>2 DEF FirstOf, ActualStart, KeysBefore, Video
  <2>2. first \in Video /\ \A i \in Video : first <= i
    BY <1>1, <2>1, LeastOf
  <2>3. index[first].key
    BY <2>2 DEF IndexInv, FirstIsKey, Video
  <2>4. ~(index[first].pts <= from)
    BY <1>2, <2>2, <2>3 DEF KeysBefore
  <2>5. ASSUME NEW i \in Video PROVE index[i].pts >= from /\ i >= first
    <3>1. index[first].pts <= index[i].pts /\ first <= i
      BY <2>2, VideoFacts
    <3>2. index[first].pts \in Nat /\ index[i].pts \in Nat
      BY <2>2, VideoFacts
    <3> QED  BY <2>4, <3>1, <3>2
  <2> QED  BY <2>1, <2>2, <2>3, <2>5
<1>3. CASE keys # {}
  <2>1. first = Max(keys) /\ ActualStart(from) = index[first].pts
    BY <1>3 DEF FirstOf, ActualStart, KeysBefore, Video
  <2>2. keys \subseteq Video
    BY DEF KeysBefore
  <2>3. first \in keys
    BY <1>1, <1>3, <2>1, <2>2, GreatestOf
  <2>4. first \in Video /\ index[first].key /\ index[first].pts <= from
    BY <2>3 DEF KeysBefore
  <2>5. \A i \in Video : index[first].pts <= index[i].pts <=> first <= i
    BY <2>4, VideoFacts
  <2>6. index[first].pts \in Nat
    BY <2>4, VideoFacts
  <2> QED  BY <2>1, <2>4, <2>5, <2>6
<1> QED  BY <1>2, <1>3

(* A frame after the key frame begins before the recording ends and lasts  *)
(* beyond the start, so it overlaps; one before it is left out even if it  *)
(* nominally lasts into the range. Audio is in by overlap alone.           *)
LEMMA RangeHasAll ==
  ASSUME IndexInv, RecordingEnd > 0, NEW from \in Nat, from < RecordingEnd
  PROVE  LET range == QueryPacketRange(from, RecordingEnd)
         IN /\ range.start = ActualStart(from) /\ range.end = RecordingEnd
            /\ range.packets \subseteq DOMAIN index
            /\ \A i \in Video : i \in range.packets <=> i >= FirstOf(from)
            /\ \A i \in DOMAIN index \ Video :
                 i \in range.packets <=> Overlap(index[i], range.start, range.end)
<1> DEFINE range == QueryPacketRange(from, RecordingEnd)
           start == ActualStart(from)
<1>1. /\ range.start = start /\ range.end = RecordingEnd
      /\ range.packets = {i \in DOMAIN index : /\ ~(Track(i) = VideoTrack /\ index[i].pts < start)
                                               /\ Overlap(index[i], start, RecordingEnd)}
  BY DEF QueryPacketRange
<1>2. start \in Nat
  BY RangeStarts
<1> HIDE DEF range, start
<1>3. ASSUME NEW i \in Video PROVE i \in range.packets <=> i >= FirstOf(from)
  <2>1. /\ i \in DOMAIN index /\ Track(i) = VideoTrack /\ index[i].pts \in Nat
        /\ EndPts(index[i]) = index[i].pts + FrameLength
        /\ FrameLength \in Nat /\ FrameLength > 0
    BY VideoFacts
  <2>2. index[i].pts < RecordingEnd /\ RecordingEnd \in Nat
    BY EndOfRecording
  <2>3. index[i].pts >= start <=> i >= FirstOf(from)
    BY RangeStarts DEF start
  <2>4. i \in range.packets <=> /\ ~(index[i].pts < start)
                               /\ index[i].pts < RecordingEnd /\ index[i].pts + FrameLength > start
    BY <1>1, <2>1 DEF Overlap
  <2>5. i \in range.packets <=> index[i].pts >= start
    BY <1>2, <2>1, <2>2, <2>4
  <2> QED  BY <2>3, <2>5
<1>4. ASSUME NEW i \in DOMAIN index \ Video
      PROVE  i \in range.packets <=> Overlap(index[i], start, RecordingEnd)
  BY <1>1 DEF Video, OfTrack
<1> QED  BY <1>1, <1>3, <1>4 DEF range, start

-----------------------------------------------------------------------------
(* What is planned for such a range.                                       *)

RangeFrom(places, start, first) ==
  /\ start \in Nat /\ first \in Video /\ index[first].key
  /\ places \subseteq DOMAIN index
  /\ \A i \in Video : /\ i \in places <=> i >= first
                      /\ index[i].pts >= start <=> i >= first

(* A packet's time is its own less the start of the range.                 *)
LEMMA TimesOfPlan ==
  ASSUME IndexTypeOK, NEW packets, NEW places, NEW start \in Nat,
         places \subseteq DOMAIN index, IsPlan(packets, places, start)
  PROVE  \A k \in DOMAIN packets :
           /\ k \in Nat /\ packets[k].packet \in places /\ packets[k].packet \in DOMAIN index
           /\ packets[k].packet \in Nat
           /\ index[packets[k].packet].pts \in Nat
           /\ packets[k].time \in Nat
           /\ index[packets[k].packet].pts >= start
              => packets[k].time = index[packets[k].packet].pts - start
<1> SUFFICES ASSUME NEW k \in DOMAIN packets
             PROVE  /\ k \in Nat /\ packets[k].packet \in places
                    /\ packets[k].packet \in DOMAIN index
                    /\ packets[k].packet \in Nat
                    /\ index[packets[k].packet].pts \in Nat
                    /\ packets[k].time \in Nat
                    /\ index[packets[k].packet].pts >= start
                       => packets[k].time = index[packets[k].packet].pts - start
  OBVIOUS
<1> DEFINE i == packets[k].packet
<1>1. k \in Nat /\ i \in places
  BY DEF IsPlan
<1>2. packets[k].time = NormalizeTimestamp(index[i].pts, start)
  BY DEF IsPlan
<1>3. i \in DOMAIN index /\ i \in Nat /\ index[i].pts \in Nat
  BY <1>1, IndexPlaces
<1> HIDE DEF i
<1>4. packets[k].time = IF 0 >= index[i].pts - start THEN 0 ELSE index[i].pts - start
  BY <1>2 DEF NormalizeTimestamp, Later
<1>5. packets[k].time \in Nat /\ (index[i].pts >= start => packets[k].time = index[i].pts - start)
  BY <1>3, <1>4
<1> QED  BY <1>1, <1>3, <1>5 DEF i

(* The video that is written is what is needed to decode, and comes in the *)
(* order of the file; the first of it is the key frame.                    *)
LEMMA VideoOfPlan ==
  ASSUME IndexInv, NEW packets, NEW places, NEW start, NEW first,
         RangeFrom(places, start, first), IsPlan(packets, places, start)
  PROVE  LET video == Written(packets, VideoTrack)
         IN /\ {packets[k].packet : k \in video} = {i \in Video : i >= first}
            /\ \A j, k \in video : j < k => packets[j].packet < packets[k].packet
            /\ StartsOnKey(packets)
<1> DEFINE video == Written(packets, VideoTrack)
<1>1. /\ start \in Nat /\ first \in Video /\ index[first].key /\ places \subseteq DOMAIN index
      /\ \A i \in Video : /\ i \in places <=> i >= first
                          /\ index[i].pts >= start <=> i >= first
  BY DEF RangeFrom
<1>2. \A k \in DOMAIN packets :
        /\ k \in Nat /\ packets[k].packet \in places /\ packets[k].packet \in DOMAIN index
        /\ index[packets[k].packet].pts >= start
           => packets[k].time = index[packets[k].packet].pts - start
  BY <1>1, TimesOfPlan DEF IndexInv
<1>3. \A k \in DOMAIN packets : k \in video <=> packets[k].packet \in Video
  BY <1>2 DEF Written, Video, OfTrack
<1>4. video \subseteq DOMAIN packets
  BY DEF Written
<1>5. {packets[k].packet : k \in video} = {i \in Video : i >= first}
  <2>1. ASSUME NEW k \in video PROVE packets[k].packet \in Video /\ packets[k].packet >= first
    BY <1>1, <1>2, <1>3, <1>4
  <2>2. ASSUME NEW i \in Video, i >= first PROVE \E k \in video : packets[k].packet = i
    BY <1>1, <1>3, <2>2 DEF IsPlan
  <2> QED  BY <2>1, <2>2
<1>6. ASSUME NEW j \in video, NEW k \in video, j < k
      PROVE  packets[j].packet < packets[k].packet
  <2> DEFINE a == packets[j].packet  b == packets[k].packet
  <2>1. a \in Video /\ b \in Video /\ a >= first /\ b >= first
    BY <1>5
  <2>2. packets[j].time = index[a].pts - start /\ packets[k].time = index[b].pts - start
    BY <1>1, <1>2, <1>4, <2>1
  <2>3. /\ Track(a) = VideoTrack /\ Track(b) = VideoTrack
        /\ index[a].pts \in Nat /\ index[b].pts \in Nat /\ a \in Nat /\ b \in Nat
    BY <2>1, VideoFacts
  <2>4. Before(packets[j], packets[k])
    BY <1>4, <1>6 DEF IsPlan
  <2>5. \/ packets[j].time < packets[k].time
        \/ packets[j].time = packets[k].time /\ a < b
    BY <2>3, <2>4 DEF Before, VideoTrack
  <2>6. index[b].pts <= index[a].pts <=> b <= a
    BY <2>1, VideoFacts
  <2>7. start \in Nat
    BY <1>1
  <2> QED  BY ONLY <2>2, <2>3, <2>5, <2>6, <2>7
<1>7. StartsOnKey(packets)
  <2>1. first \in Nat
    BY <1>1, VideoFacts
  <2>2. PICK k \in video : packets[k].packet = first
    BY <1>1, <1>5, <2>1
  <2>3. video \subseteq Nat /\ video # {}
    BY <1>2, <1>4, <2>2
  <2>4. Min(video) \in video /\ Min(video) <= k
    BY <2>2, <2>3, LeastOf
  <2>5. Min(video) = k
    <3>1. SUFFICES ASSUME Min(video) < k PROVE FALSE
      BY <2>3, <2>4
    <3>2. packets[Min(video)].packet < first
      BY <1>6, <2>2, <2>4, <3>1
    <3>3. packets[Min(video)].packet >= first /\ packets[Min(video)].packet \in Nat
      BY <1>5, <2>4, VideoFacts
    <3> QED  BY <2>1, <3>2, <3>3
  <2>6. FindFirstVideoPacket(packets) = {first}
    BY <2>2, <2>3, <2>5 DEF FindFirstVideoPacket
  <2> QED  BY <1>1, <2>6 DEF StartsOnKey
<1> QED  BY <1>5, <1>6, <1>7

(* What the muxer asks of a plan of these packets and tracks.              *)
Complete(plan) ==
  \E places, start, first :
    /\ RangeFrom(places, start, first) /\ IsPlan(plan.packets, places, start)
    /\ plan.start = start /\ plan.end \in Nat /\ start < plan.end
    /\ LET tracks == {Track(i) : i \in places}
       IN /\ AudioTracks \subseteq tracks
          /\ plan.tracks = InOrder(tracks, Less)
          /\ plan.audio = InOrder(tracks \cap AudioTracks, Less)

(* Video is in the range because of its first packet, and so are all the   *)
(* audio tracks: the tracks of the plan are those of the manifest.         *)
LEMMA TracksOfPlan ==
  ASSUME IndexInv, NEW packets, NEW places, NEW start, NEW first,
         RangeFrom(places, start, first), IsPlan(packets, places, start),
         AudioTracks \subseteq {Track(i) : i \in places}
  PROVE  LET tracks == {Track(i) : i \in places}
         IN /\ tracks = {VideoTrack} \cup AudioTracks
            /\ tracks \cap AudioTracks = AudioTracks
            /\ tracks \subseteq Nat \ {0} /\ VideoTrack \notin AudioTracks
            /\ IsFiniteSet(tracks) /\ IsFiniteSet(AudioTracks)
            /\ {Track(packets[k].packet) : k \in DOMAIN packets} = tracks
<1> DEFINE tracks == {Track(i) : i \in places}
<1>1. IndexTypeOK /\ places \subseteq DOMAIN index /\ first \in places
  <2>1. first \in Video /\ first \in Nat
    BY VideoFacts DEF RangeFrom
  <2> QED  BY <2>1 DEF RangeFrom, IndexInv
<1>2. AudioTracks \subseteq Nat \ {0, VideoTrack} /\ VideoTrack \in Nat \ {0}
  BY ExportAssumption DEF ExportAssumption, VideoTrack
<1>3. Track(first) = VideoTrack
  BY VideoFacts DEF RangeFrom
<1>4. tracks = {VideoTrack} \cup AudioTracks
  <2>1. \A i \in places : Track(i) \in {VideoTrack} \cup AudioTracks
    BY <1>1 DEF IndexTypeOK
  <2> QED  BY <1>1, <1>3, <2>1
<1>5. IsFiniteSet(places)
  <2>1. IsFiniteSet(1..Len(index)) /\ DOMAIN index = 1..Len(index)
    BY <1>1, IndexPlaces, FS_Interval
  <2> QED  BY <1>1, <2>1, FS_Subset
<1>6. IsFiniteSet(tracks)
  <2> DEFINE f == [i \in places |-> Track(i)]
  <2>1. f \in Surjection(places, tracks)
    BY DEF Surjection
  <2> QED  BY <1>5, <2>1, FS_Surjection
<1>7. IsFiniteSet(AudioTracks)
  BY <1>4, <1>6, FS_Subset
<1>8. {Track(packets[k].packet) : k \in DOMAIN packets} = tracks
  <2>1. \A k \in DOMAIN packets : packets[k].packet \in places
    BY DEF IsPlan
  <2>2. \A i \in places : \E k \in DOMAIN packets : packets[k].packet = i
    BY DEF IsPlan
  <2> QED  BY <2>1, <2>2
<1> QED  BY <1>2, <1>4, <1>6, <1>7, <1>8

(* Sorted by time, the packets of a track do not go back.                  *)
LEMMA WriterTakesAll ==
  ASSUME IndexInv, NEW packets, NEW places, NEW start, NEW first, NEW t,
         RangeFrom(places, start, first), IsPlan(packets, places, start)
  PROVE  WriterAccepts(packets, t)
<1>1. IndexTypeOK /\ start \in Nat /\ places \subseteq DOMAIN index
  BY DEF RangeFrom, IndexInv
<1>2. Written(packets, t) \subseteq DOMAIN packets
  BY DEF Written
<1>3. ASSUME NEW k \in DOMAIN packets
      PROVE  packets[k].time \in Nat /\ index[packets[k].packet].duration > 0
  BY <1>1, TimesOfPlan, IndexPlaces
<1>4. ASSUME NEW j \in DOMAIN packets, NEW k \in DOMAIN packets, j < k
      PROVE  packets[j].time <= packets[k].time
  <2>1. packets[j].time \in Nat /\ packets[k].time \in Nat
    BY <1>3
  <2>2. Before(packets[j], packets[k])
    BY <1>4 DEF IsPlan
  <2>3. packets[j].time < packets[k].time \/ packets[j].time = packets[k].time
    BY <2>2 DEF Before
  <2> QED  BY <2>1, <2>3
<1>5. \A k \in DOMAIN packets : packets[k].time >= 0
  BY <1>3
<1> QED  BY <1>2, <1>3, <1>4, <1>5 DEF WriterAccepts

(* What ValidateRequest, the writer and the streams look up separately,    *)
(* the tracks of the plan and of its packets, are the same sets.           *)
LEMMA MuxerAccepts ==
  ASSUME IndexInv, NEW plan, Complete(plan)
  PROVE  Mp4Accepts(plan)
<1> DEFINE request == BuildVideoMp4MuxRequest(plan)
           streams == ConfigureFfmpegStreams(request)
           T == plan.tracks
           A == plan.audio
           tracks == {VideoTrack} \cup AudioTracks
<1>1. PICK places, start, first :
        /\ RangeFrom(places, start, first) /\ IsPlan(plan.packets, places, start)
        /\ plan.start = start /\ plan.end \in Nat /\ start < plan.end
        /\ AudioTracks \subseteq {Track(i) : i \in places}
        /\ T = InOrder({Track(i) : i \in places}, Less)
        /\ A = InOrder({Track(i) : i \in places} \cap AudioTracks, Less)
  BY DEF Complete
<1>2. /\ {Track(i) : i \in places} = tracks
      /\ {Track(i) : i \in places} \cap AudioTracks = AudioTracks
      /\ tracks \subseteq Nat \ {0} /\ VideoTrack \notin AudioTracks
      /\ IsFiniteSet(tracks) /\ IsFiniteSet(AudioTracks)
      /\ {Track(plan.packets[k].packet) : k \in DOMAIN plan.packets} = tracks
  BY <1>1, TracksOfPlan
<1>3. T = InOrder(tracks, Less) /\ A = InOrder(AudioTracks, Less)
  BY <1>1, <1>2
<1> HIDE DEF T, A
<1>4. T \in [1..Cardinality(tracks) -> tracks] /\ ToSet(T) = tracks /\ IsInjective(T)
  BY <1>2, <1>3, TracksInOrder
<1>5. /\ Cardinality(AudioTracks) \in Nat /\ A \in [1..Cardinality(AudioTracks) -> AudioTracks]
      /\ ToSet(A) = AudioTracks /\ IsInjective(A)
  BY <1>2, <1>3, TracksInOrder
<1>6. \A t : (CodecOf(t) = "H264" <=> t = VideoTrack) /\ (CodecOf(t) = "Aac" <=> t # VideoTrack)
  BY DEF CodecOf
<1>7. request.video = VideoTrack /\ request.audio = A /\ request.plan = plan
  BY DEF BuildVideoMp4MuxRequest, A
<1>8. T # <<>> /\ plan.packets # <<>>
  <2>1. tracks # {}
    OBVIOUS
  <2>2. DOMAIN T # {}
    BY <1>4, <2>1 DEF ToSet
  <2>3. DOMAIN plan.packets # {}
    BY <1>2, <2>1
  <2> QED  BY <2>2, <2>3
<1>9. FindSingleVideoTrack(plan) = {VideoTrack}
  <2> DEFINE own == {k \in DOMAIN T : CodecOf(T[k]) = "H264"}
  <2>1. PICK k \in DOMAIN T : T[k] = VideoTrack
    BY <1>4 DEF ToSet
  <2>2. own = {k}
    BY <1>4, <1>6, <2>1 DEF IsInjective
  <2>3. {T[j] : j \in own} = {VideoTrack}
    BY <2>1, <2>2
  <2> HIDE DEF own
  <2>4. FindSingleVideoTrack(plan) = IF \E j \in own : own = {j} THEN {T[j] : j \in own} ELSE {}
    BY DEF FindSingleVideoTrack, own, T
  <2> QED  BY <2>2, <2>3, <2>4
<1>10. ValidateRequest(request)
  <2>1. plan.end > plan.start
    BY <1>1 DEF RangeFrom
  <2>2. StartsOnKey(plan.packets)
    BY <1>1, VideoOfPlan
  <2>3. ToSet(A) = {t \in ToSet(T) : CodecOf(t) = "Aac"}
    BY <1>2, <1>4, <1>5, <1>6
  <2>4. 0 \notin ToSet(T) /\ request.video \notin ToSet(A)
    BY <1>2, <1>4, <1>5, <1>7
  <2> HIDE DEF request
  <2> QED  BY <1>2, <1>4, <1>5, <1>7, <1>8, <1>9, <2>1, <2>2, <2>3, <2>4 DEF ValidateRequest, T
<1>11. \A k \in DOMAIN streams : WriterAccepts(plan.packets, streams[k].track)
  BY <1>1, WriterTakesAll
<1>12. \A t \in tracks : [track |-> t, codec |-> CodecOf(t)] \in ToSet(streams)
  <2> DEFINE m == Cardinality(AudioTracks)
             audio == [i \in DOMAIN A |-> [track |-> A[i], codec |-> "Aac"]]
             h == [track |-> VideoTrack, codec |-> "H264"]
             S == {h} \cup {[track |-> t, codec |-> "Aac"] : t \in AudioTracks}
  <2>1. A \in Seq(tracks) /\ Len(A) = m
    BY <1>5
  <2>2. IsInjective(<<VideoTrack>> \o A)
    <3> DEFINE s == <<VideoTrack>> \o A
    <3>1. DOMAIN s = 1..(m + 1) /\ s[1] = VideoTrack /\ \A k \in 2..(m + 1) : s[k] = A[k - 1]
      BY <1>5, <2>1
    <3> HIDE DEF s
    <3>2. \A k \in 2..(m + 1) : k - 1 \in 1..m /\ s[k] \in AudioTracks
      BY <1>5, <3>1
    <3>3. \A k \in DOMAIN s : k = 1 \/ k \in 2..(m + 1)
      BY <1>5, <3>1
    <3>4. ASSUME NEW j \in DOMAIN s, NEW k \in DOMAIN s, s[j] = s[k] PROVE j = k
      <4>1. CASE j = 1 \/ k = 1
        BY <1>2, <3>1, <3>2, <3>3, <3>4, <4>1
      <4>2. CASE j \in 2..(m + 1) /\ k \in 2..(m + 1)
        <5>1. A[j - 1] = A[k - 1] /\ j - 1 \in DOMAIN A /\ k - 1 \in DOMAIN A
          BY <1>5, <3>1, <3>2, <3>4, <4>2
        <5>2. j - 1 = k - 1
          BY <1>5, <5>1 DEF IsInjective
        <5> QED  BY <1>5, <4>2, <5>2
      <4> QED  BY <3>3, <4>1, <4>2
    <3>5. IsInjective(s)
      BY <3>4 DEF IsInjective
    <3> QED  BY <3>5 DEF s
  <2>3. streams = <<h>> \o audio
    <3>1. streams = IF IsInjective(<<request.video>> \o request.audio)
                    THEN <<ConfigureFfmpegH264VideoStream(request)>>
                         \o [i \in DOMAIN request.audio |-> ConfigureFfmpegAacAudioStream(request.audio[i])]
                    ELSE <<>>
      BY DEF ConfigureFfmpegStreams
    <3>2. ConfigureFfmpegH264VideoStream(request) = h
      BY <1>7 DEF ConfigureFfmpegH264VideoStream
    <3>3. [i \in DOMAIN request.audio |-> ConfigureFfmpegAacAudioStream(request.audio[i])] = audio
      BY <1>7 DEF ConfigureFfmpegAacAudioStream
    <3> QED  BY <1>7, <2>2, <3>1, <3>2, <3>3
  <2>4. audio \in Seq(S) /\ Len(audio) = m /\ h \in S
    BY <1>5
  <2>5. \A i \in 1..m : audio[i] = [track |-> A[i], codec |-> "Aac"]
    BY <1>5
  <2> HIDE DEF h, S, audio
  <2>6. DOMAIN streams = 1..(m + 1) /\ streams[1] = h /\ \A i \in 1..m : streams[i + 1] = audio[i]
    BY <1>5, <2>3, <2>4
  <2> HIDE DEF streams
  <2>7. h \in ToSet(streams)
    BY <1>5, <2>6 DEF ToSet
  <2>8. ASSUME NEW t \in AudioTracks PROVE [track |-> t, codec |-> "Aac"] \in ToSet(streams)
    <3>1. PICK i \in 1..m : A[i] = t
      BY <1>5 DEF ToSet
    <3>2. i + 1 \in DOMAIN streams
      BY <1>5, <2>6
    <3> QED  BY <2>5, <2>6, <3>1, <3>2 DEF ToSet
  <2> QED  BY <1>2, <1>6, <2>7, <2>8 DEF CodecOf, h
<1>13. \A k \in DOMAIN plan.packets :
         [track |-> Track(plan.packets[k].packet),
          codec |-> CodecOf(Track(plan.packets[k].packet))] \in ToSet(streams)
  BY <1>2, <1>12
<1> HIDE DEF streams, request
<1> QED  BY <1>10, <1>11, <1>13 DEF Mp4Accepts, streams, request

(* Any export that ends with the recording is whole, or an audio track has *)
(* nothing in its range.                                                   *)
LEMMA ExportIsWhole ==
  ASSUME IndexInv, RecordingEnd > 0, NEW from \in Nat, from < RecordingEnd
  PROVE  Whole(BuildVideoExportPlan(from, RecordingEnd), from)
<1> DEFINE range == QueryPacketRange(from, RecordingEnd)
           tracks == TracksOf(range)
           packets == BuildMuxPlan(range)
           plan == BuildVideoExportPlan(from, RecordingEnd)
           first == FirstOf(from)
<1>1. /\ range.start \in Nat /\ range.start <= from /\ range.end = RecordingEnd
      /\ range.packets \subseteq DOMAIN index /\ first \in Video /\ index[first].key
      /\ \A i \in Video : /\ i \in range.packets <=> i >= first
                          /\ index[i].pts >= range.start <=> i >= first
      /\ \A i \in DOMAIN index \ Video :
           i \in range.packets <=> Overlap(index[i], range.start, range.end)
  <2>1. range.start = ActualStart(from)
    BY RangeHasAll
  <2>2. range.start \in Nat /\ range.start <= from
    BY <2>1, RangeStarts
  <2>3. first \in Video /\ index[first].key
    BY RangeStarts
  <2>4. \A i \in Video : index[i].pts >= range.start <=> i >= first
    BY <2>1, RangeStarts
  <2>5. /\ range.end = RecordingEnd /\ range.packets \subseteq DOMAIN index
        /\ \A i \in Video : i \in range.packets <=> i >= first
        /\ \A i \in DOMAIN index \ Video :
             i \in range.packets <=> Overlap(index[i], range.start, range.end)
    BY RangeHasAll
  <2> HIDE DEF range, first
  <2> QED  BY <2>2, <2>3, <2>4, <2>5
<1>2. RecordingEnd \in Nat
  BY EndOfRecording
<1> HIDE DEF range, first
<1>3. RangeFrom(range.packets, range.start, first)
  BY <1>1 DEF RangeFrom
<1>4. IsPlan(packets, range.packets, range.start)
  BY <1>1, PlanInOrder DEF IndexInv
<1>5. StartsOnKey(packets)
  BY <1>3, <1>4, VideoOfPlan
<1>6. VideoTrack \in tracks
  <2>1. Track(first) = VideoTrack /\ first \in Nat
    BY <1>1, VideoFacts
  <2>2. first \in range.packets
    BY <1>1, <2>1
  <2> QED  BY <2>1, <2>2 DEF TracksOf
<1>7. plan = IF ~(AudioTracks \subseteq tracks) THEN Failed("MissingAudioPackets")
             ELSE [status |-> "Success", start |-> range.start, end |-> range.end,
                   packets |-> packets, tracks |-> InOrder(tracks, Less),
                   audio |-> InOrder(tracks \cap AudioTracks, Less)]
  <2>1. ~(from < 0 \/ RecordingEnd <= from)
    BY <1>2
  <2> HIDE DEF packets, tracks
  <2>2. plan = IF from < 0 \/ RecordingEnd <= from THEN Failed("InvalidRequest")
               ELSE IF VideoTrack \notin tracks THEN Failed("NoPackets")
               ELSE IF ~(AudioTracks \subseteq tracks) THEN Failed("MissingAudioPackets")
               ELSE IF ~StartsOnKey(packets) THEN Failed("NoKeyframe")
               ELSE [status |-> "Success", start |-> range.start, end |-> range.end,
                     packets |-> packets, tracks |-> InOrder(tracks, Less),
                     audio |-> InOrder(tracks \cap AudioTracks, Less)]
    BY DEF BuildVideoExportPlan, range, packets, tracks
  <2> QED  BY <1>5, <1>6, <2>1, <2>2
<1>8. CASE ~(AudioTracks \subseteq tracks)
  <2>1. plan.status = "MissingAudioPackets"
    BY <1>7, <1>8 DEF Failed
  <2> HIDE DEF plan
  <2> QED  BY <2>1 DEF Whole, plan
<1>9. CASE AudioTracks \subseteq tracks
  <2> HIDE DEF packets
  <2>1. /\ plan.status = "Success" /\ plan.start = range.start /\ plan.end = RecordingEnd
        /\ plan.packets = packets /\ plan.tracks = InOrder(tracks, Less)
        /\ plan.audio = InOrder(tracks \cap AudioTracks, Less)
    BY <1>1, <1>7, <1>9
  <2> HIDE DEF plan
  <2>2. Complete(plan)
    <3>1. tracks = {Track(i) : i \in range.packets}
      BY DEF TracksOf
    <3>2. range.start < RecordingEnd
      BY <1>1, <1>2
    <3> HIDE DEF tracks
    <3> QED  BY <1>2, <1>3, <1>4, <1>9, <2>1, <3>1, <3>2 DEF Complete
  <2>3. Mp4Accepts(plan)
    BY <2>2, MuxerAccepts
  <2>4. Decodable(plan, from)
    <3>1. /\ {packets[k].packet : k \in Written(packets, VideoTrack)} = {i \in Video : i >= first}
          /\ \A j, k \in Written(packets, VideoTrack) :
               j < k => packets[j].packet < packets[k].packet
      BY <1>3, <1>4, VideoOfPlan
    <3> QED  BY <2>1, <3>1 DEF Decodable, first, FirstOf, KeysBefore, Video
  <2>5. InSync(plan)
    <3>1. \A k \in DOMAIN packets :
            index[packets[k].packet].pts >= range.start
            => packets[k].time = index[packets[k].packet].pts - range.start
      BY <1>1, <1>4, TimesOfPlan DEF IndexInv
    <3>2. \A k \in DOMAIN packets : index[packets[k].packet].pts \in Nat
      BY <1>1, <1>4, TimesOfPlan DEF IndexInv
    <3>3. ASSUME NEW j \in DOMAIN packets, NEW k \in DOMAIN packets,
                 index[packets[j].packet].pts >= range.start,
                 index[packets[k].packet].pts >= range.start
          PROVE  packets[j].time - packets[k].time
                 = index[packets[j].packet].pts - index[packets[k].packet].pts
      <4>1. packets[j].time = index[packets[j].packet].pts - range.start
        BY <3>1, <3>3
      <4>2. packets[k].time = index[packets[k].packet].pts - range.start
        BY <3>1, <3>3
      <4>3. /\ index[packets[j].packet].pts \in Nat /\ index[packets[k].packet].pts \in Nat
            /\ range.start \in Nat
        BY <1>1, <3>2
      <4> QED  BY ONLY <4>1, <4>2, <4>3
    <3> QED  BY <2>1, <3>3 DEF InSync
  <2>6. \A t \in AudioTracks : \A i \in OfTrack(t) :
          Overlap(index[i], plan.start, plan.end)
          => \E k \in DOMAIN plan.packets : plan.packets[k].packet = i
    <3>1. SUFFICES ASSUME NEW t \in AudioTracks, NEW i \in OfTrack(t),
                          Overlap(index[i], range.start, range.end)
                   PROVE  \E k \in DOMAIN packets : packets[k].packet = i
      BY <1>1, <2>1
    <3>2. t # VideoTrack
      BY ExportAssumption DEF ExportAssumption
    <3>3. i \in DOMAIN index \ Video
      BY <3>2 DEF OfTrack, Video
    <3>4. i \in range.packets
      BY <1>1, <3>1, <3>3
    <3> QED  BY <1>4, <3>4 DEF IsPlan
  <2>7. Whole(plan, from)
    BY <2>1, <2>3, <2>4, <2>5, <2>6 DEF Whole
  <2> QED  BY <2>7 DEF plan
<1> QED  BY <1>8, <1>9

(* A clip, a bookmark and the whole are such exports, and the range of a   *)
(* bookmark is that of its clip.                                           *)
LEMMA IndexSafety == IndexInv => ExportsAreWhole
<1> SUFFICES ASSUME IndexInv, RecordingEnd > 0
             PROVE  /\ Whole(RecordingPlan, 0)
                    /\ \A d \in Durations : Whole(BuildActiveRecordingBookmarkPlan(d), ClipStart(d))
  BY DEF ExportsAreWhole
<1>1. RecordingEnd \in Nat
  BY EndOfRecording
<1>2. Whole(RecordingPlan, 0)
  BY ExportIsWhole DEF RecordingPlan
<1>3. ASSUME NEW d \in Durations
      PROVE  Whole(BuildActiveRecordingBookmarkPlan(d), ClipStart(d))
  <2> DEFINE clip == BuildVideoExportPlan(ClipStart(d), RecordingEnd)
  <2>1. d \in Nat /\ d > 0 /\ d <= RecordingEnd
    BY <1>1 DEF Durations
  <2>2. /\ ClipStart(d) \in Nat /\ ClipStart(d) < RecordingEnd
        /\ Later(0, RecordingEnd - d) = ClipStart(d)
    BY <1>1, <2>1 DEF ClipStart, Later
  <2>3. Whole(clip, ClipStart(d))
    BY <2>2, ExportIsWhole
  <2>4. BuildActiveRecordingClipPlan(d) = clip
    BY <1>1 DEF BuildActiveRecordingClipPlan
  <2> HIDE DEF clip
  <2>5. BuildActiveRecordingBookmarkPlan(d) = clip
    BY <2>2, <2>4 DEF BuildActiveRecordingBookmarkPlan, ResolveBookmarkExportRange
  <2> QED  BY <2>3, <2>5
<1> QED  BY <1>2, <1>3

(* Whenever there is video, a clip or bookmark of any length and the whole *)
(* recording start at the right key frame, miss no packet, keep audio and  *)
(* video together and are taken by the muxer, or an audio track has        *)
(* nothing in the range: QueryPacketRange, BuildVideoExportPlan,           *)
(* BuildMuxPlan and Mp4Muxer's checks, for any lengths of packets, any     *)
(* jitter of frames and any tracks.                                        *)
THEOREM ExportsMissNothing == ExportSpec => []ExportsAreWhole
<1>1. IndexInv /\ [ExportNext]_index => IndexInv'
  BY IndexStays
<1> QED  BY IndexStarts, <1>1, IndexSafety, PTL DEF ExportSpec
=============================================================================
