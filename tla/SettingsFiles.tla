---------------------------- MODULE SettingsFiles ----------------------------
(***************************************************************************)
(* The settings file from start to start of the application: the runtime   *)
(* root and its move from the folder of the former product                 *)
(* (RuntimePathMigration), the start-up of AppHost as far as it reads and  *)
(* rewrites settings, SettingsStore's load and atomic replacement, and the *)
(* one thing a recording does to the roots: it makes its output directory. *)
(*                                                                         *)
(* Processes start, end and crash at any step; they are kept apart by the  *)
(* single-instance check, which comes after the migration and the log.  A  *)
(* directory with an open file in it, here the log, cannot be renamed.     *)
(* The settings are one value with the directory of the recordings and the *)
(* one field only version 3 has; a crash is one of the process, not of the *)
(* machine.  A temporary is named after its process: what a crash leaves   *)
(* of it nobody reads, and who gets that name again truncates it.          *)
(***************************************************************************)
EXTENDS Integers, FiniteSets

CONSTANTS
  Apps,         \* processes of the application
  MaxStarts     \* bound: starts

ASSUME SettingsAssumption == MaxStarts \in Nat

Roots == {"canonical", "legacy"}
kSettingsFileVersion == 3

VARIABLES
  roots,        \* each root: does it exist, its settings.json
  app,          \* each process: where it is, root, migration, settings, candidate, temporary,
                \* output directories of its recorder and of its recovery of recordings
  holder,       \* processes with the single-instance mutexes
  starts,
  good,         \* kept beside: the last settings saved in a file, or there at first
  disturbed,    \* kept beside: an inspection failed or two starts overlapped
  strayed       \* kept beside: roots that an output directory has brought into being

filesVars == <<roots, app, holder, starts, good, disturbed, strayed>>

NoFile == [version |-> 0]
Torn == [version |-> -1]
Defaults(root) == [value |-> 0, output |-> root, mode |-> "balanced"]
Idle == [pc |-> "idle", root |-> "canonical", seen |-> FALSE, status |-> "none",
         loaded |-> FALSE, settings |-> Defaults("canonical"), candidate |-> Defaults("canonical"),
         temporary |-> NoFile, recorder |-> "none", recovery |-> "none"]

NoRoot == [exists |-> FALSE, file |-> NoFile]
NewRoot == [NoRoot EXCEPT !.exists = TRUE]

SerializeSettings(s) ==
  [version |-> kSettingsFileVersion, value |-> s.value, output |-> s.output, mode |-> s.mode]
ParseCurrentSettings(f) ==
  [value |-> f.value, output |-> f.output,
   mode |-> IF f.version >= 3 THEN f.mode ELSE "balanced"]

\* Where recordings go: under a root, as by default, or where the user says.
OutputDirectories == Roots \cup {"custom"}

\* Of the former product or of an earlier run.
FirstFiles ==
  {NoFile} \cup [version : {2, 3, 4}, value : {1}, output : OutputDirectories, mode : {"capture_first"}]
Supported(f) == f.version \in 1..kSettingsFileVersion

FilesInit ==
  /\ \E r \in Roots : \E f \in FirstFiles :
       /\ roots = [q \in Roots |-> IF q = r THEN [NewRoot EXCEPT !.file = f] ELSE NoRoot]
       /\ good = (IF Supported(f) THEN ParseCurrentSettings(f) ELSE Defaults("none"))
  /\ app = [a \in Apps |-> Idle]
  /\ holder = {} /\ starts = 0 /\ disturbed = FALSE /\ strayed = {}

At(a, pc) == app[a].pc = pc
Set(a, new) == app' = [app EXCEPT ![a] = new]
Goto(a, pc) == Set(a, [app[a] EXCEPT !.pc = pc])

-----------------------------------------------------------------------------
(* ResolveRuntimePathsWithLegacyMigration.                                 *)

\* Until its log is open, a process has no hold on its root.
Resolving == {"canonical", "legacy", "rename", "ensure", "log"}

StartApp(a) ==
  /\ At(a, "idle") /\ starts < MaxStarts
  /\ starts' = starts + 1
  /\ Set(a, [Idle EXCEPT !.pc = "canonical"])
  /\ disturbed' = (disturbed \/ \E b \in Apps \ {a} : app[b].pc \in Resolving)
  /\ UNCHANGED <<roots, holder, good, strayed>>

InspectionFails(a) ==
  /\ app[a].pc \in {"canonical", "legacy"}
  /\ Set(a, [app[a] EXCEPT !.pc = "ensure", !.status = "InspectionFailed"])
  /\ disturbed' = TRUE
  /\ UNCHANGED <<roots, holder, starts, good, strayed>>

InspectCanonical(a) ==
  /\ At(a, "canonical")
  /\ Set(a, [app[a] EXCEPT !.pc = "legacy", !.seen = roots["canonical"].exists])
  /\ UNCHANGED <<roots, holder, starts, good, disturbed, strayed>>

InspectLegacy(a) ==
  /\ At(a, "legacy")
  /\ Set(a, CASE app[a].seen /\ roots["legacy"].exists ->
                   [app[a] EXCEPT !.pc = "ensure", !.status = "RootsConflict"]
              [] ~app[a].seen /\ roots["legacy"].exists -> [app[a] EXCEPT !.pc = "rename"]
              [] OTHER -> [app[a] EXCEPT !.pc = "ensure", !.status = "Ready"])
  /\ UNCHANGED <<roots, holder, starts, good, disturbed, strayed>>

LogOpenIn(r) == \E b \in Apps : app[b].root = r /\ app[b].pc \notin {"idle"} \cup Resolving

\* Mutant: if the root cannot be moved, the run uses the current one.
MoveOrStartAfresh(a) ==
  /\ At(a, "rename")
  /\ \/ /\ roots["legacy"].exists /\ ~roots["canonical"].exists /\ ~LogOpenIn("legacy")
        /\ roots' = [canonical |-> roots["legacy"], legacy |-> NoRoot]
        /\ Set(a, [app[a] EXCEPT !.pc = "ensure", !.status = "Migrated"])
     \/ /\ Set(a, [app[a] EXCEPT !.pc = "ensure", !.status = "LegacyFallback"])
        /\ UNCHANGED roots
  /\ UNCHANGED <<holder, starts, good, disturbed, strayed>>

MoveLegacyRoot(a) ==
  /\ At(a, "rename")
  /\ \/ /\ roots["legacy"].exists /\ ~roots["canonical"].exists /\ ~LogOpenIn("legacy")
        /\ roots' = [canonical |-> roots["legacy"], legacy |-> NoRoot]
        /\ Set(a, [app[a] EXCEPT !.pc = "ensure", !.status = "Migrated"])
     \/ /\ Set(a, [app[a] EXCEPT !.pc = "ensure", !.status = "LegacyFallback", !.root = "legacy"])
        /\ UNCHANGED roots
  /\ UNCHANGED <<holder, starts, good, disturbed, strayed>>

-----------------------------------------------------------------------------
(* AppHost::Initialize.                                                    *)

CreateRoot(r) == roots' = [roots EXCEPT ![r] = IF @.exists THEN @ ELSE NewRoot]

EnsureCreated(a) ==
  /\ At(a, "ensure") /\ CreateRoot(app[a].root) /\ Goto(a, "log")
  /\ UNCHANGED <<holder, starts, good, disturbed, strayed>>

OpenLog(a) ==
  /\ At(a, "log") /\ CreateRoot(app[a].root) /\ Goto(a, "instance")
  /\ UNCHANGED <<holder, starts, good, disturbed, strayed>>

AcquireInstance(a) ==
  /\ At(a, "instance") /\ holder = {}
  /\ holder' = {a} /\ Goto(a, "load")
  /\ UNCHANGED <<roots, starts, good, disturbed, strayed>>

RebasePathFromLegacyRoot(output) == IF output = "legacy" THEN "canonical" ELSE output

\* The file is missing, unreadable, not supported or not valid: defaults;
\* one that is loaded after a migration is rebased, and saved if that
\* changed it.
LoadSettingsFile(a) ==
  LET me == app[a]
      file == roots[me.root].file
      parsed == ParseCurrentSettings(file)
      rebased == [parsed EXCEPT !.output = RebasePathFromLegacyRoot(@)]
  IN /\ At(a, "load")
     /\ \/ Set(a, [me EXCEPT !.pc = "running", !.settings = Defaults(me.root)])
        \/ /\ Supported(file)
           /\ IF me.status = "Migrated" /\ rebased # parsed
              THEN Set(a, [me EXCEPT !.pc = "save", !.loaded = TRUE, !.settings = rebased,
                                     !.candidate = rebased])
              ELSE Set(a, [me EXCEPT !.pc = "running", !.loaded = TRUE, !.settings = parsed])
     /\ UNCHANGED <<roots, holder, starts, good, disturbed, strayed>>

\* A recorder has the output directory of the settings it is made with: at the
\* start, together with the recovery, and again when settings are applied, once
\* no recording runs.
CreateVideoRecorder(a) ==
  LET me == app[a]
  IN /\ At(a, "running") /\ me.recorder # me.settings.output
     /\ Set(a, [me EXCEPT !.recorder = me.settings.output,
                          !.recovery = IF @ = "none" THEN me.settings.output ELSE @])
     /\ UNCHANGED <<roots, holder, starts, good, disturbed, strayed>>

\* A recording, or the recovery of one, creates the directory it writes to, and
\* the root that lies in with it: in a thread of its own.
CreateOutputDirectory(a) ==
  /\ \E r \in Roots \cap {app[a].recorder, app[a].recovery} :
       ~roots[r].exists /\ CreateRoot(r) /\ strayed' = strayed \cup {r}
  /\ UNCHANGED <<app, holder, starts, good, disturbed>>

\* A step fails: the process ends; or it is ended, or crashes.
AppEnds(a) ==
  /\ ~At(a, "idle")
  /\ Set(a, Idle) /\ holder' = holder \ {a}
  /\ UNCHANGED <<roots, starts, good, disturbed, strayed>>

-----------------------------------------------------------------------------
(* ApplySettings as far as the file is concerned, and                      *)
(* SaveSettingsFileAtomic.                                                 *)

ApplySettings(a) ==
  /\ At(a, "running") /\ app[a].recorder # "none"
  /\ \E output \in OutputDirectories :
       Set(a, [app[a] EXCEPT !.pc = "save",
                 !.candidate = [value |-> 2, output |-> output, mode |-> "balanced"]])
  /\ UNCHANGED <<roots, holder, starts, good, disturbed, strayed>>

Saving(a, pc, temporary) == Set(a, [app[a] EXCEPT !.pc = pc, !.temporary = temporary])

SaveOpensTemporary(a) ==
  /\ At(a, "save") /\ Saving(a, "write", Torn)
  /\ UNCHANGED <<roots, holder, starts, good, disturbed, strayed>>

SaveWrites(a) ==
  /\ At(a, "write") /\ Saving(a, "replace", SerializeSettings(app[a].candidate))
  /\ UNCHANGED <<roots, holder, starts, good, disturbed, strayed>>

SaveReplaces(a) ==
  LET me == app[a]
  IN /\ At(a, "replace")
     /\ roots' = [roots EXCEPT ![me.root].file = me.temporary]
     /\ Set(a, [me EXCEPT !.pc = "running", !.settings = me.candidate, !.loaded = TRUE,
                          !.temporary = NoFile])
     /\ good' = me.candidate
     /\ UNCHANGED <<holder, starts, disturbed, strayed>>

\* Refused by Validate, or a step fails: the settings stay as they were.
SaveFails(a) ==
  /\ app[a].pc \in {"save", "write", "replace"}
  /\ Saving(a, "running", NoFile)
  /\ UNCHANGED <<roots, holder, starts, good, disturbed, strayed>>

FilesNext ==
  \E a \in Apps :
    \/ StartApp(a) \/ InspectionFails(a) \/ InspectCanonical(a) \/ InspectLegacy(a)
    \/ MoveLegacyRoot(a) \/ EnsureCreated(a) \/ OpenLog(a) \/ AcquireInstance(a)
    \/ LoadSettingsFile(a) \/ CreateVideoRecorder(a) \/ CreateOutputDirectory(a) \/ AppEnds(a)
    \/ ApplySettings(a) \/ SaveOpensTemporary(a) \/ SaveWrites(a) \/ SaveReplaces(a) \/ SaveFails(a)

FilesSpec == FilesInit /\ [][FilesNext]_filesVars

-----------------------------------------------------------------------------
(* Properties.                                                             *)

BothRoots == \A r \in Roots : roots[r].exists

\* As far as the starts go, each finds the data where the last has left it.
Orderly == ~disturbed /\ "canonical" \notin strayed

\* However starts, migrations, recordings, saves and crashes follow one
\* another: settings.json is never torn; a second root comes into being only
\* when an inspection failed, two starts overlapped, or an output directory
\* lies under it, as it does after a migration that was cut short before the
\* rebased settings were saved; in that last case too there is one
\* settings.json and the starts go on using it; and as long as there is one
\* root or one file in use, an application that has loaded settings has those
\* that were saved last, the output directory moved along with the root at most.
SettingsSurvive ==
  /\ \A r \in Roots : roots[r].file # Torn
  /\ BothRoots => disturbed \/ strayed # {}
  /\ (\A r \in Roots : roots[r].file # NoFile) => ~Orderly
  /\ \A a \in Apps :
       app[a].loaded /\ (BothRoots => Orderly) =>
         /\ app[a].settings.value = good.value /\ app[a].settings.mode = good.mode
         /\ app[a].settings.output \in {good.output, RebasePathFromLegacyRoot(good.output)}
=============================================================================
