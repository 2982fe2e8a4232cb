----------------------------- MODULE ClipExports -----------------------------
(***************************************************************************)
(* Clip and bookmark requests of a recording: the bounded command queue    *)
(* the message thread fills (src/src/record/VideoRecorderClip.cpp), the    *)
(* background export queue with its one worker                             *)
(* (src/src/record/ClipExportQueue.cpp), and the last event about a        *)
(* request that the session shows (VideoRecorderSnapshot::clip).           *)
(*                                                                         *)
(* A request is its number; its kind tells a clip from a bookmark.  The    *)
(* actions are the pieces the Recorder module composes with the session    *)
(* and the pipeline; each is one critical section of one of the queues.    *)
(***************************************************************************)
EXTENDS Integers, Sequences

CONSTANTS
  CommandCapacity,   \* VideoRecorderClipCommandQueue capacity
  ExportCapacity,    \* ClipExportQueueOptions::capacity
  RequestKinds,      \* bound: the kinds asked for, "clip" and "bookmark"
  MaxRequests        \* bound: requests accepted in one behaviour

ASSUME ClipExportsAssumption ==
  /\ CommandCapacity \in Nat \ {0} /\ ExportCapacity \in Nat \ {0}
  /\ RequestKinds \subseteq {"clip", "bookmark"} /\ MaxRequests \in Nat

VARIABLES
  requests,     \* every accepted request: its kind, and the recording it is for
  commands,     \* pending_: requests the pipeline has not popped
  commandsOpen, \* ~shutting_down_ of the command queue
  answers,      \* for each request: how it was answered so far
  shown,        \* snapshot_.clip: the last event, as request and state
  exports,      \* the export queue: "off" or "running"
  jobs,         \* jobs_: requests waiting for the export worker
  writing       \* the export worker: its request and how far it is

requestVars == <<requests, commands, commandsOpen, answers, shown>>
exportVars  == <<exports, jobs, writing>>
clipVars    == <<requestVars, exportVars>>

Idle == [request |-> 0, phase |-> "idle"]

ClipInit ==
  /\ requests = <<>> /\ commands = <<>> /\ commandsOpen = TRUE
  /\ answers = <<>> /\ shown = [request |-> 0, event |-> "none"]
  /\ exports = "off" /\ jobs = <<>> /\ writing = Idle

-----------------------------------------------------------------------------
(* The command queue.                                                      *)

EnqueueRequest(kind, recording) ==
  /\ commandsOpen /\ kind \in RequestKinds
  /\ Len(commands) < CommandCapacity /\ Len(requests) < MaxRequests
  /\ requests' = Append(requests, [kind |-> kind, recording |-> recording])
  /\ commands' = Append(commands, Len(requests) + 1)
  /\ answers' = Append(answers, "none")
  /\ shown' = [request |-> Len(requests) + 1, event |-> "queued"]
  /\ UNCHANGED <<commandsOpen, exportVars>>

PopRequest == commands # <<>> /\ commands' = Tail(commands)

CloseCommands ==
  /\ commandsOpen' = FALSE /\ commands' = <<>>
  /\ UNCHANGED <<requests, answers, shown, exportVars>>

(* HandleClipEvent: the event is shown unless the session shuts down.      *)
ShowEvent(r, event, listening) ==
  /\ shown' = IF listening THEN [request |-> r, event |-> event] ELSE shown
  /\ answers' =
       IF event = "queued" \/ ~listening THEN answers
       ELSE [answers EXCEPT ![r] = IF @ = "none" THEN event ELSE "twice"]

-----------------------------------------------------------------------------
(* The export queue and its worker.                                        *)

Outstanding == Len(jobs) + (IF writing.phase = "writing" THEN 1 ELSE 0)

CanEnqueueJob == exports = "running" /\ Outstanding < ExportCapacity

ExportTake ==
  /\ exports = "running" /\ jobs # <<>> /\ writing = Idle
  /\ writing' = [request |-> Head(jobs), phase |-> "writing"]
  /\ jobs' = Tail(jobs)
  /\ UNCHANGED <<requestVars, exports>>

ExportWrite(outcome) ==
  /\ writing.phase = "writing"
  /\ writing' = [writing EXCEPT !.phase = outcome]
  /\ UNCHANGED <<requestVars, exports, jobs>>

ExportPublish(listening) ==
  /\ writing.phase \in {"saved", "failed"}
  /\ ShowEvent(writing.request, writing.phase, listening)
  /\ writing' = Idle
  /\ UNCHANGED <<requests, commands, commandsOpen, exports, jobs>>

(* Shutdown joins the worker, which first runs the jobs it holds; only the *)
(* caller could give it more.                                              *)
ExportsStopped == exports = "off" \/ (jobs = <<>> /\ writing = Idle)

ClipTypeOK ==
  /\ requests \in Seq([kind: RequestKinds, recording: Nat])
  /\ commands \in Seq(Nat) /\ commandsOpen \in BOOLEAN
  /\ answers \in Seq({"none", "saved", "failed", "twice"})
  /\ shown \in [request: Nat, event: {"none", "queued", "saved", "failed"}]
  /\ exports \in {"off", "running"} /\ jobs \in Seq(Nat)
  /\ writing \in [request: Nat, phase: {"idle", "writing", "saved", "failed"}]
=============================================================================
