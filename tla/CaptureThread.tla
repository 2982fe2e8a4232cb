--------------------------- MODULE CaptureThread ---------------------------
(***************************************************************************)
(* The capture thread of one WASAPI source, and the calls the recorder     *)
(* makes on it (src/audio/WasapiCaptureSource.cpp).  The thread tries to   *)
(* open the default endpoint, reports how its first attempt went, passes   *)
(* packets to its sink, and opens the endpoint again when it was lost.     *)
(* Endpoint, client, format and event of an attempt are one thing here,    *)
(* which opens or does not; a delay between attempts has no length.        *)
(***************************************************************************)
EXTENDS Naturals

CONSTANT NSources  \* the sources of the recording: desktop audio, microphone

Sources == 1..NSources

VARIABLES
  at,         \* where the thread of each source is
  result,     \* last_result_: "ok" or "fault"
  verdict,    \* the result in the hands of the thread
  running,    \* running_
  stopEvent,  \* the manual-reset stop event is set
  startup,    \* the startup event is set
  excused     \* history: a packet was refused; a stop or a lost device hid that

captureVars == <<at, result, verdict, running, stopEvent, startup, excused>>

\* opening: RunCaptureAttempt before IAudioClient::Start succeeds; capturing,
\* draining: its loop, and the last drain after it; refused: the sink took a
\* packet not; waiting: between two attempts; closing, clearing: the last two
\* assignments of the thread.
Places == {"none", "opening", "capturing", "draining", "refused", "waiting",
           "closing", "clearing", "ended"}

CaptureInit ==
  /\ at = [s \in Sources |-> "none"]
  /\ result = [s \in Sources |-> "ok"] /\ verdict = result
  /\ running = [s \in Sources |-> FALSE]
  /\ stopEvent = running /\ startup = running /\ excused = running

CaptureTypeOK ==
  /\ at \in [Sources -> Places]
  /\ result \in [Sources -> {"ok", "fault"}]
  /\ verdict \in [Sources -> {"ok", "fault"}]
  /\ running \in [Sources -> BOOLEAN]
  /\ stopEvent \in [Sources -> BOOLEAN]
  /\ startup \in [Sources -> BOOLEAN] /\ excused \in [Sources -> BOOLEAN]

Alive(s) == at[s] \notin {"none", "ended"}
Delivering(s) == at[s] \in {"capturing", "draining"}

-----------------------------------------------------------------------------
(* Calls of the recorder: Start makes events and thread, and waits for the *)
(* startup event; Stop sets the stop event and joins the thread.           *)

LaunchThread(s) ==
  /\ at' = [at EXCEPT ![s] = "opening"]
  /\ result' = [result EXCEPT ![s] = "ok"]
  /\ UNCHANGED <<verdict, running, stopEvent, startup, excused>>

\* Mutant: a source that is not running is taken for stopped.
RequestStopIfRunning(s) ==
  /\ stopEvent' = [stopEvent EXCEPT ![s] = running[s]]
  /\ UNCHANGED <<at, result, verdict, running, startup, excused>>

RequestStop(s) ==
  /\ stopEvent' = [stopEvent EXCEPT ![s] = TRUE]
  /\ UNCHANGED <<at, result, verdict, running, startup, excused>>

\* Mutant: the join gives up on a thread that is in its sink.
JoinedOrDelivering(s) == ~Alive(s) \/ Delivering(s)

Joined(s) == ~Alive(s)

AfterJoin(s) ==
  /\ running' = [running EXCEPT ![s] = FALSE]
  /\ UNCHANGED <<at, result, verdict, stopEvent, startup, excused>>

-----------------------------------------------------------------------------
(* The thread.                                                             *)

SignalStartup(s, res) ==
  /\ result' = [result EXCEPT ![s] = res]
  /\ running' = [running EXCEPT ![s] = (res = "ok")]
  /\ startup' = [startup EXCEPT ![s] = TRUE]

\* COM cannot be initialized: the thread is over once it has said so.
ComFails(s) ==
  /\ at[s] = "opening" /\ ~startup[s]
  /\ SignalStartup(s, "fault")
  /\ at' = [at EXCEPT ![s] = "ended"]
  /\ UNCHANGED <<verdict, stopEvent, excused>>

AttemptOpens(s) ==
  /\ at[s] = "opening"
  /\ at' = [at EXCEPT ![s] = "capturing"]
  /\ IF startup[s] THEN UNCHANGED <<result, running, startup>>
     ELSE SignalStartup(s, "ok")
  /\ UNCHANGED <<verdict, stopEvent, excused>>

\* An attempt that failed ends the thread with success when the stop event
\* is set, with its failure when that is not one to recover from.
AttemptOver(s, recoverable) ==
  /\ at' = [at EXCEPT ![s] = IF stopEvent[s] \/ ~recoverable THEN "closing" ELSE "waiting"]
  /\ verdict' = [verdict EXCEPT ![s] = IF stopEvent[s] THEN "ok" ELSE "fault"]
  /\ UNCHANGED stopEvent

AttemptFails(s) ==
  /\ at[s] = "opening"
  /\ IF startup[s]
     THEN /\ \E recoverable \in BOOLEAN : AttemptOver(s, recoverable)
          /\ UNCHANGED <<result, running, startup>>
     ELSE /\ SignalStartup(s, "fault")
          /\ at' = [at EXCEPT ![s] = "closing"]
          /\ verdict' = [verdict EXCEPT ![s] = "fault"]
          /\ UNCHANGED stopEvent
  /\ UNCHANGED excused

\* The endpoint is invalidated, or the default endpoint becomes another one.
DeviceGone(s) ==
  /\ Delivering(s)
  /\ \E recoverable \in BOOLEAN : AttemptOver(s, recoverable)
  /\ UNCHANGED <<result, running, startup, excused>>

SinkRefuses(s) ==
  /\ at' = [at EXCEPT ![s] = "refused"]
  /\ UNCHANGED <<result, verdict, running, stopEvent, startup, excused>>

\* The buffer is released before the answer of the sink is looked at: when that
\* fails, it is reported in place of the refusal, and may be recoverable.  A
\* refusal that is reported is not: no HRESULT goes with it.
AttemptRefused(s) ==
  /\ at[s] = "refused"
  /\ \E deviceLost \in BOOLEAN :
       /\ AttemptOver(s, deviceLost)
       /\ excused' = [excused EXCEPT ![s] = @ \/ stopEvent[s] \/ deviceLost]
  /\ UNCHANGED <<result, running, startup>>

SeesStop(s) ==
  /\ at[s] = "capturing" /\ stopEvent[s]
  /\ at' = [at EXCEPT ![s] = "draining"]
  /\ UNCHANGED <<result, verdict, running, stopEvent, startup, excused>>

DrainEnds(s) ==
  /\ at[s] = "draining"
  /\ at' = [at EXCEPT ![s] = "closing"]
  /\ verdict' = [verdict EXCEPT ![s] = "ok"]
  /\ UNCHANGED <<result, running, stopEvent, startup, excused>>

\* The stop event ends the wait; the wait itself may fail.
Reconnect(s) ==
  /\ at[s] = "waiting"
  /\ \/ /\ at' = [at EXCEPT ![s] = IF stopEvent[s] THEN "closing" ELSE "opening"]
        /\ verdict' = [verdict EXCEPT ![s] = "ok"]
     \/ at' = [at EXCEPT ![s] = "closing"] /\ UNCHANGED verdict
  /\ UNCHANGED <<result, running, stopEvent, startup, excused>>

SetLastResult(s) ==
  /\ at[s] = "closing"
  /\ result' = [result EXCEPT ![s] = verdict[s]]
  /\ at' = [at EXCEPT ![s] = "clearing"]
  /\ UNCHANGED <<verdict, running, stopEvent, startup, excused>>

ThreadEnds(s) ==
  /\ at[s] = "clearing"
  /\ running' = [running EXCEPT ![s] = FALSE]
  /\ at' = [at EXCEPT ![s] = "ended"]
  /\ verdict' = [verdict EXCEPT ![s] = "ok"]   \* a local of the thread
  /\ UNCHANGED <<result, stopEvent, startup, excused>>

ThreadStep(s) ==
  \/ ComFails(s) \/ AttemptOpens(s) \/ AttemptFails(s) \/ DeviceGone(s)
  \/ AttemptRefused(s) \/ SeesStop(s) \/ DrainEnds(s) \/ Reconnect(s)
  \/ SetLastResult(s) \/ ThreadEnds(s)
=============================================================================
