----------------------------- MODULE MicMonitor -----------------------------
(***************************************************************************)
(* The microphone check of src/audio/MicMonitorSession.cpp: the commands   *)
(* of the session, which the message thread gives, and the worker thread,  *)
(* which runs the WASAPI backend once, and a second time on the default    *)
(* output when the chosen one disconnects.  Meter values, counters and     *)
(* texts are left out: what stays is the state the snapshot shows, the     *)
(* thread, and the calls of the state sink.                                *)
(***************************************************************************)
EXTENDS Naturals

VARIABLES
  micState,    \* snapshot_.state
  micWorker,   \* where worker_ is; "none" when it is not joinable
  micRunning,  \* worker_running_
  micStop,     \* stop_requested_, while a worker can see it
  micClosing,  \* shutting_down_, and state_sink_ cleared
  micHand,     \* the worker is out of the lock and about to call a sink
  micRetry,    \* the backend is in its second run, on the default output
  micFailed,   \* what the backend returned: failed rather than stopped
  window,      \* the hidden window exists
  posted       \* kinds of message waiting at it

micVars == <<micState, micWorker, micRunning, micStop, micClosing,
             micHand, micRetry, micFailed>>

MicStates == {"Idle", "Starting", "Monitoring", "Stopping", "Failed"}
\* unplugged: the output device has gone; returned: the backend has ended.
MicAt == {"none", "setup", "started", "monitoring", "unplugged", "returned", "ended"}

MicActive == micState \in {"Starting", "Monitoring", "Stopping"}

\* The capture stream of the microphone is or may be open.
MicDeviceOpen == micWorker \in {"setup", "started", "monitoring", "unplugged"}

MicInit ==
  /\ micState = "Idle" /\ micWorker = "none" /\ micRunning = FALSE
  /\ micStop = FALSE /\ micClosing = FALSE /\ micHand = FALSE
  /\ micRetry = FALSE /\ micFailed = FALSE

MicTypeOK ==
  /\ micState \in MicStates /\ micWorker \in MicAt
  /\ {micRunning, micStop, micClosing, micHand, micRetry, micFailed} \subseteq BOOLEAN

\* PostMessage to the hidden window; without it the message is lost.
Post(kind) == posted' = IF window THEN posted \cup {kind} ELSE posted
MicPublish == IF micClosing THEN UNCHANGED posted ELSE Post("mic")

\* worker_ can be joined without waiting.
MicJoinable == micWorker \in {"none", "ended"} /\ ~micHand

(***************************************************************************)
(* Commands.  Start is two critical sections: it reaps a worker that has   *)
(* ended, joining it out of the lock, and only then looks at the state.    *)
(***************************************************************************)
MicReap ==
  /\ IF micRunning THEN UNCHANGED micWorker
     ELSE MicJoinable /\ micWorker' = "none"
  /\ UNCHANGED <<micState, micRunning, micStop, micClosing, micHand,
                 micRetry, micFailed, posted>>

MicMayStart == ~(micClosing \/ micRunning \/ MicActive)

\* The thread may fail to start.
MicStart ==
  IF ~MicMayStart THEN UNCHANGED <<micVars, posted>>
  ELSE /\ micStop' = FALSE
       /\ \/ micState' = "Starting" /\ micRunning' = TRUE /\ micWorker' = "setup"
          \/ micState' = "Failed" /\ UNCHANGED <<micRunning, micWorker>>
       /\ MicPublish
       /\ UNCHANGED <<micClosing, micHand, micRetry, micFailed>>

MicStopCommand ==
  IF ~MicActive THEN UNCHANGED <<micVars, posted>>
  ELSE /\ micStop' = TRUE /\ micState' = "Stopping"
       /\ MicPublish
       /\ UNCHANGED <<micWorker, micRunning, micClosing, micHand,
                      micRetry, micFailed>>

\* AppHost clears the sink before it calls Shutdown, which clears it too.
MicShutdownBegin ==
  /\ micClosing' = TRUE /\ micStop' = TRUE
  /\ UNCHANGED <<micState, micWorker, micRunning, micHand, micRetry, micFailed, posted>>

\* Mutant: Shutdown does not wait for the worker.
ShutdownDetached ==
  /\ micRunning' = FALSE /\ micState' = "Idle"
  /\ UNCHANGED <<micWorker, micStop, micClosing, micHand, micRetry, micFailed, posted>>

MicShutdownJoined ==
  /\ MicJoinable
  /\ micWorker' = "none" /\ micRunning' = FALSE /\ micState' = "Idle"
  /\ UNCHANGED <<micStop, micClosing, micHand, micRetry, micFailed, posted>>

(***************************************************************************)
(* The worker.                                                             *)
(***************************************************************************)
\* An update of the backend is applied unless the session is stopping.
ApplyBackendUpdate(monitoring) ==
  /\ IF micState = "Stopping" \/ micClosing
     THEN UNCHANGED <<micState, micHand>>
     ELSE /\ micState' = IF monitoring /\ micState = "Starting" THEN "Monitoring" ELSE micState
          /\ micHand' = ~micClosing
  /\ UNCHANGED <<micRunning, micStop, micClosing, posted>>

SessionUntouched ==
  UNCHANGED <<micState, micRunning, micStop, micClosing, micHand, micRetry, posted>>

\* Endpoints, clients and events are set up, the buffer primed, the streams
\* started: any step may fail, the output's because the device has gone.
BackendSetup ==
  /\ micWorker = "setup" /\ ~micHand
  /\ \/ micWorker' = "started" /\ UNCHANGED micFailed
     \/ micWorker' = "returned" /\ micFailed' = TRUE
     \/ micWorker' = "unplugged" /\ UNCHANGED micFailed
  /\ SessionUntouched

BackendStarted ==
  /\ micWorker = "started"
  /\ micWorker' = "monitoring"
  /\ ApplyBackendUpdate(TRUE)
  /\ UNCHANGED <<micRetry, micFailed>>

\* The loop looks at stop_requested once in each round, at most 40 ms apart;
\* it also ends when the microphone fails or the output goes.
BackendLoopEnds ==
  /\ micWorker = "monitoring" /\ ~micHand
  /\ \/ micStop /\ micWorker' = "returned" /\ UNCHANGED micFailed
     \/ micWorker' = "returned" /\ micFailed' = TRUE
     \/ micWorker' = "unplugged" /\ UNCHANGED micFailed
  /\ SessionUntouched

\* The output has gone: the first run is followed by one on the default output.
BackendUnplugged ==
  /\ micWorker = "unplugged"
  /\ IF micRetry \/ micStop
     THEN micWorker' = "returned" /\ micFailed' = TRUE /\ SessionUntouched
     ELSE /\ micWorker' = "setup" /\ micRetry' = TRUE
          /\ ApplyBackendUpdate(FALSE)
          /\ UNCHANGED micFailed

\* The end of WorkerMain: the state is set in the lock; the sink comes after it.
WorkerResult ==
  /\ micWorker = "returned"
  /\ micRunning' = FALSE
  /\ micState' = IF micFailed /\ ~micStop /\ ~micClosing THEN "Failed" ELSE "Idle"
  /\ micHand' = ~micClosing /\ micWorker' = "ended"
  /\ micStop' = FALSE /\ micRetry' = FALSE /\ micFailed' = FALSE
  /\ UNCHANGED <<micClosing, posted>>

\* The worker calls the sink it copied in the lock.
CallMicSink ==
  /\ micHand /\ micHand' = FALSE
  /\ Post("mic")
  /\ UNCHANGED <<micState, micWorker, micRunning, micStop, micClosing, micRetry, micFailed>>

\* The loop need not end by itself.
MicProgress ==
  \/ BackendSetup \/ BackendStarted \/ BackendUnplugged
  \/ WorkerResult \/ CallMicSink
  \/ micStop /\ BackendLoopEnds

MicWorkerStep == (MicProgress \/ BackendLoopEnds) /\ UNCHANGED window
=============================================================================
