----------------------------- MODULE SessionFiles -----------------------------
(***************************************************************************)
(* What a recording leaves on disk, and the two ways a file is published:  *)
(* the session directory with packets.dat and session.json, the MP4 in the *)
(* output directory, and the temporary files of both                       *)
(* (src/src/record/SessionManifest.cpp, Mp4Muxer.cpp, DiskWriteFault.cpp). *)
(*                                                                         *)
(* The recorder and the recovery worker write the MP4 of a session with    *)
(* the same code and under the same temporary name, so the muxer is a      *)
(* procedure either may be in.  On Windows a file that is open can be      *)
(* neither removed nor renamed, and its directory cannot be moved.         *)
(***************************************************************************)
EXTENDS Integers, Sequences

CONSTANT Sessions   \* session directories, in the order of their names

Processes == {"recorder", "recovery"}

VARIABLES
  where,         \* for each session: "none", "sessions" or "discarded"
  packets,       \* packets.dat: "none", "empty", or "some" exportable video
  manifest,      \* session.json has been published
  manifestTemp,  \* session.json.tmp: "none", "partial" or "complete"
  mp4Temp,       \* the temporary MP4: its content, and who opened it last
  mp4,           \* the final MP4: who published it, and was it whole
  mux            \* for each process: the MP4 it writes, and how far it is

fileVars == <<where, packets, manifest, manifestTemp, mp4Temp, mp4>>

NoTemp == [content |-> "none", opener |-> "nobody"]
NoMp4  == [by |-> "nobody", whole |-> FALSE]
Off    == [at |-> "off", session |-> 0]

FilesInit ==
  /\ where = [s \in Sessions |-> "none"]
  /\ packets = [s \in Sessions |-> "none"]
  /\ manifest = [s \in Sessions |-> FALSE]
  /\ manifestTemp = [s \in Sessions |-> "none"]
  /\ mp4Temp = [s \in Sessions |-> NoTemp]
  /\ mp4 = [s \in Sessions |-> NoMp4]
  /\ mux = [p \in Processes |-> Off]

Published(s) == mp4[s] # NoMp4

(* What ReadSessionManifest and BuildVideoExportPlan make of a session.    *)
Readable(s) == where[s] = "sessions" /\ manifest[s]
Plannable(s) == where[s] = "sessions" /\ packets[s] = "some"

-----------------------------------------------------------------------------
(* WriteFfmpegMp4, called by process p.                                    *)

Muxing(p, at) == mux[p].at = at
MuxGoto(p, at) == mux' = [mux EXCEPT ![p].at = at]
MuxStart(p, s) == mux' = [mux EXCEPT ![p] = [at |-> "check", session |-> s]]
MuxEnded(p) == mux[p].at \in {"ok", "failed"}

OpenByOther(p, s) ==
  \E q \in Processes \ {p} : Muxing(q, "write") /\ mux[q].session = s

(* The MP4 is refused if it exists, else a stale temporary file is removed.*)
MuxCheck(p) ==
  /\ Muxing(p, "check")
  /\ \/ MuxGoto(p, "failed")
     \/ ~Published(mux[p].session) /\ MuxGoto(p, "remove")
  /\ UNCHANGED fileVars

MuxRemove(p) ==
  LET s == mux[p].session
  IN  /\ Muxing(p, "remove")
      /\ \/ /\ ~OpenByOther(p, s)
            /\ mp4Temp' = [mp4Temp EXCEPT ![s] = NoTemp]
            /\ MuxGoto(p, "open")
         \/ MuxGoto(p, "failed") /\ UNCHANGED mp4Temp
      /\ UNCHANGED <<where, packets, manifest, manifestTemp, mp4>>

(* Opening truncates, whoever else has the file open.                      *)
MuxOpen(p) ==
  LET s == mux[p].session
  IN  /\ Muxing(p, "open") /\ where[s] = "sessions"
      /\ mp4Temp' = [mp4Temp EXCEPT ![s] = [content |-> "partial", opener |-> p]]
      /\ MuxGoto(p, "write")
      /\ UNCHANGED <<where, packets, manifest, manifestTemp, mp4>>

(* Both processes write the same bytes: the file is whole once the one     *)
(* that truncated it last has written all of them.                         *)
MuxWrite(p) ==
  LET s == mux[p].session
  IN  /\ Muxing(p, "write")
      /\ mp4Temp' = IF mp4Temp[s].opener = p
                    THEN [mp4Temp EXCEPT ![s].content = "complete"] ELSE mp4Temp
      /\ MuxGoto(p, "publish")
      /\ UNCHANGED <<where, packets, manifest, manifestTemp, mp4>>

(* Mutant: a failed write is published all the same.                       *)
MuxFailsUnnoticed(p) ==
  /\ Muxing(p, "open") \/ Muxing(p, "write")
  /\ MuxGoto(p, "publish")
  /\ UNCHANGED fileVars

(* The setup or a write fails: the temporary file is removed if it can be. *)
MuxFails(p) ==
  LET s == mux[p].session
  IN  /\ Muxing(p, "open") \/ Muxing(p, "write")
      /\ \/ ~OpenByOther(p, s) /\ mp4Temp' = [mp4Temp EXCEPT ![s] = NoTemp]
         \/ UNCHANGED mp4Temp
      /\ MuxGoto(p, "failed")
      /\ UNCHANGED <<where, packets, manifest, manifestTemp, mp4>>

(* Mutant: the destination is not looked at again.                         *)
PublishOver(p, s) ==
  /\ mp4Temp[s].content # "none" /\ ~OpenByOther(p, s)
  /\ mp4' = [mp4 EXCEPT ![s] = [by |-> p, whole |-> mp4Temp[s].content = "complete"]]
  /\ mp4Temp' = [mp4Temp EXCEPT ![s] = NoTemp]
  /\ UNCHANGED <<where, packets, manifest, manifestTemp>>

(* AtomicPublishFile of the MP4, without overwriting.                      *)
PublishMp4(p, s) ==
  /\ mp4Temp[s].content # "none" /\ ~OpenByOther(p, s) /\ ~Published(s)
  /\ mp4' = [mp4 EXCEPT ![s] = [by |-> p, whole |-> mp4Temp[s].content = "complete"]]
  /\ mp4Temp' = [mp4Temp EXCEPT ![s] = NoTemp]
  /\ UNCHANGED <<where, packets, manifest, manifestTemp>>

MuxPublish(p) ==
  /\ Muxing(p, "publish")
  /\ \/ PublishMp4(p, mux[p].session) /\ MuxGoto(p, "ok")
     \/ MuxGoto(p, "failed") /\ UNCHANGED fileVars

Mux(p) == MuxCheck(p) \/ MuxRemove(p) \/ MuxOpen(p) \/ MuxWrite(p) \/ MuxFails(p)
          \/ MuxPublish(p)

FilesTypeOK ==
  /\ where \in [Sessions -> {"none", "sessions", "discarded"}]
  /\ packets \in [Sessions -> {"none", "empty", "some"}]
  /\ manifest \in [Sessions -> BOOLEAN]
  /\ manifestTemp \in [Sessions -> {"none", "partial", "complete"}]
  /\ mp4Temp \in [Sessions -> [content: {"none", "partial", "complete"},
                               opener: Processes \cup {"nobody"}]]
  /\ mp4 \in [Sessions -> [by: Processes \cup {"nobody"}, whole: BOOLEAN]]
  /\ mux \in [Processes ->
       [at: {"off", "check", "remove", "open", "write", "publish", "ok", "failed"},
        session: Sessions \cup {0}]]
=============================================================================
