-------------------------------- MODULE Player --------------------------------
(***************************************************************************)
(* A two-element pipeline: the HTTP reader (HttpSource) writes what it    *)
(* reads into a ring buffer of RbSize bytes, and the PCM writer            *)
(* (PcmStream) plays what it takes from it.  Each element runs its own     *)
(* thread; the two meet only in the ring buffer.                           *)
(*                                                                         *)
(* The pipeline calls (audio_pipeline.c) are not in the repository; they   *)
(* are modelled from spec.md sections 4.2 and 6: run starts every parked   *)
(* element; stop sets the stop flag of every                               *)
(* running element.  audio_element_output of the reader is a put on the    *)
(* ring buffer, which waits until the bytes fit (a stop wakes it); when    *)
(* the reader finishes it marks the buffer done.                           *)
(***************************************************************************)
EXTENDS Integers, Sequences

CONSTANTS
  Answers, Uninit, BodyLen, ReadMax, ConnectFails, ReadErrors, MaxRuns,
  InLen, FrameBytes, PcmOpenFails, WriteErrors,
  RbSize       \* the ring buffer's size in bytes

ASSUME RbSize \in Nat \ {0}

VARIABLES
  ephase, stopping, runs, is_open, client, head, sock, rlen, buf,
  byte_pos, total_bytes, out, report,
  rb, rbdone, wphase, wstopping, w_open, wlen, wbuf, w_pos, played, wreport

R == INSTANCE HttpSource
W == INSTANCE PcmStream WITH Bytes <- {R!Hdr} \cup 1..BodyLen

\* The reader's variables, and all of them.
svars == <<ephase, stopping, runs, is_open, client, head, sock, rlen, buf,
           byte_pos, total_bytes, out, report>>
pvars == <<svars, rb, rbdone, wphase, wstopping, w_open, wlen, wbuf, w_pos,
           played, wreport>>
\* The writer's own variables, which the reader's steps leave alone.
wown == <<wphase, wstopping, w_open, wlen, wbuf, w_pos, played, wreport>>

Running == {"opening", "input", "output"}

\* The type invariant of the pipeline: both elements and the ring buffer.
PipelineTypeOK == R!TypeOK /\ W!WTypeOK /\ Len(rb) <= RbSize

Init == R!Init /\ W!WInit

-----------------------------------------------------------------------------
(* audio_pipeline_run, once both elements have parked: both threads start *)
(* their run.  Nothing in spec.md 4.2 resets the ring buffer, so the bytes *)
(* and the done mark a previous run left in it stay.                       *)
PRun ==
  /\ R!Run
  /\ wphase = "parked"
  /\ wphase' = "opening" /\ wstopping' = FALSE /\ played' = <<>>
  /\ UNCHANGED <<rb, rbdone, w_open, wlen, wbuf, w_pos, wreport>>

(* audio_pipeline_stop: the stop flag of every element still running.     *)
PStop ==
  /\ ephase # "exited"
  /\ (ephase \in Running /\ ~stopping) \/ (wphase \in Running /\ ~wstopping)
  /\ stopping' = (stopping \/ ephase \in Running)
  /\ wstopping' = (wstopping \/ wphase \in Running)
  /\ UNCHANGED <<ephase, runs, is_open, client, head, sock, rlen, buf,
                 byte_pos, total_bytes, out, report, rb, rbdone, wphase, w_open,
                 wlen, wbuf, w_pos, played, wreport>>

\* The reader's open and input steps touch neither the buffer nor the writer.
SOpen == R!Open /\ UNCHANGED <<rb, rbdone, wown>>
SInput == R!Input /\ UNCHANGED <<rb, rbdone, wown>>

\* Fault: the reader finishes without marking the ring buffer done.
SOutputNoDone ==
  /\ R!Output
  /\ rb' = IF ~stopping /\ rlen > 0 THEN rb \o buf ELSE rb
  /\ Len(rb') <= RbSize
  /\ UNCHANGED <<rbdone, wown>>

(* The reader's output step: audio_element_output puts the bytes it read  *)
(* into the ring buffer, waiting for room; finishing marks the buffer done. *)
SOutput ==
  /\ R!Output
  /\ rb' = IF ~stopping /\ rlen > 0 THEN rb \o buf ELSE rb
  /\ Len(rb') <= RbSize
  /\ rbdone' = (rbdone \/ (~stopping /\ rlen = 0))
  /\ UNCHANGED wown

\* The writer's steps, in a process that has not exited.
WOpen == ephase # "exited" /\ W!WOpen /\ UNCHANGED svars
WInput == ephase # "exited" /\ W!WInput /\ UNCHANGED svars
WOutput == ephase # "exited" /\ W!WOutput /\ UNCHANGED svars

\* The application runs no more, or the process has exited.
Terminated ==
  /\ ephase = "exited" \/ (ephase = "parked" /\ wphase = "parked" /\ runs = MaxRuns)
  /\ UNCHANGED pvars

Next ==
  \/ PRun \/ PStop \/ SOpen \/ SInput \/ SOutput
  \/ WOpen \/ WInput \/ WOutput \/ Terminated

\* Both element threads run their loops; the application need not act.
Fairness ==
  /\ WF_pvars(SOpen) /\ WF_pvars(SInput) /\ WF_pvars(SOutput)
  /\ WF_pvars(WOpen) /\ WF_pvars(WInput) /\ WF_pvars(WOutput)

Spec == Init /\ [][Next]_pvars /\ Fairness

-----------------------------------------------------------------------------
(* Properties.                                                             *)

(* The reader's output in every run is the response body from its first   *)
(* byte, in order (HttpSource's BodyInOrder, inside the pipeline).        *)
BodyInOrder == R!BodyInOrder

(* Once the reader has finished its run (reached the end of the body and  *)
(* parked reporting Finished), the writer drains the ring buffer and its   *)
(* run ends too: nothing else will put into the buffer, so this needs the  *)
(* reader to mark it done and the get that finds it empty and done to      *)
(* return Done.                                                            *)
WriterEndsAfterReader ==
  (ephase = "parked" /\ report = "finished") ~> wphase = "parked"
====
