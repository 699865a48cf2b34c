------------------------------ MODULE PcmStream ------------------------------
(***************************************************************************)
(* The PCM writer element: the callbacks of pcm_stream.c for a stream of   *)
(* type AUDIO_STREAM_WRITER, driven by the element run loop, reading its   *)
(* input from a ring buffer.                                               *)
(*                                                                         *)
(* The run loop and the ring buffer (audio_element.c, ringbuf.c) are not   *)
(* in the repository; they are modelled from spec.md sections 4.1 and 6:   *)
(* open, on failure report Error and park without close; otherwise loop    *)
(* { stop check, process } and on exit close and report.  A get on the     *)
(* ring buffer returns some of the bytes it holds, up to the element's     *)
(* buffer length; Done once the writer side has finished and the buffer   *)
(* is empty; and otherwise waits.  A process result <= 0 ends the loop:    *)
(* 0 (or Done) as Finished, a negative one as Error.                       *)
(*                                                                         *)
(* The device accepts whole frames of FrameBytes bytes.  Nothing pauses    *)
(* the element, so _pcm_close always finds a state other than PAUSED.      *)
(***************************************************************************)
EXTENDS Integers, Sequences

CONSTANTS
  Bytes,        \* the tokens a ring buffer may carry
  InLen,        \* cfg.buffer_len: the len of one input
  FrameBytes,   \* bytes per frame of the pcm config
  PcmOpenFails, \* pcm_open may give a pcm that is not ready
  WriteErrors   \* pcm_writei may fail

ASSUME /\ InLen \in Nat \ {0} /\ FrameBytes \in Nat \ {0}
       /\ PcmOpenFails \in BOOLEAN /\ WriteErrors \in BOOLEAN

VARIABLES
  rb,         \* the input ring buffer's bytes, oldest first
  rbdone,     \* its writer side has signalled done
  wphase,     \* element thread: "parked", "opening", "input", "output"
  wstopping,  \* a stop was requested in this run
  w_open,     \* pcm_stream->is_open
  wlen,       \* the result of the last input: bytes, or 0 for Done
  wbuf,       \* the bytes it read into in_buffer
  w_pos,      \* info.byte_pos
  played,     \* the bytes the device has accepted in this run
  wreport     \* the last terminal state reported

wvars == <<rb, rbdone, wphase, wstopping, w_open, wlen, wbuf, w_pos, played,
           wreport>>

\* Every reachable pcm_stream state, for the type invariant.
WTypeOK ==
  /\ rb \in Seq(Bytes) /\ rbdone \in BOOLEAN
  /\ wphase \in {"parked", "opening", "input", "output"}
  /\ wstopping \in BOOLEAN /\ w_open \in BOOLEAN
  /\ wlen \in 0..InLen /\ wbuf \in Seq(Bytes)
  /\ w_pos \in Nat /\ played \in Seq(Bytes)
  /\ wreport \in {"none", "finished", "stopped", "error"}

\* pcm_stream_init: not open; the element has no run and no position yet.
WInit ==
  /\ rb = <<>> /\ rbdone = FALSE
  /\ wphase = "parked" /\ wstopping = FALSE /\ w_open = FALSE
  /\ wlen = 0 /\ wbuf = <<>> /\ w_pos = 0 /\ played = <<>>
  /\ wreport = "none"

-----------------------------------------------------------------------------
\* Fault: _pcm_close leaves info.byte_pos as it is.
PcmCloseKeepsPos == w_open' = FALSE /\ UNCHANGED w_pos

(* _pcm_close: pcm_close the device if it is open and clear is_open; in a *)
(* state other than PAUSED, report the info and set byte_pos to 0.        *)
PcmClose == w_open' = FALSE /\ w_pos' = 0

\* Run-loop exit: close, report the final state, park.
WExitRun(r) ==
  /\ PcmClose
  /\ wreport' = r
  /\ wphase' = "parked"

(* The element thread opens: _pcm_open.  is_open is never set here (close *)
(* clears it and a failed open leaves it), so the early ESP_OK is not      *)
(* taken: pcm_open gives a pcm; if it is not ready it is closed and the    *)
(* open fails, reported as Error, parking without close; else is_open.    *)
WOpen ==
  /\ wphase = "opening"
  /\ \/ /\ PcmOpenFails
        /\ wphase' = "parked" /\ wreport' = "error"
        /\ UNCHANGED w_open
     \/ /\ w_open' = TRUE /\ wphase' = "input"
        /\ UNCHANGED wreport
  /\ UNCHANGED <<rb, rbdone, wstopping, wlen, wbuf, w_pos, played>>

(* The loop top: a pending stop exits the loop; otherwise _pcm_process    *)
(* calls audio_element_input, a get on the ring buffer of at most InLen    *)
(* bytes, or Done when it is empty and done; an empty buffer not yet done  *)
(* is waited on (a stop wakes the wait, and the loop sees it).             *)
WInput ==
  /\ wphase = "input"
  /\ IF wstopping
       THEN /\ WExitRun("stopped")
            /\ UNCHANGED <<rb, wlen, wbuf, played>>
       ELSE /\ \/ \E n \in 1..InLen :
                    /\ n <= Len(rb)
                    /\ wlen' = n /\ wbuf' = SubSeq(rb, 1, n)
                    /\ rb' = SubSeq(rb, n + 1, Len(rb))
                 \/ /\ rb = <<>> /\ rbdone
                    /\ wlen' = 0 /\ wbuf' = <<>>
                    /\ UNCHANGED rb
            /\ wphase' = "output"
            /\ UNCHANGED <<w_open, w_pos, played, wreport>>
  /\ UNCHANGED <<rbdone, wstopping>>

(* _pcm_write of n bytes: pcm_writei of pcm_bytes_to_frames(n) frames,    *)
(* which drops a partial frame; a negative result is returned as it is;    *)
(* else frames * FrameBytes bytes, added to byte_pos, and returned.        *)
(* Each result: the bytes returned and the frames the device took.         *)
PcmWrite(n) ==
  {[bytes |-> (n \div FrameBytes) * FrameBytes, frames |-> n \div FrameBytes]}
  \cup (IF WriteErrors THEN {[bytes |-> -1, frames |-> -1]} ELSE {})

(* The rest of _pcm_process and the loop: r_size > 0 is written with      *)
(* audio_element_output (_pcm_write) and its result returned; else r_size *)
(* itself.  A result > 0 goes round the loop; 0 or Done is Finished; a     *)
(* negative one Error.  _pcm_process does not look at the stop flag.       *)
WOutput ==
  /\ wphase = "output"
  /\ IF wlen > 0
       THEN \E w \in PcmWrite(wlen) :
              IF w.bytes > 0
                THEN /\ played' = played \o SubSeq(wbuf, 1, w.frames * FrameBytes)
                     /\ w_pos' = w_pos + w.bytes
                     /\ wphase' = "input"
                     /\ UNCHANGED <<w_open, wreport>>
                ELSE /\ WExitRun(IF w.bytes = 0 THEN "finished" ELSE "error")
                     /\ UNCHANGED played
       ELSE WExitRun("finished") /\ UNCHANGED played
  /\ UNCHANGED <<rb, rbdone, wstopping, wlen, wbuf>>
====
