------------------------------ MODULE Mp3Decoder ------------------------------
(***************************************************************************)
(* The buffer handling of the MP3 decoder element (mp3_decode.c).          *)
(*                                                                         *)
(* The element thread calls mp3_decoder_process repeatedly on its          *)
(* in_buffer of in_len bytes.  Bytes not yet decoded are kept at the start *)
(* of in_buffer, and their number in `static int last_left`, which is one  *)
(* variable for the whole program: it is not reset by mp3_decoder_open or  *)
(* mp3_decoder_close, so it carries over from one run of the element (one  *)
(* stream) to the next.                                                    *)
(*                                                                         *)
(* Bytes are abstracted to tokens: the sync/header token of frame f of     *)
(* stream s, its body token, and junk (ID3 tags, zero fill, or a false     *)
(* sync that MP3Decode rejects).  A frame is FrameLen tokens; the decoder  *)
(* waits for FrameSize tokens after a sync (the code's framesize, the      *)
(* frame length plus one) before decoding.  MP3Decode is modelled by what  *)
(* it does to the pointers: on a real header it consumes the frame and     *)
(* produces that frame, garbled if the body is not the header's own.       *)
(***************************************************************************)
EXTENDS Integers, Sequences, FiniteSets

CONSTANTS
  InLen,      \* in_len, the element buffer in tokens
  FrameLen,   \* tokens per frame
  FrameSize,  \* framesize: tokens needed after a sync before decoding
  Streams,    \* the streams the element plays, one per run, in order
  Timeouts,   \* audio_element_input may return AEL_IO_TIMEOUT
  MaxShorts,  \* short writes of audio_element_output in a behaviour
  Stops       \* the element may be stopped between process calls

VARIABLES
  lbuf,       \* in_buffer[0 .. last_left - 1]: the bytes kept for the next call
  last_left,  \* static int last_left
  cur,        \* index of the stream of the current run
  pos,        \* next unread token of that stream (upstream ring buffer)
  phase,      \* the element: "run", "done", "error", "stopped" (then closed)
  out,        \* frames written to the output, with the stream being played
  shorts      \* short writes so far

vars == <<lbuf, last_left, cur, pos, phase, out, shorts>>

Tok == [s : 0..Len(Streams), f : Nat, k : {"hdr", "body", "ff"}]
\* Junk and zero fill (no sync) and a false sync MP3Decode rejects.
Junk == [s |-> 0, f |-> 0, k |-> "body"]
FalseSync == [s |-> 0, f |-> 0, k |-> "hdr"]
\* The first byte of a header alone (0xFF): a sync with a header after it.
LoneFF == [s |-> 0, f |-> 0, k |-> "ff"]
\* A byte outside the bytes the buffer holds (in_buffer[-1]): not a header.
Unk == Junk

Frame == [s : 1..Len(Streams), fs : 0..Len(Streams), f : Nat, ok : BOOLEAN]

TypeOK ==
  /\ lbuf \in Seq(Tok) /\ Len(lbuf) = last_left
  /\ cur \in 1..Len(Streams) /\ pos \in Nat \ {0}
  /\ phase \in {"run", "done", "error", "stopped"}
  /\ out \in Seq(Frame)
  /\ shorts \in 0..MaxShorts

-----------------------------------------------------------------------------
(* The decode loops as operators over the buffer b (in_buffer from index   *)
(* 1), readPtr rp (an index into b; 0 is in_buffer[-1]) and left.          *)

At(b, i) == IF i \in 1..Len(b) THEN b[i] ELSE Unk

\* The first byte of a token, left in in_buffer by a one-byte step.
FirstByte(t) == IF t.k = "hdr" THEN LoneFF ELSE Junk

\* A sync word starts at b[i]: a header, or a lone 0xFF before a header.
SyncAt(b, i, last) ==
  \/ At(b, i).k = "hdr"
  \/ At(b, i).k = "ff" /\ i < last /\ At(b, i + 1).k = "hdr"

\* MP3FindSyncWord(readPtr, left): offset of the first sync, or -1.
FindSync(b, rp, left) ==
  LET hits == {i \in 0..(left - 1) : SyncAt(b, rp + i, rp + left - 1)}
  IN IF hits = {} THEN -1 ELSE CHOOSE i \in hits : \A j \in hits : i <= j

\* Fault: MP3Decode wants a byte beyond the frame, as the data loop does.
DecodeOKStrict(b, rp, left) ==
  left > FrameLen /\ At(b, rp).k = "hdr" /\ At(b, rp).f # 0

\* MP3Decode(&readPtr, &left) succeeds on a real header with a whole frame.
DecodeOK(b, rp, left) ==
  left >= FrameLen /\ At(b, rp).k = "hdr" /\ At(b, rp).f # 0

\* The frame it produces; garbled unless the body is the header's own.
Decoded(b, rp) ==
  [s |-> cur, fs |-> At(b, rp).s, f |-> At(b, rp).f,
   ok |-> /\ At(b, rp).s = cur
          /\ \A i \in 1..(FrameLen - 1) :
               At(b, rp + i) = [At(b, rp) EXCEPT !.k = "body"]]

\* Fault: memmove keeps the buffer from in_buffer, not from readPtr.
KeepFromStart(b, rp, left) == [i \in 1..left |-> At(b, i)]

\* memmove(in_buffer, readPtr, left).
Keep(b, rp, left) == [i \in 1..left |-> At(b, rp + i - 1)]

(* The while(1) loop of the r_size > 0 branch.  `short` is the number of   *)
(* the decoded frame whose audio_element_output is short (0: none).        *)
(* Results: "continue" (last_left = left after the memmove), "fail"        *)
(* (MP3Decode error, return ESP_CODEC_ERR_FAIL) and "break" (short write:  *)
(* leaves the loop with neither memmove nor last_left update).             *)
RECURSIVE DataLoop(_, _, _, _, _)
DataLoop(b, rp, left, outs, short) ==
  LET off == FindSync(b, rp, left) IN
  IF off < 0 \/ left - off < FrameSize
    THEN [res |-> "continue", keep |-> Keep(b, rp, left), outs |-> outs]
  ELSE IF ~DecodeOK(b, rp + off, left - off)
    THEN [res |-> "fail", keep |-> <<>>, outs |-> outs]
  ELSE LET outs2 == Append(outs, Decoded(b, rp + off)) IN
       IF Len(outs2) = short
         THEN [res |-> "break", keep |-> <<>>, outs |-> outs2]
         ELSE DataLoop(b, rp + off + FrameLen, left - off - FrameLen, outs2,
                       short)

(* in_buffer[0 .. left) after the DONE branch gives up, with no memmove:  *)
(* after a step back, `left` counts one byte more than the tokens before   *)
(* it, the first byte of the next token.                                   *)
DoneKeep(b, off, left) ==
  IF off >= 0 THEN [i \in 1..(left - off) |-> At(b, i)]
  ELSE [i \in 1..left |-> At(b, i)] \o <<FirstByte(At(b, left + 1))>>

(* The while(1) loop of the AEL_IO_DONE branch: no check of offset < 0, so *)
(* readPtr steps back one byte when no sync is left (the byte is the last  *)
(* of the frame before, or in_buffer[-1]) and MP3Decode fails on it; an    *)
(* MP3Decode error sets last_left = left and returns ESP_CODEC_ERR_DONE.   *)
RECURSIVE DoneLoop(_, _, _, _, _)
DoneLoop(b, rp, left, outs, short) ==
  LET off == FindSync(b, rp, left) IN
  IF ~DecodeOK(b, rp + off, left - off)
    THEN [res |-> "done", keep |-> DoneKeep(b, off, left), outs |-> outs]
  ELSE LET outs2 == Append(outs, Decoded(b, rp + off)) IN
       IF Len(outs2) = short
         THEN [res |-> "break", keep |-> <<>>, outs |-> outs2]
         ELSE DoneLoop(b, rp + off + FrameLen, left - off - FrameLen, outs2,
                       short)

\* The frame numbers a short write may hit in one call.
ShortChoices == IF shorts < MaxShorts THEN 0..InLen ELSE {0}

-----------------------------------------------------------------------------
Stream == Streams[cur]
Space == InLen - last_left

(* mp3_decoder_process when audio_element_input(el, in_buffer + last_left, *)
(* in_len - last_left) returns r_size = n > 0 bytes.                       *)
ProcessData ==
  /\ phase = "run"
  /\ Space > 0 /\ pos <= Len(Stream)
  /\ \E n \in 1..Space, short \in ShortChoices :
       /\ pos + n - 1 <= Len(Stream)
       /\ \E r \in {DataLoop(lbuf \o SubSeq(Stream, pos, pos + n - 1), 1,
                              last_left + n, <<>>, short)} :
             /\ pos' = pos + n
             /\ out' = out \o r.outs
             /\ shorts' = IF r.res = "break" THEN shorts + 1 ELSE shorts
             /\ CASE r.res = "continue" -> /\ lbuf' = r.keep
                                           /\ last_left' = Len(r.keep)
                                           /\ UNCHANGED phase
                  [] r.res = "fail"     -> /\ phase' = "error"
                                           /\ UNCHANGED <<lbuf, last_left>>
                  [] r.res = "break"    -> UNCHANGED <<lbuf, last_left, phase>>
  /\ UNCHANGED cur

\* Fault: the zeroed buffer is taken as in_len kept bytes.
ProcessTimeoutWholeBuffer ==
  /\ phase = "run"
  /\ Timeouts
  /\ lbuf' = [i \in 1..InLen |-> Junk]
  /\ UNCHANGED <<last_left, cur, pos, phase, out, shorts>>

(* audio_element_input returns AEL_IO_TIMEOUT: memset(in_buffer, 0,       *)
(* in_len) and in_len bytes of silence are written; last_left is kept, so  *)
(* the kept bytes are now zeros.                                           *)
ProcessTimeout ==
  /\ phase = "run"
  /\ Timeouts
  /\ lbuf' = [i \in 1..last_left |-> Junk]
  /\ UNCHANGED <<last_left, cur, pos, phase, out, shorts>>

\* Fault: with bytes kept, the DONE branch returns ESP_CODEC_ERR_CONTINUE
\* before its loop, so the element calls process again on the same bytes.
ProcessDoneNoFinish ==
  /\ phase = "run"
  /\ pos > Len(Stream)
  /\ IF last_left > 0
       THEN UNCHANGED vars
       ELSE /\ phase' = "done"
            /\ UNCHANGED <<lbuf, last_left, out, shorts>>
  /\ UNCHANGED <<cur, pos>>

(* audio_element_input returns AEL_IO_DONE (upstream finished): with       *)
(* last_left > 0 the DONE-branch loop runs over the kept bytes; otherwise  *)
(* process returns AEL_IO_DONE.  Either way the run ends as finished,      *)
(* except after a short write, where process returns w_size and the        *)
(* element calls it again.                                                 *)
ProcessDone ==
  /\ phase = "run"
  /\ pos > Len(Stream)
  /\ IF last_left > 0
       THEN \E short \in ShortChoices :
            \E r \in {DoneLoop(lbuf, 1, last_left, <<>>, short)} :
              /\ out' = out \o r.outs
              /\ shorts' = IF r.res = "break" THEN shorts + 1 ELSE shorts
              /\ IF r.res = "done"
                   THEN /\ lbuf' = r.keep /\ last_left' = Len(r.keep)
                        /\ phase' = "done"
                   ELSE UNCHANGED <<lbuf, last_left, phase>>
       ELSE /\ phase' = "done"
            /\ UNCHANGED <<lbuf, last_left, out, shorts>>
  /\ UNCHANGED <<cur, pos>>

(* The buffer is full (last_left = in_len): the input is asked for 0 bytes *)
(* and returns 0, so process returns 0, which the element's loop (spec.md  *)
(* 4.1, as in PcmStream) takes as the end of the stream: the run finishes  *)
(* with the rest of the stream unread.                                     *)
ProcessNoRoom ==
  /\ phase = "run"
  /\ Space <= 0 /\ pos <= Len(Stream)
  /\ phase' = "done"
  /\ UNCHANGED <<lbuf, last_left, cur, pos, out, shorts>>

\* A stop request seen between process calls: AEL_IO_ABORT, the loop exits.
Stop ==
  /\ phase = "run"
  /\ Stops
  /\ phase' = "stopped"
  /\ UNCHANGED <<lbuf, last_left, cur, pos, out, shorts>>

(* The run ends: mp3_decoder_close clears is_open and resets byte_pos, and *)
(* the next run opens the decoder on the next stream with mp3_decoder_open *)
(* (is_open was cleared, so it succeeds).  Neither touches last_left or    *)
(* in_buffer.                                                              *)
CloseOpen ==
  /\ phase # "run"
  /\ cur < Len(Streams)
  /\ cur' = cur + 1
  /\ pos' = 1
  /\ phase' = "run"
  /\ UNCHANGED <<lbuf, last_left, out, shorts>>

-----------------------------------------------------------------------------
\* The first run: the element opened the decoder; last_left is 0.
Init ==
  /\ lbuf = <<>> /\ last_left = 0
  /\ cur = 1 /\ pos = 1
  /\ phase = "run"
  /\ out = <<>>
  /\ shorts = 0

\* The last run has ended.
Finished ==
  /\ phase # "run" /\ cur = Len(Streams)
  /\ UNCHANGED vars

Next ==
  \/ ProcessData \/ ProcessTimeout \/ ProcessDone \/ ProcessNoRoom
  \/ Stop \/ CloseOpen
  \/ Finished

(* The element thread keeps calling process while it runs, and the         *)
(* upstream element keeps delivering until it reports done.                *)
Fairness == WF_vars(ProcessData) /\ WF_vars(ProcessDone)

Spec == Init /\ [][Next]_vars /\ Fairness

-----------------------------------------------------------------------------
(* Properties.                                                             *)

(* Every frame written during a run is a whole frame of that run's stream, *)
(* and frames come out in stream order without repeats: the bytes kept in  *)
(* in_buffer and counted by last_left across process calls are exactly    *)
(* the undecoded tail of the current stream.                               *)
FramesInOrder ==
  /\ \A i \in DOMAIN out : out[i].ok
  /\ \A i, j \in DOMAIN out :
       (i < j /\ out[i].s = out[j].s) => out[i].f < out[j].f

(* A run that ends as finished (upstream done, the DONE branch run over   *)
(* the kept bytes) has written every frame of its stream: the last frame,  *)
(* which the data loop holds back until framesize bytes follow its sync,   *)
(* is decoded by the DONE branch, and no frame is dropped by a memmove.    *)
StreamComplete ==
  phase = "done" =>
    \A i \in DOMAIN Stream :
      Stream[i].s = cur =>
        \E j \in DOMAIN out : out[j].s = cur /\ out[j].f = Stream[i].f /\ out[j].ok

(* Each run of the decoder ends: the element reaches finished, error or    *)
(* stopped rather than calling process forever without progress.           *)
DecoderProgress == [](phase = "run" => <>(phase # "run"))

=============================================================================
