---------------------------- MODULE MC_Mp3Decoder ----------------------------
(* Model-checking instances of Mp3Decoder.  The decoder wants one token    *)
(* more than a frame after a sync (framesize = frame length + 1), and the  *)
(* buffer holds about two and a half frames, as the element's does.        *)
EXTENDS Mp3Decoder

H(s, f) == [s |-> s, f |-> f, k |-> "hdr"]
J == Junk

\* Frames 1..n of stream s, each a header and FrameLen - 1 body tokens.
Frames(s, n) ==
  [i \in 1..(n * FrameLen) |->
     [s |-> s, f |-> (i - 1) \div FrameLen + 1,
      k |-> IF (i - 1) % FrameLen = 0 THEN "hdr" ELSE "body"]]

\* One stream: a short tag and four frames.
MC_OneStream == << <<J>> \o Frames(1, 4) >>

\* Streams played one after the other: one without a tag, two after a short
\* tag, and one whose tag holds a false sync.
MC_Playlist ==
  << Frames(1, 6),
     <<J, J>> \o Frames(2, 5),
     <<J>> \o Frames(3, 5),
     <<J, FalseSync>> \o Frames(4, 2) >>

\* Two streams, the second after a tag of four junk bytes.
MC_LongTag == << Frames(1, 2), <<J, J, J, J>> \o Frames(2, 2) >>
=============================================================================
