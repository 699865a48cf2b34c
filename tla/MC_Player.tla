------------------------------ MODULE MC_Player ------------------------------
(* Model-checking instances of Player: the answers a server may give.      *)
EXTENDS Player

A(s, l) == [status |-> s, len |-> l]
\* A response header without a Content-Length line.
NoLength(s) == [status |-> s]

(* A server that answers 200 with the body, or 404, or 200 with length 0, *)
(* or 200 without a Content-Length line.                                   *)
MC_Answers == {A(200, BodyLen), A(404, BodyLen), A(200, 0), NoLength(200)}

(* Stack garbage in an unset field of parse_header: zero (rejected), or     *)
(* large (accepted).  A negative one leads to the stale header of          *)
(* HttpSource_stale_header, which this run leaves out.                     *)
MC_Uninit == {0, 200}
====
