---------------------------- MODULE MC_HttpSource ----------------------------
(* Model-checking instances of HttpSource: the answers a server may give.  *)
EXTENDS HttpSource

A(s, l) == [status |-> s, len |-> l]
\* A response header without a Content-Length line.
NoLength(s) == [status |-> s]

\* A server that answers 200 with the body, or 404, or 200 with length 0.
MC_Answers == {A(200, BodyLen), A(404, BodyLen), A(200, 0)}

\* A server that answers 206 (partial content), or 200 without a
\* Content-Length line, or 200 with the body.
MC_OddAnswers == {A(206, BodyLen), NoLength(200), A(200, BodyLen)}

\* Stack garbage in an unset field of parse_header: negative, or large.
MC_Uninit == {-1, 200}
====
