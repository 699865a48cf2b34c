------------------------------ MODULE HttpSource ------------------------------
(***************************************************************************)
(* The HTTP reader element: the callbacks of http_stream.c over the        *)
(* client of esp_http_client.c, driven by the element run loop.            *)
(*                                                                         *)
(* The run loop (audio_element.c) is not in the repository; it is modelled *)
(* from spec.md section 4.1: open; on failure report Error and park        *)
(* without close; otherwise loop { stop check, input, process, output }    *)
(* and on exit close and report.  The application may run the element     *)
(* again after it parked, and may request a stop at any time.              *)
(*                                                                         *)
(* The server answers each connection with a response header and the      *)
(* body.  The socket is a sequence of tokens: the header, then the body    *)
(* bytes 1..BodyLen.  The client keeps the parsed header in                *)
(* response->head_buffer and reads a header from the socket only while     *)
(* head_buffer is NULL.                                                    *)
(***************************************************************************)
EXTENDS Integers, Sequences

CONSTANTS
  Answers,     \* the response headers the server may send: records whose
               \* fields are the lines present (status, len)
  Uninit,      \* the values an uninitialized int of parse_header may hold
  BodyLen,     \* body bytes the server sends after the header
  ReadMax,     \* the len of one read (the element's buffer)
  ConnectFails,\* socket() or connect() may fail
  ReadErrors,  \* read() on the socket may return -1
  MaxRuns      \* runs of the element the application starts

ASSUME /\ BodyLen \in Nat /\ ReadMax \in Nat \ {0} /\ MaxRuns \in Nat
       /\ ConnectFails \in BOOLEAN /\ ReadErrors \in BOOLEAN

VARIABLES
  ephase,      \* element thread: "parked", "opening", "input", "output", "exited"
  stopping,    \* a stop was requested in this run
  runs,        \* runs started
  is_open,     \* http->is_open
  client,      \* http->client is not NULL
  head,        \* client->response->head_buffer, parsed, or NoHead
  sock,        \* tokens not yet read from the client socket
  rlen,        \* the result of the last _http_read, for the process call
  buf,         \* the bytes it read into in_buffer
  byte_pos,    \* info.byte_pos
  total_bytes, \* info.total_bytes
  out,         \* tokens written to the output in this run
  report       \* the last terminal state reported

vars == <<ephase, stopping, runs, is_open, client, head, sock, rlen, buf,
          byte_pos, total_bytes, out, report>>

\* The header bytes; the body bytes are 1..BodyLen.
Hdr == 0
Body == [i \in 1..BodyLen |-> i]
NoHead == [status |-> 0, len |-> 0]
\* The bytes on a new connection.
Response == <<Hdr>> \o Body

TypeOK ==
  /\ ephase \in {"parked", "opening", "input", "output", "exited"}
  /\ stopping \in BOOLEAN
  /\ runs \in 0..MaxRuns
  /\ is_open \in BOOLEAN /\ client \in BOOLEAN
  /\ head \in [status : Int, len : Int]
  /\ sock \in Seq({Hdr} \cup 1..BodyLen)
  /\ rlen \in -1..ReadMax /\ buf \in Seq({Hdr} \cup 1..BodyLen)
  /\ byte_pos \in Int /\ total_bytes \in Int
  /\ out \in Seq({Hdr} \cup 1..BodyLen)
  /\ report \in {"none", "finished", "stopped", "error"}
  /\ is_open => client

-----------------------------------------------------------------------------
\* Fault: is_open is not cleared on close.
HttpCloseKeepsOpen ==
  /\ client' = FALSE /\ head' = NoHead /\ sock' = <<>>
  /\ UNCHANGED is_open

\* Fault: the client is closed but not freed and set to NULL.
HttpCloseKeepsClient ==
  /\ UNCHANGED <<client, head>> /\ sock' = <<>>
  /\ is_open' = FALSE

\* esp_http_client_close: close(client_socket).
ClientClose == sock' = <<>>

\* esp_http_client_cleanup: frees the client; its head_buffer is leaked.
ClientCleanup == client' = FALSE /\ head' = NoHead

(* _http_close: close and clean up the client if there is one, set        *)
(* http->client = NULL and is_open = false.  byte_pos is left as it is.    *)
HttpClose ==
  /\ ClientClose /\ ClientCleanup
  /\ is_open' = FALSE

\* Run-loop exit: close, report the final state, park.
ExitRun(r) ==
  /\ HttpClose
  /\ report' = r
  /\ ephase' = "parked"

(* audio_pipeline_run: the application starts a run of the parked element *)
Run ==
  /\ ephase = "parked"
  /\ runs < MaxRuns
  /\ ephase' = "opening"
  /\ runs' = runs + 1
  /\ stopping' = FALSE
  /\ out' = <<>>
  /\ UNCHANGED <<is_open, client, head, sock, rlen, buf, byte_pos,
                 total_bytes, report>>

(* audio_element_stop: the stop flag, seen by the loop and by             *)
(* _http_process's audio_element_is_stopping.                              *)
Stop ==
  /\ ephase \in {"opening", "input", "output"}
  /\ ~stopping
  /\ stopping' = TRUE
  /\ UNCHANGED <<ephase, runs, is_open, client, head, sock, rlen, buf,
                 byte_pos, total_bytes, out, report>>
-----------------------------------------------------------------------------
(* parse_header: resp is not initialized; each sscanf fills a field only  *)
(* if its line ("HTTP/", "Content-Length:") is in the header, so a field   *)
(* whose line is missing keeps whatever the stack held.                    *)
ParseHeader(a) ==
  LET Field(f, g) == IF f \in DOMAIN a THEN a[f] ELSE g
  IN {[status |-> Field("status", g1), len |-> Field("len", g2)] :
        g1 \in Uninit, g2 \in Uninit}

\* esp_http_client_open rejects the header it has just read.
HeaderRejected(a) == a.status # 200 \/ a.len <= 0

\* _http_open accepts the status the client reports.
StatusAccepted(h) == h.status \in {200, 206}

(* esp_http_client_init, called by _http_open while http->client is NULL: *)
(* a new client, whose response->head_buffer is NULL.                      *)
ClientHead == IF client THEN head ELSE NoHead

(* esp_http_client_connect: socket() or connect() failing calls exit(-1). *)
ConnectFail ==
  /\ ConnectFails
  /\ ephase' = "exited"

(* esp_http_client_open on a new connection, for a client holding header  *)
(* h0 and a server answering a: the request is written; only while         *)
(* head_buffer is NULL is the header read off the socket (byte by byte up  *)
(* to the blank line) and parsed, failing on a status other than 200 or a  *)
(* length <= 0.  The result: success, the header kept, the unread bytes.   *)
ClientOpen(h0, a) ==
  LET fresh == h0 = NoHead
  IN [ok   |-> ~(fresh /\ HeaderRejected(a)),
      head |-> IF fresh THEN a ELSE h0,
      sock |-> IF fresh THEN Body ELSE Response]

(* The element thread opens: _http_open creates the client if http->client *)
(* is NULL and opens it; then it checks the status it finds in the client  *)
(* for 200 or 206.  A failed open is reported as Error and the thread      *)
(* parks without calling close.  The "already opened" and "uri = NULL"     *)
(* failures of _http_open never happen here: close clears is_open, a       *)
(* failed open never sets it, and the application sets the uri before the  *)
(* first run.                                                              *)
Open ==
  /\ ephase = "opening"
  /\ \/ /\ ConnectFail
        /\ UNCHANGED <<is_open, client, head, sock, total_bytes, report>>
     \/ \E a \in Answers : \E p \in ParseHeader(a) :
          LET c == ClientOpen(ClientHead, p)
          IN /\ client' = TRUE /\ head' = c.head /\ sock' = c.sock
             /\ IF c.ok /\ StatusAccepted(c.head)
                  THEN /\ is_open' = TRUE /\ total_bytes' = c.head.len
                       /\ ephase' = "input"
                       /\ UNCHANGED report
                  ELSE /\ ephase' = "parked" /\ report' = "error"
                       /\ UNCHANGED <<is_open, total_bytes>>
  /\ UNCHANGED <<stopping, runs, rlen, buf, byte_pos, out>>

(* esp_http_client_read: 0 without a header or with content length 0,     *)
(* else read() on the socket: up to len bytes, 0 at end of stream, or -1.  *)
ReadResults ==
  IF head = NoHead \/ head.len = 0 THEN {0}
  ELSE (IF sock = <<>> THEN {0} ELSE 1..(IF Len(sock) < ReadMax THEN Len(sock)
                                                                 ELSE ReadMax))
       \cup (IF ReadErrors THEN {-1} ELSE {})

(* The loop top: a pending stop exits the loop; otherwise _http_process    *)
(* calls audio_element_input, which is _http_read: read from the client    *)
(* and audio_element_update_byte_pos(self, rlen).                          *)
Input ==
  /\ ephase = "input"
  /\ IF stopping
       THEN /\ ExitRun("stopped")
            /\ UNCHANGED <<rlen, buf, byte_pos>>
       ELSE \E r \in ReadResults :
              /\ rlen' = r
              /\ buf' = IF r > 0 THEN SubSeq(sock, 1, r) ELSE <<>>
              /\ sock' = IF r > 0 THEN SubSeq(sock, r + 1, Len(sock)) ELSE sock
              /\ byte_pos' = byte_pos + r
              /\ ephase' = "output"
              /\ UNCHANGED <<is_open, client, head, report>>
  /\ UNCHANGED <<stopping, runs, total_bytes, out>>

(* The rest of _http_process and the loop: AEL_IO_ABORT if stopping,       *)
(* else audio_element_output of r_size > 0 bytes; 0 is the end of the     *)
(* stream (Finished) and -1 a failure (Error), both leaving the loop.      *)
Output ==
  /\ ephase = "output"
  /\ CASE stopping  -> ExitRun("stopped") /\ UNCHANGED out
       [] rlen > 0   -> /\ out' = out \o buf
                       /\ ephase' = "input"
                       /\ UNCHANGED <<is_open, client, head, sock, report>>
       [] rlen = 0   -> ExitRun("finished") /\ UNCHANGED out
       [] rlen = -1  -> ExitRun("error") /\ UNCHANGED out
  /\ UNCHANGED <<stopping, runs, rlen, buf, byte_pos, total_bytes>>

-----------------------------------------------------------------------------
\* http_stream_init: no client, not open, no run yet.
Init ==
  /\ ephase = "parked" /\ stopping = FALSE /\ runs = 0
  /\ is_open = FALSE /\ client = FALSE /\ head = NoHead /\ sock = <<>>
  /\ rlen = 0 /\ buf = <<>>
  /\ byte_pos = 0 /\ total_bytes = 0
  /\ out = <<>> /\ report = "none"

\* The application starts no more runs, or the process has exited.
Terminated ==
  /\ ephase = "exited" \/ (ephase = "parked" /\ runs = MaxRuns)
  /\ UNCHANGED vars

Next == Run \/ Stop \/ Open \/ Input \/ Output \/ Terminated

\* The element thread runs its loop; the application need not run or stop.
Fairness == WF_vars(Open) /\ WF_vars(Input) /\ WF_vars(Output)

Spec == Init /\ [][Next]_vars /\ Fairness

-----------------------------------------------------------------------------
(* Properties.                                                             *)

(* What a run writes downstream is the response body from its first byte, *)
(* in order: never the response header, never a byte twice.  It depends   *)
(* on esp_http_client_open reading the header off every new connection,    *)
(* which it does only while head_buffer is NULL.                           *)
BodyInOrder == \E k \in 0..BodyLen : out = SubSeq(Body, 1, k)

====
