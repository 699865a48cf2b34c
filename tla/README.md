# TLA+ models of the libaudio pipeline engine

This directory holds TLA+ models of the audio library in `src/libaudio`,
together with TLC configurations that check them. Each module is written from
the C source. `spec.md` describes the engine's element run loop and pipeline
(`audio_element.c`, `audio_pipeline.c`), but those files are not in the
repository. Their modules are therefore modelled from `spec.md` and marked
`spec_modelled` in `PROJECT.json`.

## 1. Inventory of the system

| Part | Source | State | Operations | Interacts with |
|---|---|---|---|---|
| Message-queue wrapper | `audio_sal/audio_queue.c` | kernel POSIX mq objects, each reached through a descriptor | create (`mq_open` with `O_CREAT`), delete (close and unlink), send and recv (wait 0 means `mq_send`/`mq_receive`; otherwise the timed variants, with ticks added to `tv_sec`), message_available (`mq_getattr`) | event interface |
| Event interface | `audio_pipeline/audio_event_iface.c` | `internal_queue`, `external_queue`, the two sizes, `wait_time` | init, destroy, set_listener, remove_listener, sendout, cmd, waiting_cmd_msg, discard, listen/read | queue wrapper, elements, pipeline, application |
| Event group | `audio_sal/event_groups.c` | 8 bits, a mutex, one condition variable per bit | create, wait_bits (single bit only; one timed wait), set_bits (signals one waiter per bit), clear_bits, delete | element run loop (state rendezvous) |
| Mutex | `audio_sal/audio_mutex.c` | pthread mutex | create, lock (timed, with the deadline `now + portMAX_DELAY`), unlock, destroy | element and pipeline locks |
| Thread wrapper | `audio_sal/audio_thread.c` | pthread | create (joinable), delete (`pthread_cancel`) | element run loop |
| Element run loop, pipeline | not in `src/` (see `spec.md` §4.1 and §4.2) | element state, ports, task; pipeline elements, chain, listener | open, process, close, run, stop, wait_for_stop, terminate, link, unlink, register | all of the above |
| HTTP stream | `audio_stream/http_stream.c` | `is_open`, client, `byte_pos`, `total_bytes` | open, read, process, close, destroy | HTTP client, element |
| HTTP client | `idf_components/esp_http_client/esp_http_client.c` | socket, response `head_buffer`, status, `content_length` | init, open (connect, send the request, read the header once), read, close, cleanup | HTTP stream |
| PCM stream | `audio_stream/pcm_stream.c` | ALSA handle, `is_open` | open, read, write, process, close (resets `byte_pos` unless paused) | element |
| MP3 decoder | `eswin_codec/lib/codec/mp3_decode.c` | `static last_left` (shared by every instance), the input buffer | init, open, process (sync search, decode, leftover), close | element |
| WAV header | `eswin_codec/lib/processing/wav_head.c` | header struct | init, size (uint32 arithmetic) | PCM path |
| Tests | `src/audio_test/*.c` | none | the call sequences that drive the pipeline | everything |

### What makes these parts hard

- **Event interface.** Several threads touch the same queues. The control thread
  (the pipeline or the test) binds and unbinds element channels and destroys
  listeners. Element threads call `sendout`. The application calls `listen`.
  The `discard` loop first counts the queue and then receives with wait 0.
  Wait 0 is a blocking `mq_receive` on the queues the tests open (there is no
  `O_NONBLOCK`). Descriptor numbers are reused by `mq_open`, and `sendout`
  loads the descriptor before it sends, so an element that loaded a
  listener's number before remove_listener writes into whatever queue is
  opened next with that number.
- **Event group.** `xEventGroupSetBits` calls `pthread_cond_signal`, which wakes
  one waiter. The header promises, for `clearOnExit = FALSE`, that every waiter
  returns. A waiter does a single `pthread_cond_timedwait` with no predicate
  loop.
- **MP3 decoder.** `last_left` is a function-static variable. It outlives the
  instance and the run cycle. It can reach `in_len`, after which a call
  reads 0 bytes and the run ends as finished with the stream unplayed.
- **HTTP client.** The header is read only if `head_buffer` is NULL, so the
  header of a failed open is reused by the next open. A connect failure
  calls `exit(-1)`.
- **Numeric edges.** The ticks-as-seconds conversion of the timed queue and
  event-group calls. A read error of -1 is added to `byte_pos`.

`PROJECT.json` lists each of these under "hazards", at the line where it bites.

## 2. Plan

Most important behaviour first:

1. **EventIface** (done): the event interface and queue wrapper, with three
   threads: status publishing, listen, and the command path (cmd,
   waiting_cmd_msg).
2. **EventGroup** (done): wait, set and clear with two waiters and one
   setter. Properties: a set bit is taken by at most one clear-on-exit
   waiter, the group implements the header's contract, and (with unbounded
   waits) a waiter blocked on a set bit returns.
3. **Element** (partly done): the run loop is spec-modelled inside
   HttpSource and PcmStream (open, the loop, close and one report per run,
   retries after a failed open), and Player connects the HTTP reader to the
   PCM writer through a bounded ring buffer. Still planned: the elements'
   status reports published to EventIface.
4. **Pipeline** (partly done: run and stop of a two-element pipeline in
   Player; still planned: register, link, unlink and terminate), driven by the sequences of
   `audio_pipeline_test.c` and `http_stream_test.c`. Properties: no element
   holds a dangling listener after teardown, and run after unlink (the test
   asserts that it succeeds, while `spec.md` §8 says it must fail).
5. **Mp3Decoder** (done): the buffer algorithm of `mp3_decoder_process` as
   recursive operators and one action per branch, with the static
   `last_left` shared by the runs of a playlist. Properties: frames come out
   whole and in order, every run ends, and a run that ends as finished
   wrote all frames.
6. **HttpSource** (done): the HTTP reader and its client under the run loop,
   with retries after failed opens and stale headers.
7. The `wav_head_size` wrap and the `mutex_lock` deadline are left out:
   neither function has a caller in the repository (see section 4).

## 3. Modules and runs

### EventIface (`EventIface.tla`, `MC_EventIface.tla`)

**State.** `fd` is the descriptor table: each descriptor maps to the queue
object it names. `kq` holds the contents of each queue object. Per listener,
`lstate` and `iq` (`internal_queue`). Per element, `eq` (`external_queue`).
`bound` is a ghost variable: the listener the element was bound to. There is a
program counter for each element thread (`epc`: `"send"` between loading
`external_queue` and calling `mq_send`, `"blocked"` inside `mq_send`; `eblk`
holds the loaded descriptor and the message), for the application thread
(`apc`/`ablk`, blocked in `mq_receive` or in a timed receive), and for the
control thread (`cpc`: the call in progress and the phase of its discard loop,
or `"cmd"` while its command send is blocked). `discarded` and `received`
record where messages ended. `cmdsent` counts the control thread's
`audio_event_iface_cmd` calls, and `cwait` holds each listener's `wait_time`.
A command is a message with source `NoE`; it goes into the same internal queue
that `listen` reads.

Every queue is blocking: every caller in the repository opens its queues
`O_RDWR|O_CREAT`, so a zero wait is a plain `mq_send` or `mq_receive`, which
blocks on a full or empty queue.

**Actions.**

| Action | Code |
|---|---|
| `IfaceInit` | `audio_event_iface_init`, with `mq_open` giving the lowest free descriptor or failing |
| `SetListener`, `RemoveListener`, `Destroy` | the argument checks and the start of the discard loop; `Destroy` checks nothing else |
| `DiscardCheck` | `audio_queue_message_available` |
| `DiscardRecv` | the zero-wait `audio_queue_recv` (blocking) |
| `Finish` | the assignment or `audio_queue_delete` after the discard loop |
| `SendoutLoad` | `audio_event_iface_sendout` up to the load of `evt->external_queue` (returns if it is 0) |
| `SendoutSend`, `SendoutWake` | its `mq_send` on the loaded descriptor, which blocks while the queue is full |
| `Listen`, `ListenWake`, `ListenTimeout` | `audio_event_iface_listen` → `read` → `mq_receive` or `mq_timedreceive` |
| `Cmd`, `CmdWake` | `audio_event_iface_cmd` → `mq_send` on the owner's internal queue, blocking while it is full |
| `SetCmdWaitingTimeout` | `audio_event_iface_set_cmd_waiting_timeout` |
| `WaitingCmdMsg` | `audio_event_iface_waiting_cmd_msg`: the receive `listen` does, with `evt->wait_time` |

`QueueDelete` (in `Finish`) includes destroy's `set_cmd_waiting_timeout(evt,
0)`. `on_cmd` has no implementation in the repository. Its effect is
abstracted to taking the message.

Nothing orders the element thread's use of `external_queue` against the
control thread: `sendout` loads the descriptor and then calls `mq_send`, and a
whole `remove_listener`, `destroy` and a new `init` can run in between. The
model splits the two steps for that reason. (The test at line 195 and the load
at line 197 are one load, as a compiler may merge them.)

The constant `RemoveFirst` restricts the caller, not the code: when it is
TRUE, the control thread destroys a listener only once no element is bound to
it, as `http_stream_test.c` does (remove_listener, then destroy).

**Bounds.** The model uses two elements, two listeners, one descriptor slot
and queue capacity 1. One slot forces the second listener to reuse the first
one's descriptor. Capacity 1 makes queues fill, so sends and commands block.
One status message per element and one command (`MaxSend = 1`, `MaxCmd = 1`)
give three senders into one queue: enough for cross-sender ordering, a
publish after a rebind and a command racing status messages.

**Fairness.** Weak fairness is assumed for the control thread's steps inside a
call (discard and finish) and for a blocked command send: the test thread runs
those calls to completion when it is scheduled, and the kernel completes a
blocked `mq_send` once there is room. A receive the application thread is
blocked in is weakly fair (`ListenWake \/ ListenTimeout`), and so is an
element's send once it has loaded the descriptor. No fairness is assumed for a
call a thread has not yet made.

The runs do not check deadlock: a `waiting_cmd_msg` with wait 0 on a listener
that is then destroyed blocks forever, and the model really reaches states
where every thread waits.

| Run | Checks | Result |
|---|---|---|
| `eventiface_block` | `TypeOK` with the caller free to destroy a bound listener | pass (1,510,052 states) |
| `eventiface_stale_desc` | `MessagesReachBoundListener`, caller removes before destroying | violated |
| `eventiface_discard_hang` | `DiscardTerminates` | violated |

- `MessagesReachBoundListener` states that every message in a queue was
  addressed to that queue's listener: the element was bound to it when it
  loaded the descriptor. TLC finds it violated in 8 steps even though the
  caller removes before destroying:
  1. init l1; set_listener binds e1 to l1; remove_listener begins;
  2. e1's `sendout` loads descriptor 1;
  3. remove_listener finishes and clears e1's external queue; destroy l1;
  4. init l2 gets descriptor 1 from `mq_open`;
  5. e1's `mq_send` on descriptor 1 puts its status for l1 into l2's queue.
- `DiscardTerminates` states that every set_listener, remove_listener or
  destroy finishes its discard loop. TLC finds it violated: the loop counts a
  command that `audio_event_iface_cmd` queued, the application's `listen`
  takes it, and the zero-wait `mq_receive` of the discard then blocks forever.

Both are findings in `PROJECT.json`.

### EventGroup (`EventGroup.tla`, `MC_EventGroup.tla`, abstract `EventGroupContract.tla`)

`EventGroupContract` is what the comments of `event_groups.h` promise for
waits on one bit. It has no mutex, condition variables or signals:
- a wait whose bit is set returns at once, and otherwise blocks;
- a blocked wait returns when its bit is set (`Met`), with the value before
  its clear on exit;
- a wait with a finite block time may instead expire (`Expire`), with its
  bit not set and nothing cleared;
- `vEventGroupDelete` unblocks the blocked tasks, which obtain 0;
- weak fairness on `Met`: a wait whose bit stays set returns.

**State.** `bits` is `uxEventBits` and `alive` is false after
`vEventGroupDelete`. Each waiter thread has a program counter `pc`: `idle`,
`blocked` in `pthread_cond_timedwait`, or `woken` (signalled or timed out, but
not yet holding the mutex again). It also has the bit and `clearOnExit` of the
call in progress (`arg`), the last returned value (`ret`) and a call count. The
ghost counters `raised` and `consumed` count, per bit, the set calls that found
the bit clear and the clear-on-exit returns that found it set.

**Actions.** Every call runs under the group mutex, so each call is one step.
The exception is the wait, which releases the mutex while it sleeps.

| Action | Code |
|---|---|
| `WaitBits` | `xEventGroupWaitBits`: the immediate return when the bit is set, or the start of the timed wait |
| `Timeout` | the deadline of the timed wait passes |
| `WaitReturn` | the woken waiter retakes the mutex and runs the tail of the call without re-testing the bit |
| `SetBits` | `xEventGroupSetBits`: `|=`, then one `pthread_cond_signal` per bit, which wakes at most one sleeper |
| `ClearBits` | `xEventGroupClearBits` |
| `Delete` | `vEventGroupDelete`, allowed only when no thread is inside a wait |

**Bounds.** The model uses two waiters, bits {0, 1}, two calls per waiter and
three set or clear calls. Two waiters on one bit are the smallest case where
signal-one differs from broadcast. Three setter calls allow a set, a clear and
a set between one waiter's wake-up and its return.

**Fairness.** Weak fairness is assumed for `WaitReturn`, because the setter
releases the mutex. It is also assumed for `Timeout` when the wait is finite,
because the clock advances.

| Run | Checks | Result |
|---|---|---|
| `eventgroup_timed` | `TypeOK`, `ConsumeOnce`, `ContractSpec` with finite waits | pass (217,854 states) |
| `eventgroup_forever` | `BlockedWaiterReturns` with unbounded waits | violated |
| `eventgroup_unbounded_return` | `ContractSpec` with unbounded waits | violated |

- `ConsumeOnce` states that a bit set once is returned to at most one
  clear-on-exit waiter. It needs the read and the clear of the return path to
  be in one mutex hold, on both the immediate branch and the woken branch.
- `BlockedWaiterReturns` fails for unbounded waits. Two threads wait on bit 0.
  One `xEventGroupSetBits` signals one of them. The other stays blocked with
  its bit set. `event_groups.h` says that setting the bits unblocks the
  waiting tasks. This is the first event group finding in `PROJECT.json`.
- `ContractSpec` states that the group implements `EventGroupContract`
  under a mapping in which a `woken` thread still counts as blocked. With
  finite waits it holds: a woken waiter that finds its bit gone returns as a
  timeout would. With unbounded waits it fails in 5 states. w1 blocks on
  bit 0. A set signals w1. w2 calls the wait with clear on exit, finds the
  bit and clears it. w1 retakes the mutex and returns without its bit,
  although its wait cannot expire. This is the second event group finding.

### Mp3Decoder (`Mp3Decoder.tla`, `MC_Mp3Decoder.tla`)

**State.** `lbuf` holds the bytes kept at the start of `in_buffer`, and
`last_left` is the function-static count of them. `cur` and `pos` are the
stream being played and the next byte upstream will deliver. `phase` is how the
current run of the element ended (`run` while it runs). `out` holds the frames
written, and `shorts` counts the short writes so far.

Bytes are tokens. A frame is a header token followed by body tokens. `Junk`
stands for tag bytes and zero fill. `FalseSync` is a sync word that
`MP3Decode` rejects. `LoneFF` is the first byte of a header left on its own.
`MP3Decode` is a library outside the repository. It is modelled by what it does
to `readPtr` and `left`: on a real header with a whole frame, it consumes the
frame and produces it. The frame is garbled if its body is not the header's
own.

**Actions.** Each action is one branch of `mp3_decoder_process`, with its loop
evaluated by a recursive operator:

| Action / operator | Code |
|---|---|
| `ProcessData`, `DataLoop`, `Keep` | `r_size > 0`: the sync search, decode and output loop, the `memmove` and `last_left = left` when no whole frame follows a sync, `ESP_CODEC_ERR_FAIL` on a decode error, and the `break` on a short write |
| `ProcessTimeout` | `AEL_IO_TIMEOUT`: `memset(in_buffer, 0, in_len)` with `last_left` kept |
| `ProcessDone`, `DoneLoop`, `DoneKeep` | `AEL_IO_DONE` with bytes kept: the loop without an `offset < 0` test, whose one-byte step back is counted in `last_left` |
| `ProcessNoRoom` | a read of 0 bytes when `last_left = in_len`: process returns 0, which the element's loop takes as the end of the stream (`phase` becomes `done`) |
| `Stop` | `AEL_IO_ABORT`, returned as it is |
| `CloseOpen` | `mp3_decoder_close` and then `mp3_decoder_open` for the next stream; neither touches `last_left` |

**Bounds.** The buffer holds about two and a half frames, and a frame needs
one byte after it before it is decoded (`framesize`), as in the code. The
stream run uses 2-token frames and a 6-token buffer. The progress run uses
4-token frames and a 12-token buffer, so that reads of every length split
frames in every place. The playlists have four streams: one starting with a
frame, two after a short tag, and one whose tag holds a false sync.

**Fairness.** Weak fairness is assumed for `ProcessData` and `ProcessDone`.
The element thread calls process in a loop while it runs, and upstream keeps
delivering until it reports done. There is no fairness for timeouts, stops or
short writes.

| Run | Checks | Result |
|---|---|---|
| `mp3_stream` | `TypeOK`, `FramesInOrder` on one stream with timeouts and stops | pass |
| `mp3_progress` | `StreamComplete`, `DecoderProgress` over a playlist | pass |
| `mp3_restart` | `FramesInOrder` over a playlist with stops | violated |
| `mp3_long_tag` | `StreamComplete` with a four-token tag before a stream | violated |

- `FramesInOrder` states that every frame written is a whole frame of the
  stream being played, in order and without repeats. It fails across runs. A
  stop in the middle of a frame leaves its header in `in_buffer` and in the
  static `last_left`. The next run appends its own bytes and decodes a frame
  whose header is from the old stream and whose body is from the new one.
- `StreamComplete` states that a run that ends as finished has written every
  frame of its stream, the last one through the DONE branch. It fails when a
  tag is longer than `in_len - framesize`. In `mp3_long_tag` the DONE
  branch of the first stream steps back and leaves a lone 0xFF; the second
  stream's four-byte tag and its first header then fill the six-byte buffer.
  The junk before the sync is kept by the `memmove` instead of being
  skipped, the next call asks upstream for 0 bytes, process returns 0, and
  the run ends as finished with none of the stream's frames written. This is
  a finding in `PROJECT.json`. Timeouts in the middle of a frame reach the
  same state through zero fill, so the progress run has no timeouts, stops
  or short writes.
- `DecoderProgress` states that every run ends, as finished or on a stop.

### HttpSource (`HttpSource.tla`, `MC_HttpSource.tla`)

This module composes three layers:

- the reader callbacks of `http_stream.c`;
- the client of `esp_http_client.c`;
- the element run loop that drives them.

The run loop is in `audio_element.c`, which is not in the repository, so
`Run`, `Stop` and `ExitRun` are modelled from `spec.md` §4.1 and marked
`spec_modelled`. After a failed open, the loop reports Error and parks without
calling close, as §4.1 step 1 says.

**State.**
- `ephase`: where the element thread is (`parked`, `opening`, `input`,
  `output`, or `exited` after `exit(-1)`).
- `stopping`: a stop was requested in this run.
- `is_open`: `http->is_open`.
- `client`: `http->client` is not NULL.
- `head`: the parsed `response->head_buffer`, or `NoHead`.
- `sock`: the unread bytes of the connection.
- `rlen` and `buf`: the last read's result and the bytes it read.
- `byte_pos` and `total_bytes`: the element info.
- `out`: the bytes written downstream in this run.
- `report`: the last terminal report.

A connection carries one header token (`Hdr`) followed by the body bytes
`1..BodyLen`. A response header in `Answers` is a record whose fields are the
lines it has (`status` for `HTTP/`, `len` for `Content-Length:`).
`ParseHeader` is `parse_header`: its result struct is not initialized, so a
field whose line is missing takes any value of `Uninit`, the stack garbage
the build may leave.

**Actions.**

| Action | Code |
|---|---|
| `Open` | `_http_open` with `esp_http_client_init` (`ClientHead`) and `esp_http_client_open` (`ClientOpen`): connect (or `exit(-1)`, `ConnectFail`), the header read only while `head_buffer` is NULL, parsed by `ParseHeader`, with its status and length checks (`HeaderRejected`), then `_http_open`'s own 200/206 check (`StatusAccepted`) |
| `Input` | the loop's stop check, then `_http_read` → `esp_http_client_read` and `audio_element_update_byte_pos` |
| `Output` | the rest of `_http_process` (abort if stopping, output if `r_size > 0`) and the loop's handling of 0 (Finished) and -1 (Error), with `_http_close` on exit (`ClientClose` then `ClientCleanup`, which frees the client and with it the parsed header) |
| `Run`, `Stop` | the application re-running the parked element and requesting a stop |

**Bounds.** The model uses a three-byte body read two bytes at a time, so
reads end both on and inside the body. The server's answers are small sets of
headers. The application starts at most two runs (`MaxRuns`), enough for a
failed open followed by a retry that meets the state it left.

**Fairness.** Weak fairness is assumed for the element thread's steps: the
thread runs its loop. There is no fairness for the application.

| Run | Checks | Result |
|---|---|---|
| `player_retry` (see Player) | `BodyInOrder` with the reader inside the pipeline | pass |
| `http_stale_header` | `BodyInOrder` against 206 and 200 without `Content-Length` | violated |

- `BodyInOrder` states that a run writes a prefix of the body: never header
  bytes, never a byte twice. It holds when every failed open is a clean
  rejection. A 404 makes every later open fail with the stale status, and a
  stale length 0 makes the run finish at once with nothing. It fails in the
  second run. An open fails because the client rejects a 206 (which
  `_http_open` accepts) or a missing `Content-Length` (parsed as an
  uninitialized value). The next open keeps the old `head_buffer`, skips the
  header read and accepts the old status. The new response's header is then
  read as audio. This is the finding in `PROJECT.json`. The run uses a
  header without `Content-Length` and garbage `{-1, 200}`.
- `ReadResults` assumes the server closes the connection after the body:
  `esp_http_client_read` ignores `content_length`, and the request asks for
  keep-alive, so on a server that keeps the connection open the run would
  not end. No property states that the reader's run ends, since that rests
  on this assumption about the server.

### Player (`PcmStream.tla`, `Player.tla`, `MC_Player.tla`)

`PcmStream` is the PCM writer element: the callbacks of `pcm_stream.c` for
an `AUDIO_STREAM_WRITER` under the same spec-modelled run loop. `Player`
instantiates `HttpSource` and `PcmStream` and connects them: the reader's
`audio_element_output` is a put on a ring buffer of `RbSize` bytes, and the
writer's `audio_element_input` is a get on it. The ring buffer and the
pipeline (`ringbuf.c`, `audio_pipeline.c`) are not in the repository; they
follow `spec.md` §4.2 and §6.

**State (writer).**
- `rb` and `rbdone`: the ring buffer's bytes and its done mark.
- `wphase`, `wstopping`: the writer thread and its stop flag.
- `w_open`: `pcm_stream->is_open`.
- `wlen`, `wbuf`: the last get's result and its bytes.
- `w_pos`: the writer's `info.byte_pos`.
- `played`: the bytes the device accepted in this run.
- `wreport`: the last terminal report.

**Actions.**

| Action | Code |
|---|---|
| `WOpen` | `_pcm_open`: a pcm that is not ready is closed and the open fails (Error, park without close); else `is_open` |
| `WInput` | the loop's stop check and `_pcm_process`'s `audio_element_input`: a get of 1..`InLen` bytes, or Done when the buffer is empty and done; an empty buffer that is not done is waited on |
| `WOutput` | the rest of `_pcm_process` with `_pcm_write` (`PcmWrite`): `pcm_bytes_to_frames` drops a partial frame, `byte_pos` grows by the bytes of the frames written, and 0 or a negative result ends the loop; `_pcm_close` (`PcmClose`) on exit clears `is_open` and resets `byte_pos` |
| `SOpen`, `SInput`, `SOutput` | the reader's steps; `SOutput` puts into the ring buffer (waiting for room) and marks it done when the reader finishes |
| `PRun`, `PStop` | `audio_pipeline_run` (both elements parked; the ring buffer keeps what a previous run left, as nothing in §4.2 resets it) and `audio_pipeline_stop` (the stop flag of every running element) |

**Bounds.** The reader's bounds are HttpSource's. The writer takes up to
three bytes per get and the device uses two-byte frames, so gets of one or
three bytes truncate a frame. The pcm may be not ready and writes may fail.
The ring buffer holds three bytes, the whole body. The application starts
at most two runs: with three, the kept ring buffer takes the state space to
1.35 million states.

**Fairness.** Weak fairness for the steps of both element threads, none for
the application.

The server answers 200, 404, 200 with length 0, or 200 without a
`Content-Length` line, with garbage 0 (rejected: a retry then finishes at
once, with nothing) or 200 (accepted, with `total_bytes` 200). A negative
garbage length leads to the stale header, which `http_stale_header` shows, so
it is left out here.

| Run | Checks | Result |
|---|---|---|
| `player_retry` | `PipelineTypeOK`, `BodyInOrder`, `WriterEndsAfterReader` | pass (110,323 states) |

- `WriterEndsAfterReader` states that once the reader has finished, the
  writer's run ends. It needs the reader's done mark and the get's Done.
- The ring buffer is not reset between runs. A stop leaves bytes in it, which
  the writer of the next run plays before the new body, and the done mark of
  a finished run stays, so the next run's writer may get Done at once and
  finish while the reader still sends. Whether the pipeline resets the
  buffer is decided in `audio_pipeline.c`, which is not in the repository, so
  the model follows §4.2, which has no reset. No property is stated over the
  bytes played, since it would describe the missing file rather than the
  code.
- Frame truncation: a get of fewer bytes than a frame writes 0 frames,
  `_pcm_process` returns 0 and the writer finishes early, with the rest of
  the stream unplayed (a hazard in `PROJECT.json`). No property asserts that
  every byte is played, since how many bytes a get returns is up to the ring
  buffer, which is not in the repository.
- With a ring buffer smaller than the body, a writer that has left its loop
  leaves the reader blocked on a full buffer until the application stops the
  pipeline; nothing stops it on an error, and the pcm test's loop waits only
  for STOPPED or FINISHED.

## 4. Not modelled

- Logging, formatting of queue names, and the contents of messages are not
  modelled. A message is its sender, a sequence number and the listener it
  was meant for.
- `audio_event_iface_set_msg_listener` always returns `ESP_FAIL`.
- `O_NONBLOCK` queues are not modelled: every caller in the repository opens
  its queues `O_RDWR|O_CREAT`. Nor is a refinement of the event interface to
  the channel of `spec.md` §4.3: the spec's publish and send_command never
  block, and the code's `mq_send` on a full queue does, so the code cannot
  implement it.
- The mutex wrapper (`audio_mutex.c`) is not modelled. No code in the
  repository calls it: `event_groups.c` uses `pthread_mutex_*` directly. Its
  deadline, `now + portMAX_DELAY` seconds, uses a constant defined in
  `portmacro.h`, which is not in the repository.
- The HTTP writer (`_http_write`, `esp_http_client_write`) is not modelled.
  No test or pipeline in the repository creates an HTTP element of type
  `AUDIO_STREAM_WRITER`.
- `_http_close` does not reset `byte_pos`, while `spec.md` §4.1 says close
  resets it. HttpSource models this as it is, but no property covers it (see
  the hazard in `PROJECT.json`).
- `wav_head.c` is not modelled. `wav_head_init` and `wav_head_size` have no
  caller in the repository (`pcm_stream.c` only includes the header). They
  are straight-line field assignments with no state to explore.
- Time is not modelled. The timed calls of `audio_queue.c` and
  `event_groups.c` add a tick count to `tv_sec` as seconds. In the model a
  timed wait may expire at any point, so the unit error is a hazard with no
  property.
- `audio_thread.c` (pthread create and cancel) is not modelled. It has no
  caller in the repository: the one call, in `audio_test_main.c`, is
  commented out, and `audio_element.c`, which starts the element threads, is
  not in the repository. The element threads are the processes of
  HttpSource and PcmStream.
- Socket and ALSA I/O are reduced to their outcomes. The PCM reader
  callback `_pcm_read` and the mixer volume calls of `pcm_stream.c` are not
  modelled: they are device I/O with no shared state.
- Codec arithmetic inside `MP3Decode` is outside the repository.
