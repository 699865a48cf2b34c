------------------------------ MODULE EventIface ------------------------------
(***************************************************************************)
(* The status path of the event interface (audio_event_iface.c) over the   *)
(* POSIX message-queue wrapper (audio_queue.c).                            *)
(*                                                                         *)
(* A listener channel owns an internal queue (an mq descriptor).  Element  *)
(* channels hold that descriptor as their external queue after             *)
(* set_listener and publish status messages into it with sendout.  The     *)
(* application thread reads the listener's queue with listen.  A control   *)
(* thread (the pipeline / test code) initialises, binds, unbinds and       *)
(* destroys listeners; set_listener, remove_listener and destroy each run  *)
(* the discard loop on the listener first.                                 *)
(*                                                                         *)
(* Descriptors are a small pool handed out lowest-free first, as the       *)
(* kernel does for mq descriptors, so a destroyed listener's descriptor is *)
(* reused by the next one created.  Listener queues are opened as every   *)
(* caller in the repository opens them, O_RDWR | O_CREAT without          *)
(* O_NONBLOCK: audio_queue_send/recv with wait_time 0 call mq_send and     *)
(* mq_receive, which block on a full or empty queue.                       *)
(*                                                                         *)
(* Nothing synchronizes the element thread's use of evt->external_queue   *)
(* with the control thread: sendout loads the descriptor and then enters   *)
(* mq_send, and the control thread may remove, destroy and re-create a    *)
(* listener in between.                                                    *)
(***************************************************************************)
EXTENDS Integers, Sequences, FiniteSets

CONSTANTS
  Els,        \* element channels (each with its own element thread)
  Listeners,  \* listener channels the control thread may create
  Desc,       \* mq descriptor numbers available, a finite set of naturals > 0
  Cap,        \* internal_queue_size of a listener (mq_maxmsg)
  ExtSize,    \* external_queue_size of an element channel's config
  MaxSend,    \* number of status messages each element thread publishes
  MaxCmd,     \* number of commands the control thread sends
  RemoveFirst, \* the caller removes every element from a listener before
              \* destroying it, as http_stream_test.c does
  NoL, NoE    \* "no listener" / "no element"

ASSUME /\ Desc \subseteq Nat \ {0} /\ Desc # {}
       /\ Cap \in Nat \ {0} /\ ExtSize \in Nat /\ MaxSend \in Nat /\ MaxCmd \in Nat
       /\ RemoveFirst \in BOOLEAN

VARIABLES
  fd,         \* descriptor table: descriptor -> queue object (named after its listener) or NoL
  kq,         \* queue object contents, per listener name
  lstate,     \* lifecycle of each listener channel struct
  iq,         \* evt->internal_queue of each listener (0 = none)
  eq,         \* evt->external_queue of each element channel (0 = none)
  bound,      \* ghost: the listener each element was last bound to by set_listener
  sent,       \* number of sendout calls each element thread has made
  epc,        \* element thread: "run", "send" between load and mq_send, or
              \* "blocked" inside mq_send
  eblk,       \* the descriptor loaded, the queue object of a blocked
              \* mq_send, and the message of the sendout in progress
  apc,        \* application thread: "idle", "blocked" in mq_receive, or "timed"
  ablk,       \* the queue object the application thread waits on
  cpc,        \* control thread: the operation in progress and its discard phase
  discarded,  \* messages dropped by discard loops
  received,   \* messages returned to the application by listen or waiting_cmd_msg
  cmdsent,    \* number of audio_event_iface_cmd calls the control thread has made
  cwait       \* evt->wait_time of each listener (set_cmd_waiting_timeout)

cmdv == <<cmdsent, cwait>>
vars == <<fd, kq, lstate, iq, eq, bound, sent, epc, eblk, apc, ablk, cpc,
          discarded, received, cmdv>>

\* Status messages of the elements, and commands (src NoE) of the control thread.
Msg == [src : Els, n : 1..MaxSend, to : Listeners \cup {NoL}]
       \cup [src : {NoE}, n : 1..MaxCmd, to : Listeners]
Ops == {"none", "set", "remove", "destroy", "cmd"}
NoMsg == [src |-> NoE, n |-> 0, to |-> NoL]
NoBlk == [d |-> 0, q |-> NoL, m |-> NoMsg]
Idle == [op |-> "none", e |-> NoE, l |-> NoL, ph |-> "check"]

TypeOK ==
  /\ fd \in [Desc -> Listeners \cup {NoL}]
  /\ kq \in [Listeners -> Seq(Msg)]
  /\ lstate \in [Listeners -> {"new", "alive", "failed", "dead"}]
  /\ iq \in [Listeners -> Desc \cup {0}]
  /\ eq \in [Els -> Desc \cup {0}]
  /\ bound \in [Els -> Listeners \cup {NoL}]
  /\ sent \in [Els -> 0..MaxSend]
  /\ epc \in [Els -> {"run", "send", "blocked"}]
  /\ eblk \in [Els -> [d : Desc \cup {0}, q : Listeners \cup {NoL},
                        m : Msg \cup {NoMsg}]]
  /\ apc \in {"idle", "blocked", "timed"}
  /\ ablk \in Listeners \cup {NoL}
  /\ cpc \in [op : Ops, e : Els \cup {NoE}, l : Listeners \cup {NoL},
              ph : {"check", "recv", "done", "send"}]
  /\ discarded \subseteq Msg
  /\ received \in Seq(Msg)
  /\ cmdsent \in 0..MaxCmd /\ cwait \in [Listeners -> {0, 1}]

-----------------------------------------------------------------------------
(* The message-queue primitives of audio_queue.c.                          *)

FreeDesc == {d \in Desc : fd[d] = NoL}

\* mq_open(O_CREAT) in audio_queue_create: the lowest free descriptor.
LowestFree == CHOOSE d \in FreeDesc : \A x \in FreeDesc : d <= x

\* The queue object a descriptor refers to, NoL for a closed descriptor.
QueueOf(d) == IF d \in Desc THEN fd[d] ELSE NoL

Full(q) == Len(kq[q]) >= Cap

-----------------------------------------------------------------------------
\* Fault: the mq_open result is not checked against (mqd_t)-1.
IfaceInitUnchecked(l) ==
  /\ lstate[l] = "new"
  /\ cpc = Idle
  /\ IF FreeDesc # {}
       THEN /\ fd' = [fd EXCEPT ![LowestFree] = l]
            /\ iq' = [iq EXCEPT ![l] = LowestFree]
       ELSE /\ iq' = [iq EXCEPT ![l] = -1]
            /\ UNCHANGED fd
  /\ lstate' = [lstate EXCEPT ![l] = "alive"]
  /\ UNCHANGED <<kq, eq, bound, sent, epc, eblk, apc, ablk, cpc, discarded,
                 received, cmdv>>

(* audio_event_iface_init for a listener: internal_queue_size # 0, so the  *)
(* internal queue is created; mq_open fails when no descriptor is free and *)
(* init returns NULL.                                                      *)
IfaceInit(l) ==
  /\ lstate[l] = "new"
  /\ cpc = Idle
  /\ IF FreeDesc # {}
       THEN /\ fd' = [fd EXCEPT ![LowestFree] = l]
            /\ iq' = [iq EXCEPT ![l] = LowestFree]
            /\ lstate' = [lstate EXCEPT ![l] = "alive"]
       ELSE /\ lstate' = [lstate EXCEPT ![l] = "failed"]
            /\ UNCHANGED <<fd, iq>>
  /\ UNCHANGED <<kq, eq, bound, sent, epc, eblk, apc, ablk, cpc, discarded,
                 received, cmdv>>

(* audio_event_iface_set_listener(evt = e, listener = l): the argument     *)
(* check, then discard(listener); the binding is made once discard ends.   *)
SetListener(e, l) ==
  /\ cpc = Idle
  /\ lstate[l] = "alive"
  /\ iq[l] # 0
  /\ cpc' = [op |-> "set", e |-> e, l |-> l, ph |-> "check"]
  /\ UNCHANGED <<fd, kq, lstate, iq, eq, bound, sent, epc, eblk, apc, ablk,
                 discarded, received, cmdv>>

(* audio_event_iface_remove_listener(listen = l, evt = e): INVALID_ARG     *)
(* when e has no external queue or its external_queue_size is 0;          *)
(* otherwise discard(listen) and then clear e's external queue.            *)
RemoveListener(l, e) ==
  /\ cpc = Idle
  /\ lstate[l] = "alive"
  /\ IF eq[e] = 0 \/ ExtSize = 0
       THEN UNCHANGED cpc
       ELSE cpc' = [op |-> "remove", e |-> e, l |-> l, ph |-> "check"]
  /\ UNCHANGED <<fd, kq, lstate, iq, eq, bound, sent, epc, eblk, apc, ablk,
                 discarded, received, cmdv>>

(* audio_event_iface_destroy(l): discard, then audio_queue_delete.  It    *)
(* checks nothing: elements still holding the descriptor keep it.          *)
Destroy(l) ==
  /\ cpc = Idle
  /\ lstate[l] = "alive"
  /\ cpc' = [op |-> "destroy", e |-> NoE, l |-> l, ph |-> "check"]
  /\ UNCHANGED <<fd, kq, lstate, iq, eq, bound, sent, epc, eblk, apc, ablk,
                 discarded, received, cmdv>>

(* The discard loop on the listener's internal queue:                      *)
(*   while (message_available(q) > 0 && recv(q, msg, 0) == size);          *)
(* The count and the receive are two steps; another thread may take the   *)
(* message in between.  The loop on external_queue is skipped: a listener  *)
(* has none.                                                               *)
DiscardCheck ==
  /\ cpc.op # "none" /\ cpc.ph = "check"
  /\ IF kq[cpc.l] # <<>>
       THEN cpc' = [cpc EXCEPT !.ph = "recv"]
       ELSE cpc' = [cpc EXCEPT !.ph = "done"]
  /\ UNCHANGED <<fd, kq, lstate, iq, eq, bound, sent, epc, eblk, apc, ablk,
                 discarded, received, cmdv>>

\* The zero-wait receive of the discard loop, mq_receive: it takes the
\* oldest message, and on an empty queue is not enabled until one arrives.
DiscardRecvZero(q) ==
  /\ kq[q] # <<>>
  /\ discarded' = discarded \cup {Head(kq[q])}
  /\ kq' = [kq EXCEPT ![q] = Tail(@)]
  /\ cpc' = [cpc EXCEPT !.ph = "check"]

DiscardRecv ==
  /\ cpc.op # "none" /\ cpc.ph = "recv"
  /\ DiscardRecvZero(cpc.l)
  /\ UNCHANGED <<fd, lstate, iq, eq, bound, sent, epc, eblk, apc, ablk,
                 received, cmdv>>

\* evt->external_queue = listener->internal_queue (end of set_listener).
Bind(e, l) ==
  /\ eq' = [eq EXCEPT ![e] = iq[l]]
  /\ bound' = [bound EXCEPT ![e] = l]

\* evt->external_queue = 0 (end of remove_listener).
Unbind(e) ==
  /\ eq' = [eq EXCEPT ![e] = 0]
  /\ bound' = [bound EXCEPT ![e] = NoL]

(* The end of destroy: set_cmd_waiting_timeout(evt, 0), then             *)
(* audio_queue_delete (mq_close, mq_unlink); then the struct is freed.     *)
QueueDelete(l) ==
  /\ cwait' = [cwait EXCEPT ![l] = 0]
  /\ fd' = [fd EXCEPT ![iq[l]] = NoL]
  /\ lstate' = [lstate EXCEPT ![l] = "dead"]

\* The rest of the operation once its discard loop has ended.
Finish ==
  /\ cpc.ph = "done"
  /\ cpc' = Idle
  /\ \/ /\ cpc.op = "set" /\ Bind(cpc.e, cpc.l)
        /\ UNCHANGED <<fd, lstate, cwait>>
     \/ /\ cpc.op = "remove" /\ Unbind(cpc.e)
        /\ UNCHANGED <<fd, lstate, cwait>>
     \/ /\ cpc.op = "destroy" /\ QueueDelete(cpc.l)
        /\ UNCHANGED <<eq, bound>>
  /\ UNCHANGED <<kq, iq, sent, epc, eblk, apc, ablk, discarded, received, cmdsent>>

-----------------------------------------------------------------------------
(* audio_event_iface_sendout(e, msg): the test of evt->external_queue and  *)
(* its load as the argument of audio_queue_send (one load, as an           *)
(* optimising build makes them).  Without an external queue sendout       *)
(* returns ESP_OK at once.  The message records the listener the element  *)
(* is bound to at this point.                                              *)
SendoutLoad(e) ==
  /\ epc[e] = "run"
  /\ sent[e] < MaxSend
  /\ sent' = [sent EXCEPT ![e] = @ + 1]
  /\ IF eq[e] = 0
       THEN UNCHANGED <<epc, eblk>>
       ELSE /\ epc' = [epc EXCEPT ![e] = "send"]
            /\ eblk' = [eblk EXCEPT ![e] =
                 [d |-> eq[e], q |-> NoL,
                  m |-> [src |-> e, n |-> sent[e] + 1, to |-> bound[e]]]]
  /\ UNCHANGED <<fd, kq, lstate, iq, eq, bound, apc, ablk, cpc, discarded,
                 received, cmdv>>

(* audio_queue_send(d, msg, 0) = mq_send on the descriptor loaded: it      *)
(* fails (ESP_FAIL) when d is closed, appends to the queue object d refers *)
(* to now when it has room, and otherwise blocks until there is room.     *)
SendoutSend(e) ==
  LET q == QueueOf(eblk[e].d)
  IN
  /\ epc[e] = "send"
  /\ \/ /\ q = NoL
        /\ epc' = [epc EXCEPT ![e] = "run"]
        /\ eblk' = [eblk EXCEPT ![e] = NoBlk]
        /\ UNCHANGED kq
     \/ /\ q # NoL /\ ~Full(q)
        /\ kq' = [kq EXCEPT ![q] = Append(@, eblk[e].m)]
        /\ epc' = [epc EXCEPT ![e] = "run"]
        /\ eblk' = [eblk EXCEPT ![e] = NoBlk]
     \/ /\ q # NoL /\ Full(q)
        /\ epc' = [epc EXCEPT ![e] = "blocked"]
        /\ eblk' = [eblk EXCEPT ![e].q = q]
        /\ UNCHANGED kq
  /\ UNCHANGED <<fd, lstate, iq, eq, bound, sent, apc, ablk, cpc, discarded,
                 received, cmdv>>

\* A blocked mq_send completes once the queue object it entered has room.
SendoutWake(e) ==
  LET q == eblk[e].q
  IN
  /\ epc[e] = "blocked"
  /\ ~Full(q)
  /\ kq' = [kq EXCEPT ![q] = Append(@, eblk[e].m)]
  /\ epc' = [epc EXCEPT ![e] = "run"]
  /\ eblk' = [eblk EXCEPT ![e] = NoBlk]
  /\ UNCHANGED <<fd, lstate, iq, eq, bound, sent, apc, ablk, cpc, discarded,
                 received, cmdv>>

(* audio_event_iface_listen(l, msg, wait) -> audio_event_iface_read:       *)
(* audio_queue_recv(internal_queue, msg, wait).  wait = 0 is mq_receive;   *)
(* wait > 0 is mq_timedreceive, which may time out.                        *)
Listen(l, wait) ==
  /\ apc = "idle"
  /\ lstate[l] = "alive"
  /\ \/ /\ kq[l] # <<>>
        /\ received' = Append(received, Head(kq[l]))
        /\ kq' = [kq EXCEPT ![l] = Tail(@)]
        /\ UNCHANGED <<apc, ablk>>
     \/ /\ kq[l] = <<>>
        /\ apc' = IF wait = 0 THEN "blocked" ELSE "timed"
        /\ ablk' = l
        /\ UNCHANGED <<kq, received>>
  /\ UNCHANGED <<fd, lstate, iq, eq, bound, sent, epc, eblk, cpc, discarded, cmdv>>

\* A blocked receive returns the head message once one arrives.
ListenWake ==
  /\ apc \in {"blocked", "timed"}
  /\ kq[ablk] # <<>>
  /\ received' = Append(received, Head(kq[ablk]))
  /\ kq' = [kq EXCEPT ![ablk] = Tail(@)]
  /\ apc' = "idle"
  /\ ablk' = NoL
  /\ UNCHANGED <<fd, lstate, iq, eq, bound, sent, epc, eblk, cpc, discarded, cmdv>>

\* mq_timedreceive returns ETIMEDOUT: listen returns ESP_FAIL.
ListenTimeout ==
  /\ apc = "timed"
  /\ kq[ablk] = <<>>
  /\ apc' = "idle"
  /\ ablk' = NoL
  /\ UNCHANGED <<fd, kq, lstate, iq, eq, bound, sent, epc, eblk, cpc,
                 discarded, received, cmdv>>

-----------------------------------------------------------------------------
(* The command path: audio_event_iface_cmd puts a command into the owner's *)
(* internal queue, the queue listen reads, and the owner takes it with     *)
(* audio_event_iface_waiting_cmd_msg, waiting evt->wait_time.              *)

\* The command the control thread's k-th cmd call sends to listener l.
CmdMsg(k, l) == [src |-> NoE, n |-> k, to |-> l]

(* audio_event_iface_cmd(l, msg) from the control thread: with an internal *)
(* queue, audio_queue_send(internal_queue, msg, 0) = mq_send, which blocks *)
(* on a full queue until there is room.                                    *)
Cmd(l) ==
  /\ cpc = Idle
  /\ lstate[l] = "alive"
  /\ cmdsent < MaxCmd
  /\ cmdsent' = cmdsent + 1
  /\ \/ /\ ~Full(l)
        /\ kq' = [kq EXCEPT ![l] = Append(@, CmdMsg(cmdsent + 1, l))]
        /\ UNCHANGED cpc
     \/ /\ Full(l)
        /\ cpc' = [op |-> "cmd", e |-> NoE, l |-> l, ph |-> "send"]
        /\ UNCHANGED kq
  /\ UNCHANGED <<fd, lstate, iq, eq, bound, sent, epc, eblk, apc, ablk,
                 discarded, received, cwait>>

\* The blocked mq_send of cmd completes once the queue has room.
CmdWake ==
  /\ cpc.op = "cmd"
  /\ ~Full(cpc.l)
  /\ kq' = [kq EXCEPT ![cpc.l] = Append(@, CmdMsg(cmdsent, cpc.l))]
  /\ cpc' = Idle
  /\ UNCHANGED <<fd, lstate, iq, eq, bound, sent, epc, eblk, apc, ablk,
                 discarded, received, cmdv>>

\* audio_event_iface_set_cmd_waiting_timeout, called by the owner's thread.
SetCmdWaitingTimeout(l, w) ==
  /\ apc = "idle"
  /\ lstate[l] = "alive"
  /\ cwait' = [cwait EXCEPT ![l] = w]
  /\ UNCHANGED <<fd, kq, lstate, iq, eq, bound, sent, epc, eblk, apc, ablk,
                 cpc, discarded, received, cmdsent>>

(* audio_event_iface_waiting_cmd_msg(l): audio_queue_recv(internal_queue, *)
(* evt->wait_time), the receive listen does, and on_cmd on what it got.    *)
WaitingCmdMsg(l) == Listen(l, cwait[l])

-----------------------------------------------------------------------------
Init ==
  /\ fd = [d \in Desc |-> NoL]
  /\ kq = [l \in Listeners |-> <<>>]
  /\ lstate = [l \in Listeners |-> "new"]
  /\ iq = [l \in Listeners |-> 0]
  /\ eq = [e \in Els |-> 0]
  /\ bound = [e \in Els |-> NoL]
  /\ sent = [e \in Els |-> 0]
  /\ epc = [e \in Els |-> "run"]
  /\ eblk = [e \in Els |-> NoBlk]
  /\ apc = "idle"
  /\ ablk = NoL
  /\ cpc = Idle
  /\ discarded = {}
  /\ received = <<>>
  /\ cmdsent = 0
  /\ cwait = [l \in Listeners |-> 0]

(* The caller's order: with RemoveFirst, a listener is destroyed only after *)
(* remove_listener has been called for every element bound to it.          *)
CallerMayDestroy(l) == RemoveFirst => \A e \in Els : bound[e] # l

ControlStep ==
  \/ \E l \in Listeners : IfaceInit(l) \/ (CallerMayDestroy(l) /\ Destroy(l))
  \/ \E e \in Els, l \in Listeners : SetListener(e, l) \/ RemoveListener(l, e)
  \/ DiscardCheck \/ DiscardRecv \/ Finish
  \/ \E l \in Listeners : Cmd(l)
  \/ CmdWake

\* Every thread has returned and every listener is gone: the test ends.
Terminated ==
  /\ \A e \in Els : sent[e] = MaxSend /\ epc[e] = "run"
  /\ \A l \in Listeners : lstate[l] \in {"dead", "failed"}
  /\ cpc = Idle /\ apc = "idle"
  /\ UNCHANGED vars

Next ==
  \/ ControlStep
  \/ \E e \in Els : SendoutLoad(e) \/ SendoutSend(e) \/ SendoutWake(e)
  \/ \E l \in Listeners, w \in {0, 1} : Listen(l, w)
  \/ \E l \in Listeners : WaitingCmdMsg(l) \/ \E w \in {0, 1} : SetCmdWaitingTimeout(l, w)
  \/ ListenWake \/ ListenTimeout
  \/ Terminated

(* A thread inside a call keeps being scheduled: the control thread in its *)
(* discard loop, an element between its load and mq_send.  The kernel      *)
(* completes a blocked mq_send once its queue has room, and a receive      *)
(* once a message is there or its deadline passes.                         *)
Fairness == /\ WF_vars(DiscardCheck \/ DiscardRecv \/ Finish)
            /\ WF_vars(ListenWake \/ ListenTimeout)
            /\ WF_vars(CmdWake)
            /\ \A e \in Els : WF_vars(SendoutSend(e) \/ SendoutWake(e))

Spec == Init /\ [][Next]_vars /\ Fairness

-----------------------------------------------------------------------------
(* Properties.                                                             *)

(* A status message lands only in the queue of the listener its sender was *)
(* bound to when its sendout call loaded external_queue (spec.md 4.3:      *)
(* publish enqueues into the outbox set by set_listener).  remove_listener *)
(* clears the field but cannot recall a descriptor a sendout has already   *)
(* loaded; once destroy closes it, mq_open hands the number to the next    *)
(* listener and the pending mq_send delivers there.                        *)
MessagesReachBoundListener ==
  \A l \in Listeners : \A i \in DOMAIN kq[l] : kq[l][i].to = l

(* A set_listener, remove_listener or destroy that starts its discard loop *)
(* gets through it: the loop in audio_event_iface_discard ends even when   *)
(* the application thread reads the same queue concurrently (spec.md      *)
(* section 5: no call blocks indefinitely).                                *)
DiscardPending == cpc.op \in {"set", "remove", "destroy"}

DiscardTerminates == DiscardPending ~> ~DiscardPending

=============================================================================
