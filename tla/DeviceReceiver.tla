--------------------------- MODULE DeviceReceiver ---------------------------
(***************************************************************************)
(* The server-to-host side (device.rs and its Tokio twin async_device.rs): *)
(* a pump thread or task reads messages off the control socket and         *)
(* hands them on, in one of four ways:                                     *)
(*   native  spawn_device_message_receiver: native messages, by channel    *)
(*   event   spawn_device_event_receiver: native and AI events, by channel *)
(*   latest  spawn_latest_frame_summary_receiver: only the newest frame    *)
(*           summary, in a mutex with a condition variable                 *)
(*   watch   the Tokio version of latest, in a watch channel               *)
(* The blocking and the async channel pumps have the same control.         *)
(*                                                                         *)
(* A message is [id, kind].  On the socket it is two halves, its type tag  *)
(* and the rest: read_exact can time out or meet the end of the stream     *)
(* between them.                                                           *)
(***************************************************************************)
EXTENDS Integers, Sequences, SequencesExt, FiniteSets

CONSTANTS
  Modes,       \* the pumps to check
  Kinds,       \* message kinds the server sends
  Bound,       \* bound of the channel
  Waiters,     \* tasks that wait for a frame, each with a handle
  MaxMsgs,     \* bound: messages the server sends
  MaxUnread,   \* bound: halves waiting in the socket when a message is sent
  MaxWaits     \* bound: waits per waiter

\* The waits tried: any newer frame with a deadline, a matching one without.
Timed == [any |-> {TRUE}, frame |-> {FALSE}]

ASSUME BoundPositive == Bound \in Nat \ {0}
ASSUME WaitersFinite == IsFiniteSet(Waiters)

VARIABLES
  mode,
  socket,      \* halves sent and not yet read
  sent,        \* history variable: the messages of the server
  owed,        \* the last message of sent is half on its way
  closed,      \* the server has closed the socket
  pump,        \* [pc, msg]
  queue, rx,   \* the channel: its content, and "live" or "dropped"
  got,         \* history variable: what the consumer has received
  view,        \* LatestFrameSummaryState [version, latest, error]
  tx,          \* watch: [sent, alive], the sender's side
  waiter       \* the waiters

channel == <<queue, rx, got>>
server == <<socket, sent, owed, closed>>
vars == <<mode, socket, sent, owed, closed, pump, queue, rx, got, view, tx, waiter>>

FrameKinds == {"frame", "dull"}      \* a summary the predicates like or not
NoMsg == [id |-> 0, kind |-> "none"]
ErrMsg == [id |-> 0, kind |-> "error"]

Idle == [pc |-> "idle", after |-> 0, want |-> "any", expired |-> FALSE,
         result |-> NoMsg, floor |-> 0, seen |-> 0, waits |-> 0, timed |-> FALSE]

Init ==
  /\ mode \in Modes
  /\ socket = <<>> /\ sent = <<>> /\ owed = FALSE /\ closed = FALSE
  /\ pump = [pc |-> IF mode \in {"latest", "watch"} THEN "top" ELSE "head", msg |-> NoMsg]
  /\ queue = <<>> /\ rx = "live" /\ got = <<>>
  /\ view = [version |-> 0, latest |-> NoMsg, error |-> FALSE]
  /\ tx = [sent |-> 0, alive |-> TRUE]
  /\ waiter = [w \in Waiters |-> Idle]

(***************************************************************************)
(* The server.                                                             *)
(***************************************************************************)
Send(kind) ==
  /\ ~closed /\ ~owed /\ Len(sent) < MaxMsgs /\ Len(socket) < MaxUnread
  /\ LET m == [id |-> Len(sent) + 1, kind |-> kind] IN
       /\ sent' = Append(sent, m)
       /\ socket' = Append(socket, [half |-> "head", msg |-> m])
  /\ owed' = TRUE
  /\ UNCHANGED <<mode, closed, pump, channel, view, tx, waiter>>

SendRest ==
  /\ ~closed /\ owed
  /\ socket' = Append(socket, [half |-> "rest", msg |-> Last(sent)])
  /\ owed' = FALSE
  /\ UNCHANGED <<mode, sent, closed, pump, channel, view, tx, waiter>>

\* The connection ends, possibly inside a message.
Close ==
  /\ ~closed
  /\ closed' = TRUE
  /\ UNCHANGED <<mode, socket, sent, owed, pump, channel, view, tx, waiter>>

(***************************************************************************)
(* read_device_message and read_device_event.  The native reader knows     *)
(* only the native tags; the event reader takes unknown tags as envelopes. *)
(* A summary that does not parse, a text that is not UTF-8 or a length     *)
(* over the limit ("bad") is InvalidData.                                  *)
(***************************************************************************)
Known(kind) == mode # "native" \/ kind \in {"native", "bad"}

\* Half a message read from the middle is taken for an unknown envelope.
Parsed(half) ==
  IF half.half = "head" THEN half.msg ELSE [half.msg EXCEPT !.kind = "garbled"]

(***************************************************************************)
(* store_summary and store_terminal_error, and their watch counterparts:   *)
(* under the lock, then notify_all; send_replace and send.                 *)
(***************************************************************************)
Notify ==
  waiter' = [w \in Waiters |->
               IF waiter[w].pc = "sleep" /\ mode = "latest"
               THEN [waiter[w] EXCEPT !.pc = "check"]
               ELSE waiter[w]]

Publish == Notify /\ tx' = [tx EXCEPT !.sent = @ + 1]

store_summary(m) ==
  /\ view' = [view EXCEPT !.version = @ + 1, !.latest = m]
  /\ Publish

\* No notify_all after the error is stored.
store_terminal_error_silent ==
  /\ view' = [view EXCEPT !.error = TRUE]
  /\ UNCHANGED <<waiter, tx>>

store_terminal_error ==
  /\ view' = [view EXCEPT !.error = TRUE]
  /\ Publish

(***************************************************************************)
(* The pump.                                                               *)
(***************************************************************************)
Goto(pc, m) == pump' = [pc |-> pc, msg |-> m]

\* The pump failed: tell the consumer once, then stop.
FailsTo(m) ==
  IF mode \in {"native", "event"}
  THEN Goto("send_error", m) /\ UNCHANGED <<view, tx, waiter>>
  ELSE Goto("failed", m) /\ store_terminal_error

\* latest: is_abandoned() or receiver_count() == 0, looked at between reads.
Handles == Cardinality({w \in Waiters : waiter[w].pc # "dropped"})

Top ==
  /\ pump.pc = "top"
  /\ IF Handles = 0
     THEN Goto("done", NoMsg) /\ tx' = [tx EXCEPT !.alive = FALSE]
     ELSE Goto("head", NoMsg) /\ UNCHANGED tx
  /\ UNCHANGED <<mode, server, channel, view, waiter>>

ReadHead ==
  /\ pump.pc = "head" /\ socket # <<>>
  /\ socket' = Tail(socket)
  /\ LET m == Parsed(Head(socket)) IN
       IF Known(m.kind)
       THEN Goto("rest", m) /\ UNCHANGED <<view, tx, waiter>>
       ELSE FailsTo(NoMsg)
  /\ UNCHANGED <<mode, sent, owed, closed, channel>>

ReadRest ==
  /\ pump.pc = "rest" /\ socket # <<>>
  /\ socket' = Tail(socket)
  /\ CASE pump.msg.kind = "bad" -> FailsTo(NoMsg)
       [] pump.msg.kind # "bad" /\ mode \in {"native", "event"} ->
            Goto("send", pump.msg) /\ UNCHANGED <<view, tx, waiter>>
       [] pump.msg.kind \in FrameKinds /\ mode \in {"latest", "watch"} ->
            Goto("top", NoMsg) /\ store_summary(pump.msg)
       [] OTHER -> Goto("top", NoMsg) /\ UNCHANGED <<view, tx, waiter>>
  /\ UNCHANGED <<mode, sent, owed, closed, channel>>

\* A pump that takes a timeout for "nothing yet" and reads on.
ReadFailsRetry ==
  /\ pump.pc \in {"head", "rest"} /\ socket = <<>>
  /\ IF closed
     THEN FailsTo(NoMsg)
     ELSE Goto("head", NoMsg) /\ UNCHANGED <<view, tx, waiter>>
  /\ UNCHANGED <<mode, server, channel>>

\* read_exact fails: the socket's read timeout, or the end of the stream.
ReadFails ==
  /\ pump.pc \in {"head", "rest"} /\ socket = <<>>
  /\ FailsTo(NoMsg)
  /\ UNCHANGED <<mode, server, channel>>

\* tx.send blocks while the channel is full and fails when rx is dropped.
SendMsg ==
  /\ pump.pc = "send" /\ (Len(queue) < Bound \/ rx = "dropped")
  /\ IF rx = "dropped"
     THEN Goto("done", NoMsg) /\ UNCHANGED queue
     ELSE Goto("head", NoMsg) /\ queue' = Append(queue, pump.msg)
  /\ UNCHANGED <<mode, server, rx, got, view, tx, waiter>>

SendError ==
  /\ pump.pc = "send_error" /\ (Len(queue) < Bound \/ rx = "dropped")
  /\ Goto("done", NoMsg)
  /\ queue' = IF rx = "dropped" THEN queue ELSE Append(queue, ErrMsg)
  /\ UNCHANGED <<mode, server, rx, got, view, tx, waiter>>

\* The loop returns the reader; a watch sender is dropped with it.
PumpReturns ==
  /\ pump.pc = "failed"
  /\ Goto("done", NoMsg)
  /\ tx' = [tx EXCEPT !.alive = FALSE]
  /\ UNCHANGED <<mode, server, channel, view, waiter>>

(***************************************************************************)
(* The consumer of a channel.                                              *)
(***************************************************************************)
Receive ==
  /\ rx = "live" /\ queue # <<>>
  /\ got' = Append(got, Head(queue))
  /\ queue' = Tail(queue)
  /\ UNCHANGED <<mode, server, pump, rx, view, tx, waiter>>

DropReceiver ==
  /\ mode \in {"native", "event"} /\ rx = "live"
  /\ rx' = "dropped" /\ queue' = <<>>
  /\ UNCHANGED <<mode, server, pump, got, view, tx, waiter>>

(***************************************************************************)
(* wait_matching and wait_matching_timeout; every other wait is one of     *)
(* them with a predicate on the version, the frame_seq or the timestamp.   *)
(* observe() takes the boundary; floor is what had been published then     *)
(* (history variable).                                                     *)
(***************************************************************************)
Waits == mode \in {"latest", "watch"}

LatestId == IF view.latest = NoMsg THEN 0 ELSE view.latest.id

Observe(w) ==
  /\ Waits /\ waiter[w].pc = "idle" /\ waiter[w].waits < MaxWaits
  /\ \E want \in {"any", "frame"} : \E timed \in Timed[want] :
       waiter' = [waiter EXCEPT ![w] =
         [waiter[w] EXCEPT !.pc = "check", !.after = view.version,
                           !.floor = LatestId, !.want = want, !.timed = timed,
                           !.expired = FALSE, !.result = NoMsg, !.waits = @ + 1]]
  /\ UNCHANGED <<mode, server, pump, channel, view, tx>>

\* A boundary that lets the frame already seen through.
AcceptsBoundary(w) ==
  /\ view.latest # NoMsg
  /\ view.version >= waiter[w].after
  /\ waiter[w].want = "any" \/ view.latest.kind = "frame"

Accepts(w) ==
  /\ view.latest # NoMsg
  /\ view.version > waiter[w].after
  /\ waiter[w].want = "any" \/ view.latest.kind = "frame"

Returned(w, m) ==
  waiter' = [waiter EXCEPT ![w].pc = "idle", ![w].result = m,
                           ![w].after = 0, ![w].expired = FALSE]

\* Under the lock: the newest frame first, then the error, then the deadline.
Check(w) ==
  /\ waiter[w].pc = "check"
  /\ CASE Accepts(w) -> Returned(w, view.latest)
       [] ~Accepts(w) /\ view.error -> Returned(w, ErrMsg)
       [] ~Accepts(w) /\ ~view.error /\ waiter[w].expired ->
            Returned(w, [ErrMsg EXCEPT !.kind = "timeout"])
       [] OTHER -> waiter' = [waiter EXCEPT ![w].pc = "sleep"]
  /\ UNCHANGED <<mode, server, pump, channel, view, tx>>

\* The deadline passes; a condition variable may also wake by itself.
Expire(w) ==
  /\ waiter[w].timed /\ ~waiter[w].expired /\ waiter[w].pc \in {"check", "sleep"}
  /\ IF mode = "latest"
     THEN waiter' = [waiter EXCEPT ![w].expired = TRUE, ![w].pc = "check"]
     ELSE /\ waiter[w].pc = "sleep"
          /\ Returned(w, [ErrMsg EXCEPT !.kind = "timeout"])
  /\ UNCHANGED <<mode, server, pump, channel, view, tx>>

SpuriousWake(w) ==
  /\ mode = "latest" /\ waiter[w].pc = "sleep"
  /\ waiter' = [waiter EXCEPT ![w].pc = "check"]
  /\ UNCHANGED <<mode, server, pump, channel, view, tx>>

\* watch: changed() returns when there is a value this handle has not seen,
\* and fails when there is none and the sender is gone.
Changed(w) ==
  /\ mode = "watch" /\ waiter[w].pc = "sleep"
  /\ IF waiter[w].seen # tx.sent
     THEN waiter' = [waiter EXCEPT ![w].seen = tx.sent, ![w].pc = "check"]
     ELSE ~tx.alive /\ Returned(w, [ErrMsg EXCEPT !.kind = "broken"])
  /\ UNCHANGED <<mode, server, pump, channel, view, tx>>

DropHandle(w) ==
  /\ Waits /\ waiter[w].pc = "idle"
  /\ waiter' = [waiter EXCEPT ![w] = [Idle EXCEPT !.pc = "dropped"]]
  /\ UNCHANGED <<mode, server, pump, channel, view, tx>>

PumpStep == Top \/ ReadHead \/ ReadRest \/ SendMsg \/ SendError \/ PumpReturns

WaiterStep(w) == Check(w) \/ Changed(w)

Next ==
  \/ \E kind \in Kinds : Send(kind)
  \/ SendRest \/ Close
  \/ PumpStep \/ ReadFails
  \/ Receive \/ DropReceiver
  \/ \E w \in Waiters :
       \/ WaiterStep(w)
       \/ Observe(w) \/ Expire(w) \/ SpuriousWake(w) \/ DropHandle(w)

Spec == Init /\ [][Next]_vars

(***************************************************************************)
(* The pump and the waiters are scheduled.  Nothing is assumed of the      *)
(* server, of timeouts or of the consumer.                                 *)
(***************************************************************************)
FairSpec ==
  /\ Spec
  /\ WF_vars(PumpStep)
  /\ \A w \in Waiters : WF_vars(WaiterStep(w))
-----------------------------------------------------------------------------
\* What the pump is holding on its way to the channel.
InFlight ==
  CASE pump.pc = "send"       -> <<pump.msg>>
    [] pump.pc = "send_error" -> <<ErrMsg>>
    [] OTHER                  -> <<>>

(***************************************************************************)
(* A channel preserves order and drops nothing: what was received, what is *)
(* queued and what is in flight is what the server sent, from the first    *)
(* message on, and then at most one error, with nothing behind it.         *)
(***************************************************************************)
OnChannel == got \o queue \o InFlight

ChannelFaithful ==
  (mode \in {"native", "event"} /\ rx = "live") =>
    \A i \in 1..Len(OnChannel) :
      IF OnChannel[i] = ErrMsg
      THEN i = Len(OnChannel)
      ELSE i <= Len(sent) /\ OnChannel[i] = sent[i]

(***************************************************************************)
(* A frame returned by a wait was published after the boundary the waiter  *)
(* had observed, and satisfies its predicate; an error it returns is the   *)
(* pump's error or its own deadline, never a closed channel.               *)
(***************************************************************************)
FreshFrame ==
  \A w \in Waiters :
    LET r == waiter[w].result IN
      r # NoMsg =>
        CASE r.kind \in FrameKinds ->
               r.id > waiter[w].floor /\ (waiter[w].want = "frame" => r.kind = "frame")
          [] r.kind = "error"   -> view.error
          [] r.kind = "timeout" -> waiter[w].timed
          [] OTHER -> FALSE

(***************************************************************************)
(* No lost wakeup: a waiter whose stream has ended returns, and so does    *)
(* one for which a frame it wants, published since its boundary, stays the *)
(* newest.                                                                 *)
(***************************************************************************)
Waiting(w) == waiter[w].pc \in {"check", "sleep"}

Due(w) ==
  \/ view.error
  \/ LatestId > waiter[w].floor /\ waiter[w].want \in {"any", view.latest.kind}

WaiterWakes ==
  \A w \in Waiters : (Waiting(w) /\ Due(w)) ~> (~Waiting(w) \/ ~Due(w))
=============================================================================
