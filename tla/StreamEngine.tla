---------------------------- MODULE StreamEngine ----------------------------
(***************************************************************************)
(* The kernel's observation stream (ai-device-kernel/src/stream_engine.rs) *)
(* as operators on an engine value: a bounded history, and subscribers     *)
(* that each own a bounded queue which drops its oldest entry.  The engine *)
(* has no thread of its own; the modules that use it decide who calls it   *)
(* and under which lock.                                                   *)
(*                                                                         *)
(* An observation is a record with at least the fields seq and events (a   *)
(* set of event kinds).  Subscribers are kept in a sequence: the position  *)
(* is the id the engine hands out.                                         *)
(***************************************************************************)
EXTENDS Integers, Sequences, SequencesExt, SequenceOps

CONSTANTS
  HistoryCap,   \* StreamEngine::HISTORY_CAP (512)
  QueueCap      \* SUBSCRIBER_QUEUE_CAP (256)

ASSUME CapsPositive == HistoryCap \in Nat \ {0} /\ QueueCap \in Nat \ {0}

(***************************************************************************)
(* A bounded VecDeque that drops its front when a push finds it full.      *)
(***************************************************************************)
PushBounded(q, x, cap) == Append(IF Len(q) >= cap THEN Tail(q) ELSE q, x)

NoFilter == {"any"}
Unseen == -1

(***************************************************************************)
(* Subscriber.  since, from and taken are history variables: the argument  *)
(* of subscribe, how many observations had been produced by then, and how  *)
(* many poll has returned.                                                 *)
(***************************************************************************)
Subscriber(filter, since, from) ==
  [last_seq |-> Unseen, queue |-> <<>>, filter |-> filter, dropped |-> 0,
   live |-> TRUE, since |-> since, from |-> from, taken |-> 0]

\* None delivers everything, Some(kinds) wants one of the kinds.
accepts(sub, obs) ==
  sub.filter = NoFilter \/ obs.events \cap sub.filter # {}

\* A plausible slip: the trim forgets the diagnostic counter.
pushUncounted(sub, obs) ==
  IF ~accepts(sub, obs)
  THEN sub
  ELSE [sub EXCEPT !.queue = PushBounded(@, obs, QueueCap)]

push(sub, obs) ==
  IF ~accepts(sub, obs)
  THEN sub
  ELSE [sub EXCEPT !.queue = PushBounded(@, obs, QueueCap),
                   !.dropped = IF Len(sub.queue) >= QueueCap THEN @ + 1 ELSE @]

since_seq(history, n) == Only(history, {obs \in Range(history) : obs.seq > n})

\* The subscriber after 0, 1, ... of the observations are pushed.
Pushes(sub, obss) ==
  LET after[i \in 0..Len(obss)] == IF i = 0 THEN sub ELSE push(after[i - 1], obss[i])
  IN after

replay_from_history(sub, history, n) ==
  LET new == since_seq(history, n) IN Pushes(sub, new)[Len(new)]

poll(sub) ==
  IF sub.queue = <<>>
  THEN sub
  ELSE [sub EXCEPT !.queue = Tail(@), !.last_seq = Head(sub.queue).seq,
                   !.taken = @ + 1]

(***************************************************************************)
(* StreamEngine.                                                           *)
(***************************************************************************)
NewStreamEngine == [next_seq |-> 0, history |-> <<>>, subscribers |-> <<>>]

subscribe(engine, since, filter) ==
  [engine EXCEPT !.subscribers =
     Append(@, replay_from_history(
                 Subscriber(filter, since, engine.next_seq),
                 engine.history, since))]

\* unsubscribe forgets the subscriber and its queue; its id is not reused.
unsubscribe(engine, id) ==
  [engine EXCEPT !.subscribers[id].queue = <<>>, !.subscribers[id].live = FALSE]

(***************************************************************************)
(* produce counts the call and hands the number to the caller's factory;   *)
(* both callers in the crate ignore it and return an observation that      *)
(* already carries a seq, so the engine stores obs as it is given.         *)
(***************************************************************************)
produce(engine, obs) ==
  [next_seq    |-> engine.next_seq + 1,
   history     |-> PushBounded(engine.history, obs, HistoryCap),
   subscribers |-> [i \in DOMAIN engine.subscribers |->
                      IF engine.subscribers[i].live
                      THEN push(engine.subscribers[i], obs)
                      ELSE engine.subscribers[i]]]

head_seq(engine) == engine.next_seq - 1

(***************************************************************************)
(* What a subscriber has been offered, computed from the log of everything *)
(* ever produced: the part of the history that was newer than since when   *)
(* it subscribed, then everything produced afterwards.                     *)
(***************************************************************************)
LastOf(s, n) == IF Len(s) <= n THEN s ELSE SubSeq(s, Len(s) - n + 1, Len(s))

Offered(sub, log) ==
  Only(since_seq(LastOf(SubSeq(log, 1, sub.from), HistoryCap), sub.since)
         \o SubSeq(log, sub.from + 1, Len(log)),
       {obs \in Range(log) : accepts(sub, obs)})

\* Everything offered was returned by poll, is still queued, or is counted.
Accounted(sub, log) ==
  LET all == Offered(sub, log) IN
    /\ sub.queue = LastOf(all, Len(sub.queue))
    /\ Len(all) = sub.taken + sub.dropped + Len(sub.queue)
=============================================================================
