---------------------------- MODULE PlanExecutor ----------------------------
(***************************************************************************)
(* A host that embeds the kernel as a library: it runs plans               *)
(* (plan_executor.rs), waits for predicates (predicate_wait.rs), follows   *)
(* the observation stream, and applies actions through the bridge, all on  *)
(* one thread.  The phone captures observations at any time; they queue in *)
(* the host's feed until the thread drains them.                           *)
(***************************************************************************)
EXTENDS StreamEngine, ActionBridge

CONSTANTS
  Plans,         \* [steps, abort_on_error, checkpoint_every]
  Batches,       \* the chunks given to apply_many
  Facts,         \* what an observation may show
  Waits,         \* predicates given to wait_for
  MaxFeed,       \* bound: observations waiting in the feed
  MaxCaptures,   \* bound: observations captured
  MaxCalls       \* bound: calls the host makes

Predicate == [want : STRING, never : BOOLEAN]
PlanStep == [action : Action, wait_before : Predicate, verify_after : Predicate]
Plan == [steps : Seq(PlanStep), abort_on_error : BOOLEAN, checkpoint_every : Nat]

ASSUME HostAssumption ==
  Plans \subseteq Plan /\ Batches \subseteq Seq(Action)
  /\ Facts \subseteq STRING /\ Waits \subseteq Predicate

VARIABLES
  link,          \* the injector's session
  obs_stream,    \* StreamEngine
  predicates,    \* PredicateEngine: the registered [handle, p]
  next_handle,
  feed,          \* captured and not yet drained
  captures,
  pc, run,       \* the call in progress
  calls,         \* calls made
  produced,      \* history variable: everything produced
  attempts,      \* history variable: applies per action name
  last           \* history variable: the last call of the bridge

engines == <<obs_stream, predicates, next_handle, produced>>
bridge == <<link, attempts, last>>
planVars == <<link, obs_stream, predicates, next_handle, feed, captures, pc, run,
              calls, produced, attempts, last>>

NoPredicate == [want |-> "none", never |-> FALSE]
NoAttempts == [n \in {} |-> 0]
Blank == [seq |-> 0, events |-> {}, after |-> NoAttempts]
NoRun == [plan |-> [steps |-> <<>>, abort_on_error |-> FALSE, checkpoint_every |-> 0],
          results |-> <<>>, landed |-> 0, final_obs |-> Blank, handle |-> 0,
          p |-> NoPredicate, expired |-> FALSE, late |-> 0, outcome |-> "none"]
NoCall == [acts |-> <<>>, outcomes |-> <<>>]

PlanInit ==
  /\ link = NewLink
  /\ obs_stream = NewStreamEngine
  /\ predicates = {}
  /\ next_handle = 0
  /\ feed = <<>>
  /\ captures = 0
  /\ pc = "idle"
  /\ run = NoRun
  /\ calls = 0
  /\ produced = <<>>
  /\ attempts = NoAttempts
  /\ last = NoCall

(***************************************************************************)
(* The phone.  after is what had been applied before the capture.          *)
(***************************************************************************)
Capture ==
  /\ Len(feed) < MaxFeed /\ captures < MaxCaptures
  /\ captures' = captures + 1
  /\ \E f \in Facts :
       feed' = Append(feed, [seq |-> captures', events |-> {f}, after |-> attempts])
  /\ UNCHANGED <<link, engines, pc, run, calls, attempts, last>>

(***************************************************************************)
(* PredicateEngine.  A predicate matches an observation that shows what it *)
(* wants; SceneStable and A11yIdle never match when their duration is      *)
(* longer than their timeout.                                              *)
(***************************************************************************)
register(p) ==
  /\ predicates' = predicates \cup {[handle |-> next_handle, p |-> p]}
  /\ next_handle' = next_handle + 1

cancel(handle) ==
  /\ predicates' = {r \in predicates : r.handle # handle}
  /\ UNCHANGED next_handle

Matches(p, obs) == ~p.never /\ p.want \in obs.events

on_observation(preds, obs) ==
  {r.handle : r \in {q \in preds : Matches(q.p, obs)}}

ProduceObs(obs) ==
  /\ obs_stream' = produce(obs_stream, obs)
  /\ produced' = Append(produced, obs)

(***************************************************************************)
(* execute: one plan.                                                      *)
(***************************************************************************)
Index == Len(run.results) + 1
CurrentStep == run.plan.steps[Index]
Return(outcome) == pc' = "idle" /\ run' = [run EXCEPT !.outcome = outcome]

\* The top of the loop, or the end of it.
Loop(r) ==
  IF Len(r.results) < Len(r.plan.steps)
  THEN IF r.plan.steps[Len(r.results) + 1].wait_before = NoPredicate
       THEN "execute" ELSE "register"
  ELSE "final"

StartPlan(plan) ==
  /\ pc = "idle" /\ calls < MaxCalls
  /\ calls' = calls + 1
  /\ run' = [NoRun EXCEPT !.plan = plan]
  /\ pc' = Loop(run')
  /\ UNCHANGED <<bridge, engines, feed, captures>>

\* wait_for_predicate: register, then drain until a match or the end.
WaitBefore ==
  /\ pc = "register"
  /\ register(CurrentStep.wait_before)
  /\ run' = [run EXCEPT !.handle = next_handle]
  /\ pc' = "wait"
  /\ UNCHANGED <<bridge, obs_stream, produced, feed, captures, calls>>

Waiting ==
  /\ pc = "wait" /\ feed # <<>>
  /\ feed' = Tail(feed)
  /\ ProduceObs(Head(feed))
  /\ IF run.handle \in on_observation(predicates, Head(feed))
     THEN cancel(run.handle) /\ pc' = "execute"
     ELSE UNCHANGED <<predicates, next_handle, pc>>
  /\ UNCHANGED <<bridge, run, captures, calls>>

\* The feed has nothing more: an error even if abort_on_error is false.
WaitClosed ==
  /\ pc = "wait" /\ feed = <<>>
  /\ cancel(run.handle)
  /\ Return("WaitBeforeTimeout")
  /\ UNCHANGED <<bridge, obs_stream, produced, feed, captures, calls>>

Count(action) ==
  attempts' = [n \in DOMAIN attempts \cup {action.name} |->
                 (IF n \in DOMAIN attempts THEN attempts[n] ELSE 0)
                   + (IF n = action.name THEN 1 ELSE 0)]

\* The host's closure applies the step's action through the bridge ...
ExecuteStep ==
  /\ pc = "execute"
  /\ \E a \in apply(link, CurrentStep.action, 0) :
       /\ link' = a.link
       /\ last' = [acts |-> <<CurrentStep.action>>, outcomes |-> <<a.outcome>>]
  /\ Count(CurrentStep.action)
  /\ pc' = "verify"
  /\ UNCHANGED <<engines, feed, captures, run, calls>>

\* The synthetic record of a refused step says it landed.
RefuseStepLands ==
  /\ pc = "execute"
  /\ IF run.plan.abort_on_error
     THEN Return("ActionRefused")
     ELSE /\ run' = [run EXCEPT !.results = Append(@, TRUE)]
          /\ pc' = Loop(run')
  /\ UNCHANGED <<bridge, engines, feed, captures, calls>>

\* ... or refuses it: the plan ends, or the step gets a synthetic record and
\* the loop goes on at once.
RefuseStep ==
  /\ pc = "execute"
  /\ IF run.plan.abort_on_error
     THEN Return("ActionRefused")
     ELSE /\ run' = [run EXCEPT !.results = Append(@, FALSE)]
          /\ pc' = Loop(run')
  /\ UNCHANGED <<bridge, engines, feed, captures, calls>>

(***************************************************************************)
(* After the action: drain one observation if there is one, evaluate       *)
(* verify_after on the last one drained here, record the step, and put a   *)
(* checkpoint on the stream when the count of landed steps is a multiple   *)
(* of checkpoint_every (zero included).                                    *)
(***************************************************************************)
Drained == IF feed = <<>> THEN <<>> ELSE <<Head(feed)>>

Verified(p, obs) == p = NoPredicate \/ Matches(p, obs)

Recorded(r, landed, obs) ==
  [r EXCEPT !.results = Append(@, landed),
            !.landed = IF landed THEN @ + 1 ELSE @, !.final_obs = obs]

CheckpointNow(r) ==
  r.plan.checkpoint_every > 0 /\ r.landed % r.plan.checkpoint_every = 0

Checkpoint(r) ==
  IF CheckpointNow(r)
  THEN <<[r.final_obs EXCEPT !.events = @ \cup {"PlanCompleted"}]>>
  ELSE <<>>

\* At most one observation, and behind it at most one checkpoint.
Produced(engine, obss) == IF obss = <<>> THEN engine ELSE produce(engine, Head(obss))

ProduceBoth(drained, checkpoint) ==
  /\ obs_stream' = Produced(Produced(obs_stream, drained), checkpoint)
  /\ produced' = (produced \o drained) \o checkpoint

\* register, on_observation and cancel with nothing in between.
VerifyStep ==
  LET landed == last.outcomes[1].landed
      obs    == IF feed = <<>> THEN run.final_obs ELSE Head(feed)
      done   == Recorded(run, landed, obs)
  IN
  /\ pc = "verify"
  /\ feed' = IF feed = <<>> THEN feed ELSE Tail(feed)
  /\ next_handle' = IF CurrentStep.verify_after = NoPredicate
                     THEN next_handle ELSE next_handle + 1
  /\ IF ~Verified(CurrentStep.verify_after, obs)
     THEN /\ ProduceBoth(Drained, <<>>)
          /\ Return("VerifyAfterMismatch")
     ELSE /\ ProduceBoth(Drained, Checkpoint(done))
          /\ IF ~landed /\ run.plan.abort_on_error
             THEN pc' = "idle" /\ run' = [done EXCEPT !.outcome = "Cancelled"]
             ELSE pc' = Loop(done) /\ run' = done
  /\ UNCHANGED <<bridge, predicates, captures, calls>>

\* One more drain, then Ok; all_landed is what the results say.
AllLanded(r) == \A i \in DOMAIN r.results : r.results[i]

PlanDone ==
  /\ pc = "final"
  /\ feed' = IF feed = <<>> THEN feed ELSE Tail(feed)
  /\ ProduceBoth(Drained, <<>>)
  /\ Return("Ok")
  /\ UNCHANGED <<bridge, predicates, next_handle, captures, calls>>

(***************************************************************************)
(* wait_for.  The deadline is looked at after each observation that does   *)
(* not match, never before the first.                                      *)
(***************************************************************************)
StartWait(p) ==
  /\ pc = "idle" /\ calls < MaxCalls
  /\ calls' = calls + 1
  /\ register(p)
  /\ run' = [NoRun EXCEPT !.handle = next_handle, !.p = p]
  /\ pc' = "wait_for"
  /\ UNCHANGED <<bridge, obs_stream, produced, feed, captures>>

DeadlinePasses ==
  /\ pc = "wait_for" /\ ~run.expired
  /\ run' = [run EXCEPT !.expired = TRUE]
  /\ UNCHANGED <<bridge, engines, feed, captures, pc, calls>>

Late(r) == [r EXCEPT !.late = IF r.expired THEN @ + 1 ELSE @]

WaitOver(outcome) ==
  /\ cancel(run.handle)
  /\ pc' = "idle"
  /\ run' = [Late(run) EXCEPT !.outcome = outcome]

\* The deadline never looked at: only a match or the end of the stream counts.
WaitForPatient ==
  /\ pc = "wait_for" /\ feed # <<>>
  /\ feed' = Tail(feed)
  /\ ProduceObs(Head(feed))
  /\ IF run.handle \in on_observation(predicates, Head(feed))
     THEN WaitOver("Matched")
     ELSE run' = Late(run) /\ UNCHANGED <<predicates, next_handle, pc>>
  /\ UNCHANGED <<bridge, captures, calls>>

WaitFor ==
  /\ pc = "wait_for" /\ feed # <<>>
  /\ feed' = Tail(feed)
  /\ ProduceObs(Head(feed))
  /\ CASE run.handle \in on_observation(predicates, Head(feed)) -> WaitOver("Matched")
       [] run.handle \notin on_observation(predicates, Head(feed)) /\ run.expired ->
            WaitOver("Timeout")
       [] OTHER -> UNCHANGED <<run, predicates, next_handle, pc>>
  /\ UNCHANGED <<bridge, captures, calls>>

\* produce_one returns None: the stream is closed.
WaitForClosed ==
  /\ pc = "wait_for" /\ feed = <<>>
  /\ cancel(run.handle)
  /\ Return("StreamClosed")
  /\ UNCHANGED <<bridge, obs_stream, produced, feed, captures, calls>>

(***************************************************************************)
(* The host between calls: a chunk through apply_many, a retry of the last *)
(* action when its outcome allows it, and the stream's subscribers.        *)
(***************************************************************************)
\* The actions that were applied; the outcome of the last flush is none.
Tried(actions, outcomes) ==
  IF Len(actions) <= Len(outcomes) THEN Len(actions) ELSE Len(outcomes)

ApplyMany(actions) ==
  /\ pc = "idle" /\ calls < MaxCalls
  /\ calls' = calls + 1
  /\ \E r \in apply_many(link, actions) :
       /\ link' = r.link
       /\ last' = [acts |-> actions, outcomes |-> r.outcomes]
       /\ attempts' = [n \in DOMAIN attempts \cup {a.name : a \in Range(actions)} |->
            (IF n \in DOMAIN attempts THEN attempts[n] ELSE 0)
              + Len(Only(SubSeq(actions, 1, Tried(actions, r.outcomes)),
                         {a \in Range(actions) : a.name = n}))]
  /\ UNCHANGED <<engines, feed, captures, pc, run>>

Retry ==
  /\ pc = "idle" /\ calls < MaxCalls
  /\ Len(last.acts) = 1 /\ retryable(last.outcomes[1])
  /\ calls' = calls + 1
  /\ \E a \in apply(link, last.acts[1], 0) :
       /\ link' = a.link
       /\ last' = [last EXCEPT !.outcomes = <<a.outcome>>]
  /\ Count(last.acts[1])
  /\ UNCHANGED <<engines, feed, captures, pc, run>>

HostSubscribe(filter, since) ==
  /\ pc = "idle" /\ obs_stream.subscribers = <<>>
  /\ obs_stream' = subscribe(obs_stream, since, filter)
  /\ UNCHANGED <<bridge, predicates, next_handle, produced, feed, captures, pc, run, calls>>

Poll(id) ==
  /\ pc = "idle" /\ obs_stream.subscribers[id].queue # <<>>
  /\ obs_stream' = [obs_stream EXCEPT !.subscribers[id] = poll(@)]
  /\ UNCHANGED <<bridge, predicates, next_handle, produced, feed, captures, pc, run, calls>>

Unsubscribe(id) ==
  /\ pc = "idle" /\ obs_stream.subscribers[id].live
  /\ obs_stream' = unsubscribe(obs_stream, id)
  /\ UNCHANGED <<bridge, predicates, next_handle, produced, feed, captures, pc, run, calls>>

PlanNext ==
  \/ Capture
  \/ \E plan \in Plans : StartPlan(plan)
  \/ WaitBefore \/ Waiting \/ WaitClosed
  \/ ExecuteStep \/ RefuseStep \/ VerifyStep \/ PlanDone
  \/ \E p \in Waits : StartWait(p)
  \/ DeadlinePasses \/ WaitFor \/ WaitForClosed
  \/ \E actions \in Batches : ApplyMany(actions)
  \/ Retry
  \/ \E f \in Facts, since \in {0, 1} : HostSubscribe({f}, since)
  \/ \E id \in DOMAIN obs_stream.subscribers : Poll(id) \/ Unsubscribe(id)

PlanSpec == PlanInit /\ [][PlanNext]_planVars
-----------------------------------------------------------------------------
(***************************************************************************)
(* wait_for returns at the first observation after its deadline, match or  *)
(* not: it never works through a backlog once it is late.                  *)
(***************************************************************************)
WaitEndsAtDeadline == run.late <= 1 /\ (pc = "wait_for" => run.late = 0)

(***************************************************************************)
(* A call of the bridge without a failure leaves nothing behind: its       *)
(* messages, complete and in order, are the last thing the phone received, *)
(* also when earlier calls had left messages in the buffer.                *)
(***************************************************************************)
ActionMsgs(actions) == FlattenSeq([i \in DOMAIN actions |-> Msgs(actions[i])])

CleanCallDelivered ==
  (last # NoCall /\ ~Failed(last.outcomes))
     => link.buf = <<>> /\ IsSuffix(ActionMsgs(last.acts), link.wire)

(***************************************************************************)
(* A plan that reports all_landed has really been played: every step, once *)
(* and in order, without a message of anything else in between.            *)
(***************************************************************************)
PlanDelivered ==
  (pc = "final" /\ AllLanded(run))
     => IsSuffix(ActionMsgs([i \in DOMAIN run.plan.steps |-> run.plan.steps[i].action]),
                 link.wire)

(***************************************************************************)
(* Retrying what "did not land" can play it again, because a failed write  *)
(* may have arrived and is repeated whole: but every copy on the phone is  *)
(* an apply of the action, or the repeat of one by a write that failed.    *)
(***************************************************************************)
CopiesBounded ==
  \A n \in DOMAIN attempts :
    \A m \in Range(link.wire) : m.name = n =>
      Len(Only(link.wire, {m})) <= attempts[n] * (1 + link.faults)

(***************************************************************************)
(* A slow subscriber never loses silently: what its filter accepted, from  *)
(* the gap-fill out of the bounded history to the last observation and the *)
(* checkpoints in between, was polled, is queued in order, or is counted   *)
(* in dropped.                                                             *)
(***************************************************************************)
SubscribersAccounted ==
  \A i \in DOMAIN obs_stream.subscribers :
    obs_stream.subscribers[i].live => Accounted(obs_stream.subscribers[i], produced)

(***************************************************************************)
(* "Drain one observation so the post-action ground truth is reflected in  *)
(* verify_after evaluation" (plan_executor.rs:209-210): a step that passed *)
(* its verify_after was judged on an observation made after its action.    *)
(***************************************************************************)
VerifiedAfterAction ==
  (run.results # <<>> /\ Last(run.results) /\ pc \in {"final", "register", "execute"}
     /\ run.plan.steps[Len(run.results)].verify_after # NoPredicate)
     => run.final_obs.after = attempts
=============================================================================
