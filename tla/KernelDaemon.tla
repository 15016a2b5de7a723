---------------------------- MODULE KernelDaemon ----------------------------
(***************************************************************************)
(* The kernel daemon (ai-device-kernel/src/bin/adk.rs): one thread per     *)
(* connection, one request per connection, and the shared state behind its *)
(* mutexes: the observation stream, the state model, the screen memory     *)
(* with its SQLite file, and the lazily opened scrcpy bridge.              *)
(*                                                                         *)
(* A step of the model is what a thread does under one lock, or one atomic *)
(* operation.  The one place where two locks are held for different things *)
(* is build_observation (stream, then state): Produce takes the stream     *)
(* lock and Record gives it back.  adb and the phone are outside: what     *)
(* they answer is a nondeterministic choice.                               *)
(***************************************************************************)
EXTENDS StreamEngine, KernelMemory

CONSTANTS
  Conns,         \* connection threads alive at one time
  Free,          \* no thread: the lock is free
  Screens,       \* ScreenIds the focused app can hash to
  NoFocus,       \* dumpsys shows no focused app
  Requests,      \* the requests that may come in on each connection
  EventCap,      \* EVENT_QUEUE_CAP (1024)
  MaxRequests,   \* bound: connections accepted in a behaviour
  MaxCrashes     \* bound: daemon restarts in a behaviour

ASSUME NamesDistinct == Free \notin Conns /\ NoFocus \notin Screens
ASSUME EventCapPositive == EventCap \in Nat \ {0}

\* RequestPayload; the fields of a plan are a Vec's length, a bool and a u32.
ASSUME RequestsKnown ==
  \A c \in Conns : \A req \in Requests[c] :
    /\ req.kind \in {"action", "plan", "query", "observe", "end"}
    /\ req.kind = "plan" => /\ req.steps \in Nat /\ req.checkpoint \in Nat
                            /\ req.abort \in BOOLEAN

VARIABLES
  obs_seq,       \* OBS_SEQ
  stream,        \* Mutex<StreamEngine>
  stream_lock,   \* the thread inside build_observation's critical section
  state,         \* Mutex<StateModel>
  memory,        \* Mutex<Memory>
  rows,          \* the SQLite table: the only thing that survives a crash
  injector,      \* Mutex<Option<ActionInjector>>: "none", "live" or "dead"
  thread,        \* the connection threads
  log,           \* history variable: everything produced since the start
  unsaved,       \* history variable: a persist_screen failed since the start
  accepted, crashes

shared == <<stream, stream_lock, state, memory, rows, injector>>
ghosts == <<log, unsaved, accepted, crashes>>
vars == <<obs_seq, shared, thread, ghosts>>

\* StateModel: the queue of observations.  The recent action results are
\* written under the same lock and read by nobody in the daemon.
NewState == [event_queue |-> <<>>]

(***************************************************************************)
(* A thread: where it is, its request, the seq of the observation or the   *)
(* action it is on, what the action did, how many steps of the plan have a *)
(* result and whether all of them landed, what the observation under       *)
(* construction is for, and the seq of the last reply written to the       *)
(* client (history variable).                                              *)
(***************************************************************************)
Idle == [pc |-> "idle", req |-> [kind |-> "end"], seq |-> 0, landed |-> FALSE,
         results |-> 0, all_landed |-> TRUE, for |-> "none", sent |-> 0]

Goto(c, pc) == thread' = [thread EXCEPT ![c].pc = pc]

Observe(t, purpose) == [t EXCEPT !.pc = "observe", !.for = purpose]

\* The head of a plan's loop: the next step, or the final observation when
\* none is left (an empty plan has none at all) or a failure aborted it.
StepsLeft(t) == t.results < t.req.steps
Aborted(t) == t.req.abort /\ ~t.all_landed

NextStep(t) ==
  IF StepsLeft(t) /\ ~Aborted(t) THEN [t EXCEPT !.pc = "execute"] ELSE Observe(t, "final")

Init ==
  /\ obs_seq = 0
  /\ stream = NewStreamEngine
  /\ stream_lock = Free
  /\ state = NewState
  /\ rows = <<>>
  /\ memory = open(<<>>)
  /\ injector = "none"
  /\ thread = [c \in Conns |-> Idle]
  /\ log = <<>>
  /\ unsaved = FALSE
  /\ accepted = 0
  /\ crashes = 0

(***************************************************************************)
(* main and handle_connection: read the request and go to its first step.  *)
(* A request that cannot be read ends the thread before it does anything.  *)
(***************************************************************************)
FirstStep(req) ==
  CASE req.kind = "action"  -> [Idle EXCEPT !.req = req, !.pc = "execute"]
    [] req.kind = "plan"    -> NextStep([Idle EXCEPT !.req = req])
    [] req.kind = "query"   -> Observe([Idle EXCEPT !.req = req], "query")
    [] req.kind = "observe" -> [Idle EXCEPT !.req = req, !.pc = "subscribe"]
    [] req.kind = "end"     -> [Idle EXCEPT !.req = req, !.pc = "end"]

Accept(c, req) ==
  /\ thread[c].pc = "idle"
  /\ accepted < MaxRequests
  /\ accepted' = accepted + 1
  /\ thread' = [thread EXCEPT ![c] = FirstStep(req)]
  /\ UNCHANGED <<obs_seq, shared, log, unsaved, crashes>>

\* next_obs_seq(): one fetch_add.
next_obs_seq == obs_seq' = obs_seq + 1

(***************************************************************************)
(* handle_observe: the request's filter is not passed on, and nothing      *)
(* polls or removes the subscriber afterwards.                             *)
(***************************************************************************)
Subscribe(c) ==
  /\ thread[c].pc = "subscribe"
  /\ stream_lock = Free
  /\ stream' = subscribe(stream, thread[c].req.since, NoFilter)
  /\ thread' = [thread EXCEPT ![c] = Observe(@, "first")]
  /\ UNCHANGED <<obs_seq, stream_lock, state, memory, rows, injector, ghosts>>

(***************************************************************************)
(* build_observation: the seq is drawn before the adb calls, and the       *)
(* observation is produced after them.                                     *)
(***************************************************************************)
DrawSeq(c) ==
  /\ thread[c].pc = "observe"
  /\ next_obs_seq
  /\ thread' = [thread EXCEPT ![c].pc = "dump", ![c].seq = obs_seq']
  /\ UNCHANGED <<shared, ghosts>>

Observation(c) == [seq |-> thread[c].seq, events |-> {"uptime"}]

\* The stream guard dropped before the state lock is taken.
ProduceUnlocked(c) ==
  /\ thread[c].pc = "dump"
  /\ stream' = produce(stream, Observation(c))
  /\ log' = Append(log, Observation(c))
  /\ Goto(c, "record")
  /\ UNCHANGED <<obs_seq, stream_lock, state, memory, rows, injector, unsaved, accepted, crashes>>

Produce(c) ==
  /\ thread[c].pc = "dump"
  /\ stream_lock = Free
  /\ stream_lock' = c
  /\ stream' = produce(stream, Observation(c))
  /\ log' = Append(log, Observation(c))
  /\ Goto(c, "record")
  /\ UNCHANGED <<obs_seq, state, memory, rows, injector, unsaved, accepted, crashes>>

record_observation(obs) ==
  state' = [state EXCEPT !.event_queue = PushBounded(@, obs, EventCap)]

Record(c) ==
  /\ thread[c].pc = "record"
  /\ record_observation(Observation(c))
  /\ stream_lock' = Free
  /\ Goto(c, "write")
  /\ UNCHANGED <<obs_seq, stream, memory, rows, injector, ghosts>>

(***************************************************************************)
(* The reply that carries the observation.  Observe sends two of them and  *)
(* an end-of-stream with the second one's seq; a checkpoint goes back to   *)
(* the plan's loop; a query and a plan's final observation end the request.*)
(***************************************************************************)
AfterWrite(t) ==
  CASE t.for = "first"      -> Observe(t, "second")
    [] t.for = "checkpoint" -> NextStep(t)
    [] OTHER                -> Idle

WriteReply(c) ==
  /\ thread[c].pc = "write"
  /\ thread' = [thread EXCEPT ![c] = AfterWrite([@ EXCEPT !.sent = thread[c].seq])]
  /\ UNCHANGED <<obs_seq, shared, ghosts>>

\* A socket error in a write ends the thread through the ? operator; at the
\* last reply of a request that is all the thread had left to do anyway.
WriteFails(c) ==
  /\ thread[c].pc = "write"
  /\ thread[c].for \in {"first", "checkpoint"}
  /\ thread' = [thread EXCEPT ![c] = Idle]
  /\ UNCHANGED <<obs_seq, shared, ghosts>>

\* EndOfStream { final_seq: next_obs_seq() - 1 }: the answer burns a seq.
EndOfStream(c) ==
  /\ thread[c].pc = "end"
  /\ next_obs_seq
  /\ thread' = [thread EXCEPT ![c] = Idle]
  /\ UNCHANGED <<shared, ghosts>>

(***************************************************************************)
(* execute_action.  The request's own id is ignored: the action gets the   *)
(* next seq.  Actions that go to the phone return from the bridge without  *)
(* touching memory or state; the others land or not (Wait polls up to five *)
(* seconds, Ground and AskVisual never land, dumps always do).             *)
(***************************************************************************)
uses_scrcpy_bridge(t) == t.req.bridge

\* A success is remembered for the screen it was made on.
AfterAction(landed) == IF landed THEN "remember" ELSE "executed"

Execute(c) ==
  /\ thread[c].pc = "execute"
  /\ next_obs_seq
  /\ IF uses_scrcpy_bridge(thread[c])
     THEN thread' = [thread EXCEPT ![c].seq = obs_seq', ![c].landed = FALSE,
                                   ![c].pc = "bridge"]
     ELSE \E landed \in BOOLEAN :
            thread' = [thread EXCEPT ![c].seq = obs_seq', ![c].landed = landed,
                                     ![c].pc = AfterAction(landed)]
  /\ UNCHANGED <<shared, ghosts>>

(***************************************************************************)
(* ensure_raw_injector and apply, under the injector's lock.  The session  *)
(* is opened by the first action that needs it; when opening fails the     *)
(* next action tries again, but once open it is kept, dead or alive.       *)
(***************************************************************************)
Bridge(c) ==
  /\ thread[c].pc = "bridge"
  /\ \E applied \in BOOLEAN, opened \in {"none", "live"} :
       /\ injector # "none" => opened = "live"
       /\ applied => (opened = "live" /\ injector # "dead")
       /\ injector' = IF injector = "dead" THEN "dead" ELSE opened
       /\ thread' = [thread EXCEPT ![c].landed = applied, ![c].pc = "executed"]
  /\ UNCHANGED <<obs_seq, stream, stream_lock, state, memory, rows, ghosts>>

\* scrcpy-server goes away: the control socket the injector holds is dead.
LinkLost ==
  /\ injector = "live"
  /\ injector' = "dead"
  /\ UNCHANGED <<obs_seq, stream, stream_lock, state, memory, rows, thread, ghosts>>

(***************************************************************************)
(* SharedState::record_success, memory lock held over the persist.  There  *)
(* is nothing to remember when dumpsys shows no focused app.  At most one  *)
(* persist fails between two restarts (a bound of the model).              *)
(***************************************************************************)
Remember(c) ==
  /\ thread[c].pc = "remember"
  /\ \E focus \in Screens \cup {NoFocus}, saved \in BOOLEAN :
       IF focus = NoFocus
       THEN saved /\ UNCHANGED <<memory, rows, unsaved>>
       ELSE /\ saved \/ ~unsaved
            /\ memory' = record_success(memory, focus, "local")
            /\ rows' = IF saved /\ focus \in Cached(memory')
                       THEN persist_screen(rows, focus, peek(memory', focus))
                       ELSE rows
            /\ unsaved' = (unsaved \/ ~saved)
  /\ Goto(c, "executed")
  /\ UNCHANGED <<obs_seq, stream, stream_lock, state, injector, log, accepted, crashes>>

(***************************************************************************)
(* After the action: a lone one is answered.  A plan's step is verified,   *)
(* recorded, and followed by a checkpoint, the next step or the final      *)
(* observation.  A wait_before that times out lets its step run, so it     *)
(* changes nothing here.                                                   *)
(***************************************************************************)
Reply(c) ==
  /\ thread[c].pc = "executed"
  /\ thread[c].req.kind = "action"
  /\ thread' = [thread EXCEPT ![c] = Idle]
  /\ UNCHANGED <<obs_seq, shared, ghosts>>

CheckpointDue(t) == t.req.checkpoint > 0 /\ t.results % t.req.checkpoint = 0

\* abort_on_error forgotten where the step's record is pushed.
AfterStepNoAbort(t) ==
  IF CheckpointDue(t) THEN Observe(t, "checkpoint")
  ELSE IF StepsLeft(t) THEN [t EXCEPT !.pc = "execute"] ELSE Observe(t, "final")

AfterStep(t) ==
  IF ~Aborted(t) /\ CheckpointDue(t) THEN Observe(t, "checkpoint") ELSE NextStep(t)

StepVerified(c) ==
  /\ thread[c].pc = "executed"
  /\ thread[c].req.kind = "plan"
  /\ \E verified \in IF thread[c].landed THEN BOOLEAN ELSE {FALSE} :
       LET t == thread[c]
           landed == t.landed /\ verified
       IN thread' = [thread EXCEPT ![c] =
                       AfterStep([t EXCEPT !.results = t.results + 1,
                                           !.all_landed = t.all_landed /\ landed])]
  /\ UNCHANGED <<obs_seq, shared, ghosts>>

(***************************************************************************)
(* The process dies and main starts again with SharedState::new.           *)
(***************************************************************************)
Crash ==
  /\ crashes < MaxCrashes
  /\ crashes' = crashes + 1
  /\ obs_seq' = 0
  /\ stream' = NewStreamEngine
  /\ stream_lock' = Free
  /\ state' = NewState
  /\ memory' = open(rows)
  /\ injector' = "none"
  /\ thread' = [c \in Conns |-> Idle]
  /\ log' = <<>>
  /\ unsaved' = FALSE
  /\ UNCHANGED <<rows, accepted>>

Step(c) ==
  \/ Subscribe(c) \/ DrawSeq(c) \/ Produce(c) \/ Record(c)
  \/ WriteReply(c) \/ WriteFails(c) \/ EndOfStream(c)
  \/ Execute(c) \/ Bridge(c) \/ Remember(c) \/ Reply(c) \/ StepVerified(c)

Next ==
  \/ \E c \in Conns : Step(c) \/ \E req \in Requests[c] : Accept(c, req)
  \/ LinkLost
  \/ Crash

Spec == Init /\ [][Next]_vars
-----------------------------------------------------------------------------
\* Locks and program counters have their types and agree.
TypeOK ==
  /\ obs_seq \in Nat
  /\ stream_lock \in Conns \cup {Free}
  /\ \A c \in Conns : stream_lock = c <=> thread[c].pc = "record"
  /\ injector \in {"none", "live", "dead"}
  /\ Cached(memory) \subseteq Screens

(***************************************************************************)
(* The single source of truth: whatever the interleaving of the threads,   *)
(* the state model has seen the same observations in the same order as the *)
(* stream's subscribers, except for the one being recorded.                *)
(***************************************************************************)
StateFollowsStream ==
  LET recorded == IF stream_lock = Free THEN log ELSE Front(log) IN
    /\ state.event_queue = LastOf(recorded, EventCap)
    /\ stream.history = LastOf(log, HistoryCap)
    /\ stream.next_seq = Len(log)

(***************************************************************************)
(* A crash forgets nothing that was saved: as long as every persist_screen *)
(* went through, a restart at this point would rebuild exactly this        *)
(* memory, evictions and recency included, although the file also keeps    *)
(* the screens that were evicted.                                          *)
(***************************************************************************)
RestartRemembers ==
  /\ LruIsDomain(memory)
  /\ ~unsaved => open(rows) = memory

(***************************************************************************)
(* What a client reads on its connection: seqs strictly increase, whatever *)
(* the other threads draw in between; a plan with abort_on_error stops at  *)
(* its first failed step, a plan without it runs every step.               *)
(***************************************************************************)
AnswersInOrder ==
  \A c \in Conns :
    LET t == thread[c] IN
      /\ t.pc = "write" => t.sent < t.seq
      /\ t.req.kind = "plan" =>
           /\ t.pc = "execute" => ~Aborted(t)
           /\ t.for = "final" => t.results = t.req.steps \/ Aborted(t)

=============================================================================
