---------------------------- MODULE KernelProofs ----------------------------
(***************************************************************************)
(* Proofs about the kernel: the daemon (KernelDaemon) and the library's    *)
(* plan executor (PlanExecutor), which share the stream engine and nothing *)
(* else.                                                                   *)
(*                                                                         *)
(* The daemon, for any number of connection threads, any requests, any     *)
(* capacities and any number of crashes: the state model records what the  *)
(* stream produced, in the stream's order, every client reads increasing   *)
(* sequence numbers, and a restart rebuilds the screen memory from its     *)
(* file as it was, if nothing failed to be saved.                          *)
(*                                                                         *)
(* The executor, for any plans, any predicates, any captures and any       *)
(* failures of the socket: what a plan reports as landed is on the wire    *)
(* or on its way, once and in order unless a write failed; a wait ends at  *)
(* its deadline; no subscriber's count of what it missed is ever wrong.    *)
(***************************************************************************)
EXTENDS KernelDaemon, PlanExecutor, SequenceLemmas, FiniteSetTheorems

-----------------------------------------------------------------------------
(* Bounded queues and the tail of a history.                               *)

(* The last n elements of a sequence that has them.                        *)
LEMMA LastOfFacts ==
  ASSUME NEW S, NEW s \in Seq(S), NEW n \in Nat, n <= Len(s)
  PROVE  /\ LastOf(s, n) \in Seq(S) /\ Len(LastOf(s, n)) = n
         /\ \A i \in 1..n : LastOf(s, n)[i] = s[(Len(s) - n) + i]
<1>1. Len(s) \in Nat /\ \A i \in 1..Len(s) : s[i] \in S
  BY LenProperties, ElementOfSeq
<1>2. CASE Len(s) = n
  <2>1. LastOf(s, n) = s
    BY <1>1, <1>2 DEF LastOf
  <2> QED BY <1>1, <1>2, <2>1
<1>3. CASE Len(s) > n
  <2> DEFINE m == (Len(s) - n) + 1
  <2>1. LastOf(s, n) = SubSeq(s, m, Len(s))
    BY <1>1, <1>3 DEF LastOf
  <2>2. m \in Int /\ \A i \in m..Len(s) : s[i] \in S
    BY <1>1, <1>3
  <2>3. /\ SubSeq(s, m, Len(s)) \in Seq(S)
        /\ Len(SubSeq(s, m, Len(s))) =
             IF m <= Len(s) THEN (Len(s) - m) + 1 ELSE 0
        /\ \A i \in 1..((Len(s) - m) + 1) :
             SubSeq(s, m, Len(s))[i] = s[(m + i) - 1]
    <3> HIDE DEF m
    <3> QED BY <1>1, <2>2, SubSeqProperties
  <2>4. /\ (Len(s) - m) + 1 = n /\ (n = 0 \/ m <= Len(s))
        /\ \A i \in 1..n : (m + i) - 1 = (Len(s) - n) + i
    BY <1>1, <1>3
  <2> HIDE DEF m
  <2>5. Len(LastOf(s, n)) = n
    BY <2>1, <2>3, <2>4
  <2>6. \A i \in 1..n : LastOf(s, n)[i] = s[(Len(s) - n) + i]
    BY <2>1, <2>3, <2>4
  <2> QED BY <2>1, <2>3, <2>5, <2>6
<1> QED BY <1>1, <1>2, <1>3

(* A push that drops the front of a full queue keeps the queue the tail of *)
(* everything that was pushed.                                             *)
LEMMA PushKeepsLastOf ==
  ASSUME NEW S, NEW s \in Seq(S), NEW x \in S, NEW cap \in Nat \ {0}
  PROVE  PushBounded(LastOf(s, cap), x, cap) = LastOf(Append(s, x), cap)
<1>1. /\ Len(s) \in Nat /\ Append(s, x) \in Seq(S)
      /\ Len(Append(s, x)) = Len(s) + 1
      /\ \A i \in 1..Len(s) : Append(s, x)[i] = s[i]
      /\ Append(s, x)[Len(s) + 1] = x
  BY LenProperties, AppendProperties
<1>2. CASE Len(s) < cap
  <2>1. LastOf(s, cap) = s /\ LastOf(Append(s, x), cap) = Append(s, x)
    BY <1>1, <1>2 DEF LastOf
  <2> QED BY <1>1, <1>2, <2>1 DEF PushBounded
<1>3. CASE cap <= Len(s)
  <2> DEFINE q == LastOf(s, cap)
             p == PushBounded(q, x, cap)
             r == LastOf(Append(s, x), cap)
  <2>1. /\ q \in Seq(S) /\ Len(q) = cap
        /\ \A i \in 1..cap : q[i] = s[(Len(s) - cap) + i]
    BY <1>3, LastOfFacts
  <2>2. cap <= Len(Append(s, x)) /\ (Len(s) + 1) - cap = (Len(s) - cap) + 1
    BY <1>1, <1>3
  <2>3. /\ r \in Seq(S) /\ Len(r) = cap
        /\ \A i \in 1..cap : r[i] = Append(s, x)[((Len(s) + 1) - cap) + i]
    <3> DEFINE a == Append(s, x)
    <3>1. a \in Seq(S) /\ Len(a) = Len(s) + 1 /\ cap \in Nat /\ cap <= Len(a)
      BY <1>1, <2>2
    <3> HIDE DEF a
    <3>2. /\ LastOf(a, cap) \in Seq(S) /\ Len(LastOf(a, cap)) = cap
          /\ \A i \in 1..cap : LastOf(a, cap)[i] = a[(Len(a) - cap) + i]
      BY <3>1, LastOfFacts
    <3> QED BY <3>1, <3>2 DEF a
  <2> HIDE DEF q, r
  <2>4. q # <<>>
    BY <2>1
  <2>5. /\ Tail(q) \in Seq(S) /\ Len(Tail(q)) = cap - 1
        /\ \A i \in 1..(cap - 1) : Tail(q)[i] = q[i + 1]
    BY <2>1, <2>4, HeadTailProperties
  <2>6. p = Append(Tail(q), x)
    BY <2>1 DEF PushBounded
  <2>7. /\ p \in Seq(S) /\ Len(p) = cap
        /\ \A i \in 1..(cap - 1) : p[i] = q[i + 1]
        /\ p[cap] = x
    <3>1. /\ Append(Tail(q), x) \in Seq(S)
          /\ Len(Append(Tail(q), x)) = Len(Tail(q)) + 1
          /\ \A i \in 1..Len(Tail(q)) : Append(Tail(q), x)[i] = Tail(q)[i]
          /\ Append(Tail(q), x)[Len(Tail(q)) + 1] = x
      BY <2>5, AppendProperties
    <3> HIDE DEF p
    <3> QED BY <2>5, <2>6, <3>1
  <2> HIDE DEF p
  <2>8. ASSUME NEW i \in 1..cap PROVE p[i] = r[i]
    <3>1. CASE i = cap
      <4>1. ((Len(s) + 1) - cap) + i = Len(s) + 1
        BY <1>1, <3>1
      <4> QED BY <1>1, <2>3, <2>7, <3>1, <4>1
    <3>2. CASE i # cap
      <4>1. i \in 1..(cap - 1) /\ i + 1 \in 1..cap
        BY <3>2
      <4>2. /\ ((Len(s) + 1) - cap) + i = (Len(s) - cap) + (i + 1)
            /\ (Len(s) - cap) + (i + 1) \in 1..Len(s)
        BY <1>1, <1>3, <4>1
      <4>3. r[i] = s[(Len(s) - cap) + (i + 1)]
        BY <1>1, <2>3, <4>2
      <4>4. p[i] = s[(Len(s) - cap) + (i + 1)]
        BY <2>1, <2>7, <4>1
      <4> QED BY <4>3, <4>4
    <3> QED BY <3>1, <3>2
  <2>9. p = r
    BY <2>3, <2>7, <2>8, SeqEqual
  <2> QED BY <2>9 DEF p, q, r
<1> QED BY <1>1, <1>2, <1>3

(* Front undoes Append.                                                    *)
LEMMA FrontOfAppend ==
  ASSUME NEW S, NEW s \in Seq(S), NEW x \in S
  PROVE  Front(Append(s, x)) = s
<1>1. /\ Len(s) \in Nat /\ Append(s, x) \in Seq(S)
      /\ Len(Append(s, x)) = Len(s) + 1
      /\ \A i \in 1..Len(s) : Append(s, x)[i] = s[i]
  BY LenProperties, AppendProperties
<1> DEFINE f == SubSeq(Append(s, x), 1, Len(s))
<1>2. Front(Append(s, x)) = f
  <2>1. (Len(s) + 1) - 1 = Len(s)
    BY <1>1
  <2> QED BY <1>1, <2>1 DEF Front
<1>3. \A i \in 1..Len(s) : Append(s, x)[i] \in S
  BY <1>1, ElementOfSeq
<1>4. /\ f \in Seq(S) /\ Len(f) = Len(s)
      /\ \A i \in 1..Len(s) : f[i] = Append(s, x)[i]
  BY <1>1, <1>3, SubSeqProperties
<1> HIDE DEF f
<1>5. f = s
  BY <1>1, <1>4, SeqEqual
<1> QED BY <1>2, <1>5

-----------------------------------------------------------------------------
(* The invariant.                                                          *)

Obs == [seq : Nat, events : {{"uptime"}}]

KnownRequests == {[kind |-> "end"]} \cup (UNION {Requests[c] : c \in Conns})

Thread ==
  [pc : {"idle", "execute", "bridge", "remember", "executed", "subscribe",
         "observe", "dump", "record", "write", "end"},
   req : KnownRequests, seq : Nat, landed : BOOLEAN, results : Nat,
   all_landed : BOOLEAN,
   for : {"none", "query", "first", "second", "checkpoint", "final"},
   sent : Nat]

\* A thread has drawn no seq above n, answers with a seq above the last one
\* it sent, and is where its plan says.
ThreadOK(t, n) ==
  /\ t \in Thread
  /\ t.sent <= n /\ t.seq <= n
  /\ t.pc \in {"dump", "record", "write"} => t.sent < t.seq
  /\ t.for = "checkpoint" => t.req.kind = "plan"
  /\ t.req.kind = "plan" =>
       /\ t.pc = "execute" => ~Aborted(t)
       /\ t.pc \in {"execute", "bridge", "remember", "executed"} =>
            StepsLeft(t) /\ t.for # "final"
       /\ t.results <= t.req.steps
       /\ t.for = "final" => t.results = t.req.steps \/ Aborted(t)

ThreadsOK ==
  /\ obs_seq \in Nat
  /\ thread \in [Conns -> Thread]
  /\ \A c \in Conns : ThreadOK(thread[c], obs_seq)

LockOK ==
  /\ stream_lock \in Conns \cup {Free}
  /\ \A c \in Conns : stream_lock = c <=> thread[c].pc = "record"

\* The stream holds the tail of the log, and the state model the tail of the
\* log without the observation that the lock's holder is about to record.
StreamOK ==
  /\ log \in Seq(Obs)
  /\ stream = [next_seq |-> Len(log), history |-> LastOf(log, HistoryCap),
               subscribers |-> stream.subscribers]
  /\ \E r \in Seq(Obs) :
       /\ state = [event_queue |-> LastOf(r, EventCap)]
       /\ log = IF stream_lock = Free THEN r
                ELSE Append(r, Observation(stream_lock))

DaemonInv == ThreadsOK /\ LockOK /\ StreamOK

-----------------------------------------------------------------------------
(* What a step of one thread leaves alone.                                 *)

(* One thread moves and the counter does not go back.                      *)
LEMMA ThreadMoves ==
  ASSUME ThreadsOK, NEW c \in Conns, NEW u, thread' = [thread EXCEPT ![c] = u],
         obs_seq' \in Nat, obs_seq <= obs_seq', ThreadOK(u, obs_seq')
  PROVE  ThreadsOK' /\ thread'[c] = u
<1>1. /\ thread \in [Conns -> Thread] /\ u \in Thread /\ obs_seq \in Nat
      /\ \A d \in Conns : ThreadOK(thread[d], obs_seq)
  BY DEF ThreadsOK, ThreadOK
<1>2. /\ thread' \in [Conns -> Thread] /\ thread'[c] = u
      /\ \A d \in Conns : d # c => thread'[d] = thread[d]
  BY <1>1
<1>3. ASSUME NEW d \in Conns PROVE ThreadOK(thread'[d], obs_seq')
  <2>1. CASE d = c
    BY <1>2, <2>1
  <2>2. CASE d # c
    <3>1. ThreadOK(thread[d], obs_seq) /\ thread'[d] = thread[d]
      BY <1>1, <1>2, <2>2
    <3>2. thread[d].sent \in Nat /\ thread[d].seq \in Nat
      BY <1>1 DEF Thread
    <3>3. thread[d].sent <= obs_seq' /\ thread[d].seq <= obs_seq'
      BY <1>1, <3>1, <3>2 DEF ThreadOK
    <3> QED BY <3>1, <3>3 DEF ThreadOK
  <2> QED BY <2>1, <2>2
<1> QED BY <1>2, <1>3 DEF ThreadsOK

(* A thread outside the critical section moves and stays outside.          *)
LEMMA OutsideMoves ==
  ASSUME DaemonInv, NEW c \in Conns, NEW u, thread' = [thread EXCEPT ![c] = u],
         obs_seq' \in Nat, obs_seq <= obs_seq', ThreadOK(u, obs_seq'),
         thread[c].pc # "record", u.pc # "record",
         UNCHANGED <<stream_lock, state, log>>,
         stream' = [stream EXCEPT !.subscribers = stream'.subscribers]
  PROVE  DaemonInv'
<1>1. ThreadsOK /\ LockOK /\ StreamOK
  BY DEF DaemonInv
<1>2. ThreadsOK' /\ thread'[c] = u
  BY <1>1, ThreadMoves
<1>3. \A d \in Conns : d # c => thread'[d] = thread[d]
  BY <1>1 DEF ThreadsOK
<1>4. LockOK'
  BY <1>1, <1>2, <1>3 DEF LockOK
<1>5. stream' = [next_seq |-> Len(log), history |-> LastOf(log, HistoryCap),
                 subscribers |-> stream'.subscribers]
  <2> DEFINE n == Len(log)
             h == LastOf(log, HistoryCap)
             s == stream.subscribers
             x == stream'.subscribers
  <2>1. stream = [next_seq |-> n, history |-> h, subscribers |-> s]
    BY <1>1 DEF StreamOK
  <2>2. stream' = [stream EXCEPT !.subscribers = x]
    OBVIOUS
  <2> HIDE DEF n, h, s, x
  <2>3. stream' = [next_seq |-> n, history |-> h, subscribers |-> x]
    BY <2>1, <2>2
  <2> QED BY <2>3 DEF n, h, x
<1>6. stream_lock # Free => Observation(stream_lock)' = Observation(stream_lock)
  <2>1. SUFFICES ASSUME stream_lock # Free
                 PROVE  thread'[stream_lock] = thread[stream_lock]
    BY DEF Observation
  <2>2. stream_lock \in Conns /\ stream_lock # c
    BY <1>1, <2>1 DEF LockOK
  <2> QED BY <1>3, <2>2
<1>7. StreamOK'
  BY <1>1, <1>5, <1>6 DEF StreamOK
<1> QED BY <1>2, <1>4, <1>7 DEF DaemonInv

-----------------------------------------------------------------------------
(* The places a thread goes to.                                            *)

(* A thread's request came in on some connection, or is that of no request.*)
LEMMA KnownFacts ==
  \A r : r \in KnownRequests
          <=> r = [kind |-> "end"] \/ \E c \in Conns : r \in Requests[c]
<1>1. \A r : r \in UNION {Requests[c] : c \in Conns}
              <=> \E c \in Conns : r \in Requests[c]
  BY Zenon
<1>2. \A r : r \in {[kind |-> "end"]} <=> r = [kind |-> "end"]
  BY Zenon
<1> QED BY <1>1, <1>2, Zenon DEF KnownRequests

(* The idle thread.                                                        *)
LEMMA IdleOK ==
  ASSUME NEW n \in Nat
  PROVE  Idle \in Thread /\ ThreadOK(Idle, n) /\ Idle.pc = "idle"
<1>1. [kind |-> "end"] \in KnownRequests
  BY KnownFacts, Zenon
<1>2. Idle \in Thread
  BY <1>1 DEF Idle, Thread
<1> QED BY <1>2 DEF Idle, ThreadOK

(* What is known of a request.                                             *)
LEMMA RequestFacts ==
  ASSUME NEW t \in Thread
  PROVE  /\ t.req.kind \in {"action", "plan", "query", "observe", "end"}
         /\ t.req.kind = "plan" => t.req.steps \in Nat /\ t.req.checkpoint \in Nat
<1>1. t.req \in KnownRequests
  BY DEF Thread
<1>2. t.req = [kind |-> "end"] \/ \E c \in Conns : t.req \in Requests[c]
  BY <1>1, KnownFacts, Zenon
<1>3. CASE t.req = [kind |-> "end"]
  BY <1>3
<1>4. CASE \E c \in Conns : t.req \in Requests[c]
  BY <1>4, RequestsKnown
<1> QED BY <1>2, <1>3, <1>4

(* The head of a plan's loop.                                              *)
LEMMA NextStepOK ==
  ASSUME NEW n \in Nat, NEW t \in Thread, t.req.kind = "plan",
         t.sent <= n, t.seq <= n, t.results <= t.req.steps, t.for # "final"
  PROVE  ThreadOK(NextStep(t), n) /\ NextStep(t).pc # "record"
<1>1. t.req.steps \in Nat /\ t.results \in Nat
  BY RequestFacts DEF Thread
<1>2. CASE StepsLeft(t) /\ ~Aborted(t)
  <2> DEFINE u == [t EXCEPT !.pc = "execute"]
  <2>1. NextStep(t) = u
    BY <1>2 DEF NextStep
  <2>2. /\ u \in Thread /\ u.pc = "execute" /\ u.req = t.req /\ u.seq = t.seq
        /\ u.sent = t.sent /\ u.results = t.results /\ u.for = t.for
        /\ u.all_landed = t.all_landed
    BY DEF Thread
  <2> HIDE DEF u
  <2>3. StepsLeft(u) /\ ~Aborted(u)
    BY <1>2, <2>2 DEF StepsLeft, Aborted
  <2>4. ThreadOK(u, n)
    BY <2>2, <2>3 DEF ThreadOK
  <2> QED BY <2>1, <2>2, <2>4
<1>3. CASE ~(StepsLeft(t) /\ ~Aborted(t))
  <2> DEFINE u == [t EXCEPT !.pc = "observe", !.for = "final"]
  <2>1. NextStep(t) = u
    BY <1>3 DEF NextStep, Observe
  <2>2. /\ u \in Thread /\ u.pc = "observe" /\ u.req = t.req /\ u.seq = t.seq
        /\ u.sent = t.sent /\ u.results = t.results /\ u.for = "final"
        /\ u.all_landed = t.all_landed
    BY DEF Thread
  <2> HIDE DEF u
  <2>3. t.results = t.req.steps \/ Aborted(t)
    BY <1>1, <1>3 DEF StepsLeft
  <2>4. u.results = u.req.steps \/ Aborted(u)
    BY <2>2, <2>3 DEF Aborted
  <2>5. ThreadOK(u, n)
    BY <2>2, <2>4 DEF ThreadOK
  <2> QED BY <2>1, <2>2, <2>5
<1> QED BY <1>2, <1>3

(* A thread that goes on to an observation which is not the final one.     *)
LEMMA ObserveOK ==
  ASSUME NEW n \in Nat, NEW t \in Thread, t.sent <= n, t.seq <= n,
         t.req.kind = "plan" => t.results <= t.req.steps,
         NEW purpose \in {"query", "first", "second", "checkpoint"},
         purpose = "checkpoint" => t.req.kind = "plan"
  PROVE  ThreadOK(Observe(t, purpose), n) /\ Observe(t, purpose).pc = "observe"
<1> DEFINE u == [t EXCEPT !.pc = "observe", !.for = purpose]
<1>1. /\ u \in Thread /\ u.pc = "observe" /\ u.req = t.req /\ u.seq = t.seq
      /\ u.sent = t.sent /\ u.results = t.results /\ u.for = purpose
  BY DEF Thread
<1>2. Observe(t, purpose) = u
  BY DEF Observe
<1> HIDE DEF u
<1>3. ThreadOK(u, n)
  BY <1>1 DEF ThreadOK
<1> QED BY <1>1, <1>2, <1>3

(* Where a request starts.                                                 *)
LEMMA FirstStepOK ==
  ASSUME NEW n \in Nat, NEW c \in Conns, NEW req \in Requests[c]
  PROVE  ThreadOK(FirstStep(req), n) /\ FirstStep(req).pc # "record"
<1> DEFINE t == [Idle EXCEPT !.req = req]
<1>1. req \in KnownRequests
  BY KnownFacts
<1>2. /\ t \in Thread /\ t.req = req /\ t.seq = 0 /\ t.sent = 0
      /\ t.results = 0 /\ t.for = "none" /\ t.pc = "idle"
  BY <1>1 DEF Idle, Thread
<1>3. \A to : [Idle EXCEPT !.req = req, !.pc = to] = [t EXCEPT !.pc = to]
  BY DEF Idle
<1> HIDE DEF t
<1>4. CASE req.kind = "plan"
  <2>1. FirstStep(req) = NextStep(t)
    BY <1>4 DEF FirstStep, t
  <2>2. t.results <= t.req.steps
    BY <1>2, <1>4, RequestFacts
  <2> QED BY <1>2, <1>4, <2>1, <2>2, NextStepOK
<1>5. CASE req.kind = "query"
  <2>1. FirstStep(req) = Observe(t, "query")
    BY <1>5 DEF FirstStep, t
  <2> QED BY <1>2, <1>5, <2>1, ObserveOK
<1>6. CASE req.kind \in {"action", "observe", "end"}
  <2>1. PICK to \in {"execute", "subscribe", "end"} :
          FirstStep(req) = [t EXCEPT !.pc = to]
    BY <1>3, <1>6 DEF FirstStep
  <2> DEFINE u == [t EXCEPT !.pc = to]
  <2>2. /\ u \in Thread /\ u.pc = to /\ u.req = req /\ u.seq = 0 /\ u.sent = 0
        /\ u.for = "none"
    BY <1>2 DEF Thread
  <2> HIDE DEF u
  <2>3. ThreadOK(u, n) /\ u.pc # "record"
    BY <1>6, <2>2 DEF ThreadOK
  <2> QED BY <2>1, <2>3 DEF u
<1> QED BY <1>4, <1>5, <1>6, RequestsKnown

-----------------------------------------------------------------------------
(* Every step keeps the invariant.                                         *)

\* What the steps outside build_observation's critical section leave alone.
StreamUntouched == UNCHANGED <<stream, stream_lock, state, log>>

(* OutsideMoves for a step that does not touch the stream.                 *)
LEMMA QuietMoves ==
  ASSUME DaemonInv, NEW c \in Conns, NEW u, thread' = [thread EXCEPT ![c] = u],
         obs_seq' \in Nat, obs_seq <= obs_seq', ThreadOK(u, obs_seq'),
         thread[c].pc # "record", u.pc # "record", StreamUntouched
  PROVE  DaemonInv'
<1>1. UNCHANGED <<stream, stream_lock, state, log>>
  BY DEF StreamUntouched
<1>2. stream = [next_seq |-> Len(log), history |-> LastOf(log, HistoryCap),
                subscribers |-> stream.subscribers]
  BY DEF DaemonInv, StreamOK
<1>3. stream' = [stream EXCEPT !.subscribers = stream'.subscribers]
  <2> DEFINE n == Len(log)
             h == LastOf(log, HistoryCap)
             s == stream.subscribers
  <2>1. stream = [next_seq |-> n, history |-> h, subscribers |-> s]
    BY <1>2
  <2>2. stream'.subscribers = s /\ stream' = stream
    BY <1>1
  <2> HIDE DEF n, h, s
  <2> QED BY <2>1, <2>2
<1> QED BY <1>1, <1>3, OutsideMoves

(* What is known of a thread before it moves.                              *)
LEMMA ThreadFacts ==
  ASSUME DaemonInv, NEW c \in Conns
  PROVE  /\ thread[c] \in Thread /\ ThreadOK(thread[c], obs_seq)
         /\ obs_seq \in Nat /\ obs_seq + 1 \in Nat /\ obs_seq <= obs_seq + 1
         /\ thread[c].seq \in Nat /\ thread[c].sent \in Nat
         /\ thread[c].results \in Nat
         /\ thread[c].sent <= obs_seq /\ thread[c].seq <= obs_seq
<1>1. thread[c] \in Thread /\ ThreadOK(thread[c], obs_seq) /\ obs_seq \in Nat
  BY DEF DaemonInv, ThreadsOK
<1> QED BY <1>1 DEF Thread, ThreadOK

(* Accepting a connection.                                                 *)
LEMMA AcceptInv ==
  ASSUME DaemonInv, NEW c \in Conns, NEW req \in Requests[c], Accept(c, req)
  PROVE  DaemonInv'
<1>1. obs_seq \in Nat
  BY ThreadFacts
<1>2. /\ thread[c].pc = "idle" /\ thread' = [thread EXCEPT ![c] = FirstStep(req)]
      /\ obs_seq' = obs_seq /\ StreamUntouched
  BY DEF Accept, shared, StreamUntouched
<1>3. obs_seq' \in Nat /\ obs_seq <= obs_seq'
  BY <1>1, <1>2
<1>4. ThreadOK(FirstStep(req), obs_seq') /\ FirstStep(req).pc # "record"
  BY <1>3, FirstStepOK
<1> QED BY <1>2, <1>3, <1>4, QuietMoves

(* Subscribing changes the subscribers and nothing else of the stream.     *)
LEMMA SubscribeInv ==
  ASSUME DaemonInv, NEW c \in Conns, Subscribe(c)
  PROVE  DaemonInv'
<1> DEFINE u == Observe(thread[c], "first")
<1>1. /\ thread[c].pc = "subscribe" /\ thread' = [thread EXCEPT ![c] = u]
      /\ obs_seq' = obs_seq /\ UNCHANGED <<stream_lock, state, log>>
      /\ stream' = subscribe(stream, thread[c].req.since, NoFilter)
  BY DEF Subscribe, ghosts
<1>2. stream' = [stream EXCEPT !.subscribers = stream'.subscribers]
  <2>1. PICK x : stream' = [stream EXCEPT !.subscribers = x]
    BY <1>1 DEF subscribe
  <2> DEFINE n == Len(log)
             h == LastOf(log, HistoryCap)
             s == stream.subscribers
  <2>2. stream = [next_seq |-> n, history |-> h, subscribers |-> s]
    BY DEF DaemonInv, StreamOK
  <2> HIDE DEF n, h, s
  <2>3. stream'.subscribers = x
    BY <2>1, <2>2
  <2> QED BY <2>1, <2>3
<1>3. obs_seq' \in Nat /\ obs_seq <= obs_seq'
  BY <1>1, ThreadFacts
<1>4. ThreadOK(u, obs_seq') /\ u.pc = "observe"
  <2>1. /\ thread[c] \in Thread /\ thread[c].sent <= obs_seq'
        /\ thread[c].seq <= obs_seq'
    BY <1>1, ThreadFacts
  <2>2. thread[c].req.kind = "plan" => thread[c].results <= thread[c].req.steps
    BY ThreadFacts DEF ThreadOK
  <2> QED BY <1>3, <2>1, <2>2, ObserveOK
<1> HIDE DEF u
<1> QED BY <1>1, <1>2, <1>3, <1>4, OutsideMoves

(* Drawing the seq of an observation.                                      *)
LEMMA DrawSeqInv ==
  ASSUME DaemonInv, NEW c \in Conns, DrawSeq(c)
  PROVE  DaemonInv'
<1> DEFINE t == thread[c]
           u == [thread[c] EXCEPT !.pc = "dump", !.seq = obs_seq']
<1>1. /\ t.pc = "observe" /\ obs_seq' = obs_seq + 1 /\ StreamUntouched
      /\ thread' = [thread EXCEPT ![c] = u]
  BY DEF DrawSeq, next_obs_seq, shared, ghosts, StreamUntouched
<1>2. /\ t \in Thread /\ ThreadOK(t, obs_seq) /\ obs_seq \in Nat
      /\ obs_seq' \in Nat /\ obs_seq <= obs_seq' /\ t.sent \in Nat
      /\ t.sent <= obs_seq
  BY <1>1, ThreadFacts
<1>3. /\ u \in Thread /\ u.pc = "dump" /\ u.seq = obs_seq' /\ u.req = t.req
      /\ u.sent = t.sent /\ u.results = t.results /\ u.for = t.for
      /\ u.all_landed = t.all_landed
  BY <1>2 DEF Thread
<1> HIDE DEF u, t
<1>4. u.sent <= obs_seq' /\ u.seq <= obs_seq' /\ u.sent < u.seq
  BY <1>1, <1>2, <1>3
<1>5. Aborted(u) = Aborted(t)
  BY <1>3 DEF Aborted
<1>6. ThreadOK(u, obs_seq')
  BY <1>2, <1>3, <1>4, <1>5 DEF ThreadOK
<1> QED BY <1>1, <1>2, <1>3, <1>6, QuietMoves DEF t

(* Writing a reply.                                                        *)
LEMMA WriteReplyInv ==
  ASSUME DaemonInv, NEW c \in Conns, WriteReply(c)
  PROVE  DaemonInv'
<1> DEFINE t == thread[c]
           v == [thread[c] EXCEPT !.sent = thread[c].seq]
           u == AfterWrite(v)
<1>1. /\ t.pc = "write" /\ obs_seq' = obs_seq /\ StreamUntouched
      /\ thread' = [thread EXCEPT ![c] = u]
  BY DEF WriteReply, shared, ghosts, StreamUntouched
<1>2. /\ t \in Thread /\ ThreadOK(t, obs_seq) /\ obs_seq' \in Nat
      /\ obs_seq <= obs_seq' /\ t.seq <= obs_seq' /\ t.seq \in Nat
  BY <1>1, ThreadFacts
<1>3. /\ v \in Thread /\ v.pc = "write" /\ v.seq = t.seq /\ v.req = t.req
      /\ v.sent = t.seq /\ v.results = t.results /\ v.for = t.for
  BY <1>1, <1>2 DEF Thread
<1> HIDE DEF v, t
<1>4. /\ v.req.kind = "plan" => v.results <= v.req.steps
      /\ v.for = "checkpoint" => v.req.kind = "plan"
  BY <1>2, <1>3 DEF ThreadOK
<1>5. CASE v.for = "first"
  <2>1. u = Observe(v, "second")
    BY <1>5 DEF AfterWrite
  <2>2. ThreadOK(u, obs_seq') /\ u.pc # "record"
    BY <1>2, <1>3, <1>4, <2>1, ObserveOK
  <2> HIDE DEF u
  <2> QED BY <1>1, <1>2, <2>2, QuietMoves DEF t
<1>6. CASE v.for = "checkpoint" /\ v.req.kind = "plan"
  <2>1. u = NextStep(v)
    BY <1>6 DEF AfterWrite
  <2>2. ThreadOK(u, obs_seq') /\ u.pc # "record"
    BY <1>2, <1>3, <1>4, <1>6, <2>1, NextStepOK
  <2> HIDE DEF u
  <2> QED BY <1>1, <1>2, <2>2, QuietMoves DEF t
<1>7. CASE v.for \notin {"first", "checkpoint"}
  <2>1. u = Idle
    BY <1>7 DEF AfterWrite
  <2>2. ThreadOK(u, obs_seq') /\ u.pc # "record"
    BY <1>2, <2>1, IdleOK
  <2> HIDE DEF u
  <2> QED BY <1>1, <1>2, <2>2, QuietMoves DEF t
<1> QED BY <1>4, <1>5, <1>6, <1>7

(* The steps that end a request.                                           *)
LEMMA EndsInv ==
  ASSUME DaemonInv, NEW c \in Conns,
         WriteFails(c) \/ EndOfStream(c) \/ Reply(c)
  PROVE  DaemonInv'
<1>1. /\ thread[c].pc \in {"write", "end", "executed"} /\ StreamUntouched
      /\ thread' = [thread EXCEPT ![c] = Idle]
      /\ obs_seq' = obs_seq \/ obs_seq' = obs_seq + 1
  BY DEF WriteFails, EndOfStream, Reply, next_obs_seq, shared, ghosts,
         StreamUntouched
<1>2. obs_seq' \in Nat /\ obs_seq <= obs_seq'
  BY <1>1, ThreadFacts
<1>3. ThreadOK(Idle, obs_seq') /\ Idle.pc # "record"
  BY <1>2, IdleOK
<1> QED BY <1>1, <1>2, <1>3, QuietMoves

(* A thread that runs an action moves from one part of it to the next.     *)
LEMMA ActionMoves ==
  ASSUME NEW t, NEW n \in Nat, NEW m \in Nat, ThreadOK(t, n), n <= m,
         t.pc \in {"execute", "bridge", "remember"},
         NEW u \in Thread, u.pc \in {"bridge", "remember", "executed"},
         u.req = t.req, u.results = t.results, u.for = t.for, u.sent = t.sent,
         u.seq <= m
  PROVE  ThreadOK(u, m)
<1>1. t.sent \in Nat /\ t.sent <= n
  BY DEF ThreadOK, Thread
<1>2. u.sent <= m
  BY <1>1
<1>3. u.req.kind = "plan" => StepsLeft(u) /\ u.for # "final"
  BY DEF ThreadOK, StepsLeft
<1> QED BY <1>2, <1>3 DEF ThreadOK

(* execute_action draws a seq and runs the action.                         *)
LEMMA ExecuteInv ==
  ASSUME DaemonInv, NEW c \in Conns, Execute(c)
  PROVE  DaemonInv'
<1> DEFINE t == thread[c]
<1>1. t.pc = "execute" /\ obs_seq' = obs_seq + 1 /\ StreamUntouched
  BY DEF Execute, next_obs_seq, shared, ghosts, StreamUntouched
<1>2. PICK landed \in BOOLEAN, to \in {"bridge", "remember", "executed"} :
        thread' = [thread EXCEPT ![c] =
                     [thread[c] EXCEPT !.seq = obs_seq', !.landed = landed,
                                       !.pc = to]]
  BY DEF Execute, AfterAction
<1>3. /\ t \in Thread /\ ThreadOK(t, obs_seq) /\ obs_seq \in Nat
      /\ obs_seq' \in Nat /\ obs_seq <= obs_seq'
  BY <1>1, ThreadFacts
<1> DEFINE u == [thread[c] EXCEPT !.seq = obs_seq', !.landed = landed, !.pc = to]
<1>4. /\ u \in Thread /\ u.pc = to /\ u.seq = obs_seq' /\ u.req = t.req
      /\ u.sent = t.sent /\ u.results = t.results /\ u.for = t.for
  BY <1>3 DEF Thread
<1>5. thread' = [thread EXCEPT ![c] = u]
  BY <1>2
<1> HIDE DEF u, t
<1>6. u.seq <= obs_seq'
  BY <1>3, <1>4
<1>7. ThreadOK(u, obs_seq')
  BY <1>1, <1>3, <1>4, <1>6, ActionMoves
<1> QED BY <1>1, <1>3, <1>4, <1>5, <1>7, QuietMoves DEF t

(* The bridge and the memory.                                              *)
LEMMA BridgeInv ==
  ASSUME DaemonInv, NEW c \in Conns, Bridge(c) \/ Remember(c)
  PROVE  DaemonInv'
<1> DEFINE t == thread[c]
<1>1. t.pc \in {"bridge", "remember"} /\ obs_seq' = obs_seq /\ StreamUntouched
  BY DEF Bridge, Remember, ghosts, StreamUntouched
<1>2. /\ t \in Thread /\ ThreadOK(t, obs_seq) /\ obs_seq \in Nat
      /\ obs_seq' \in Nat /\ obs_seq <= obs_seq' /\ t.seq <= obs_seq'
  BY <1>1, ThreadFacts
<1>3. PICK landed \in BOOLEAN :
        thread' = [thread EXCEPT ![c] =
                     [thread[c] EXCEPT !.landed = landed, !.pc = "executed"]]
  <2>1. CASE Bridge(c)
    BY <2>1 DEF Bridge
  <2>2. CASE Remember(c)
    <3>1. thread' = [thread EXCEPT ![c] = [thread[c] EXCEPT !.pc = "executed"]]
      BY <2>2 DEF Remember, Goto
    <3>2. /\ thread[c].landed \in BOOLEAN
          /\ [thread[c] EXCEPT !.landed = thread[c].landed, !.pc = "executed"]
               = [thread[c] EXCEPT !.pc = "executed"]
      BY <1>2 DEF Thread
    <3> QED BY <3>1, <3>2
  <2> QED BY <2>1, <2>2
<1> DEFINE u == [thread[c] EXCEPT !.landed = landed, !.pc = "executed"]
<1>4. /\ u \in Thread /\ u.pc = "executed" /\ u.seq = t.seq /\ u.req = t.req
      /\ u.sent = t.sent /\ u.results = t.results /\ u.for = t.for
  BY <1>2 DEF Thread
<1>5. thread' = [thread EXCEPT ![c] = u]
  BY <1>3
<1> HIDE DEF u, t
<1>6. ThreadOK(u, obs_seq')
  BY <1>1, <1>2, <1>4, ActionMoves
<1>7. t.pc # "record"
  BY <1>1
<1> QED BY <1>1, <1>2, <1>4, <1>5, <1>6, <1>7, QuietMoves DEF t

(* A plan's step is over.                                                  *)
LEMMA VerifiedInv ==
  ASSUME DaemonInv, NEW c \in Conns, StepVerified(c)
  PROVE  DaemonInv'
<1> DEFINE t == thread[c]
<1>1. /\ t.pc = "executed" /\ t.req.kind = "plan" /\ obs_seq' = obs_seq
      /\ StreamUntouched
  BY DEF StepVerified, shared, ghosts, StreamUntouched
<1>2. /\ t \in Thread /\ ThreadOK(t, obs_seq) /\ obs_seq \in Nat
      /\ obs_seq' \in Nat /\ obs_seq <= obs_seq' /\ t.seq <= obs_seq'
      /\ t.sent <= obs_seq' /\ t.results \in Nat
  BY <1>1, ThreadFacts
<1>3. PICK all \in BOOLEAN :
        thread' = [thread EXCEPT ![c] =
                     AfterStep([thread[c] EXCEPT !.results = thread[c].results + 1,
                                                 !.all_landed = all])]
  <2>1. PICK verified \in IF thread[c].landed THEN BOOLEAN ELSE {FALSE} :
          thread' = [thread EXCEPT ![c] =
            AfterStep([thread[c] EXCEPT
              !.results = thread[c].results + 1,
              !.all_landed = thread[c].all_landed /\ (thread[c].landed /\ verified)])]
    BY Zenon DEF StepVerified
  <2>2. (thread[c].all_landed /\ (thread[c].landed /\ verified)) \in BOOLEAN
    BY Zenon
  <2> QED BY <2>1, <2>2, Zenon
<1> DEFINE v == [thread[c] EXCEPT !.results = thread[c].results + 1,
                             !.all_landed = all]
           u == AfterStep(v)
<1>4. /\ v \in Thread /\ v.seq = t.seq /\ v.req = t.req /\ v.sent = t.sent
      /\ v.results = t.results + 1 /\ v.for = t.for
  <2> DEFINE k == thread[c].results + 1
  <2>1. k \in Nat
    BY <1>2
  <2> HIDE DEF k
  <2>2. v = [thread[c] EXCEPT !.results = k, !.all_landed = all]
    BY DEF k
  <2>3. /\ v \in Thread /\ v.seq = t.seq /\ v.req = t.req /\ v.sent = t.sent
        /\ v.results = k /\ v.for = t.for
    BY <1>2, <2>1, <2>2 DEF Thread
  <2> QED BY <2>3 DEF k
<1>5. thread' = [thread EXCEPT ![c] = u]
  BY <1>3
<1> HIDE DEF v, t
<1>6. /\ v.results <= v.req.steps /\ v.for # "final" /\ v.req.kind = "plan"
      /\ v.sent <= obs_seq' /\ v.seq <= obs_seq'
  <2>1. t.req.steps \in Nat
    BY <1>1, <1>2, RequestFacts
  <2> QED BY <1>1, <1>2, <1>4, <2>1 DEF ThreadOK, StepsLeft
<1>7. ThreadOK(u, obs_seq') /\ u.pc # "record"
  <2>1. u = Observe(v, "checkpoint") \/ u = NextStep(v)
    BY DEF AfterStep
  <2>2. CASE u = Observe(v, "checkpoint")
    BY <1>2, <1>4, <1>6, <2>2, ObserveOK
  <2>3. CASE u = NextStep(v)
    BY <1>2, <1>4, <1>6, <2>3, NextStepOK
  <2> QED BY <2>1, <2>2, <2>3
<1> HIDE DEF u
<1>8. t.pc # "record"
  BY <1>1
<1> QED BY <1>1, <1>2, <1>5, <1>7, <1>8, QuietMoves DEF t

(* Entering the critical section: the stream and the log grow, the state   *)
(* model does not yet.                                                     *)
LEMMA ProduceInv ==
  ASSUME DaemonInv, NEW c \in Conns, Produce(c)
  PROVE  DaemonInv'
<1> DEFINE t == thread[c]
           u == [thread[c] EXCEPT !.pc = "record"]
           x == Observation(c)
<1>1. /\ t.pc = "dump" /\ stream_lock = Free /\ stream_lock' = c
      /\ thread' = [thread EXCEPT ![c] = u] /\ obs_seq' = obs_seq
      /\ state' = state /\ log' = Append(log, x)
      /\ stream' = produce(stream, x)
  BY DEF Produce, Goto
<1>2. /\ t \in Thread /\ ThreadOK(t, obs_seq) /\ obs_seq' \in Nat
      /\ obs_seq <= obs_seq' /\ t.seq \in Nat
      /\ ThreadsOK /\ LockOK /\ StreamOK /\ thread \in [Conns -> Thread]
  BY <1>1, ThreadFacts DEF DaemonInv, ThreadsOK
<1>3. /\ u \in Thread /\ u.pc = "record" /\ u.seq = t.seq /\ u.req = t.req
      /\ u.sent = t.sent /\ u.results = t.results /\ u.for = t.for
      /\ u.all_landed = t.all_landed
  BY <1>2 DEF Thread
<1>4. x \in Obs
  BY <1>2 DEF Observation, Obs
<1> HIDE DEF u
<1>5. ThreadOK(u, obs_seq')
  <2>1. Aborted(u) = Aborted(t)
    BY <1>3 DEF Aborted
  <2> QED BY <1>1, <1>2, <1>3, <2>1 DEF ThreadOK
<1>6. ThreadsOK' /\ thread'[c] = u
  BY <1>1, <1>2, <1>5, ThreadMoves
<1>7. \A d \in Conns : d # c => thread'[d] = thread[d]
  BY <1>1, <1>2
<1>8. LockOK'
  BY <1>1, <1>2, <1>3, <1>6, <1>7, NamesDistinct DEF LockOK
<1>9. Observation(c)' = x
  BY <1>3, <1>6 DEF Observation
<1> HIDE DEF x, t
<1>10. PICK r \in Seq(Obs) : state = [event_queue |-> LastOf(r, EventCap)] /\ log = r
  BY <1>1, <1>2 DEF StreamOK
<1>11. /\ state' = [event_queue |-> LastOf(r, EventCap)]
       /\ log' = Append(r, Observation(stream_lock)')
  <2>1. Observation(stream_lock)' = Observation(c)'
    BY <1>1 DEF Observation
  <2> QED BY <1>1, <1>9, <1>10, <2>1
<1>12. log' \in Seq(Obs) /\ Len(log') = Len(log) + 1 /\ log \in Seq(Obs)
  BY <1>1, <1>4, <1>10, AppendProperties
<1>13. stream' = [next_seq |-> Len(log'), history |-> LastOf(log', HistoryCap),
                  subscribers |-> stream'.subscribers]
  <2>1. stream.next_seq = Len(log) /\ stream.history = LastOf(log, HistoryCap)
    BY <1>2 DEF StreamOK
  <2>2. PushBounded(LastOf(log, HistoryCap), x, HistoryCap)
          = LastOf(Append(log, x), HistoryCap)
    BY <1>4, <1>12, CapsPositive, PushKeepsLastOf
  <2>3. PICK s : stream' = [next_seq |-> Len(log) + 1,
                            history |-> LastOf(log', HistoryCap),
                            subscribers |-> s]
    BY <1>1, <2>1, <2>2 DEF produce
  <2> QED BY <1>12, <2>3
<1>14. stream_lock' # Free
  BY <1>1, NamesDistinct
<1>15. StreamOK'
  BY <1>11, <1>12, <1>13, <1>14 DEF StreamOK
<1> QED BY <1>6, <1>8, <1>15 DEF DaemonInv

(* Leaving it: the state model records the same observation.               *)
LEMMA RecordInv ==
  ASSUME DaemonInv, NEW c \in Conns, Record(c)
  PROVE  DaemonInv'
<1> DEFINE t == thread[c]
           u == [thread[c] EXCEPT !.pc = "write"]
           x == Observation(c)
<1>1. /\ t.pc = "record" /\ stream_lock' = Free /\ obs_seq' = obs_seq
      /\ thread' = [thread EXCEPT ![c] = u] /\ stream' = stream /\ log' = log
      /\ state' = [state EXCEPT !.event_queue =
                     PushBounded(state.event_queue, x, EventCap)]
  BY DEF Record, Goto, record_observation, ghosts
<1>2. /\ t \in Thread /\ ThreadOK(t, obs_seq) /\ obs_seq' \in Nat
      /\ obs_seq <= obs_seq' /\ t.seq \in Nat
      /\ ThreadsOK /\ LockOK /\ StreamOK /\ thread \in [Conns -> Thread]
  BY <1>1, ThreadFacts DEF DaemonInv, ThreadsOK
<1>3. /\ u \in Thread /\ u.pc = "write" /\ u.seq = t.seq /\ u.req = t.req
      /\ u.sent = t.sent /\ u.results = t.results /\ u.for = t.for
      /\ u.all_landed = t.all_landed
  BY <1>2 DEF Thread
<1>4. x \in Obs
  BY <1>2 DEF Observation, Obs
<1> HIDE DEF u
<1>5. ThreadOK(u, obs_seq')
  <2>1. Aborted(u) = Aborted(t)
    BY <1>3 DEF Aborted
  <2> QED BY <1>1, <1>2, <1>3, <2>1 DEF ThreadOK
<1>6. ThreadsOK' /\ thread'[c] = u
  BY <1>1, <1>2, <1>5, ThreadMoves
<1>7. \A d \in Conns : d # c => thread'[d] = thread[d]
  BY <1>1, <1>2
<1>8. stream_lock = c /\ stream_lock # Free
  BY <1>1, <1>2, NamesDistinct DEF LockOK
<1>9. LockOK'
  BY <1>1, <1>2, <1>3, <1>6, <1>7, <1>8, NamesDistinct DEF LockOK
<1> HIDE DEF x, t
<1>10. PICK r \in Seq(Obs) :
         state = [event_queue |-> LastOf(r, EventCap)] /\ log = Append(r, x)
  BY <1>2, <1>8 DEF StreamOK, x
<1>11. state' = [event_queue |-> LastOf(log', EventCap)]
  <2>1. PushBounded(LastOf(r, EventCap), x, EventCap) = LastOf(log, EventCap)
    BY <1>4, <1>10, EventCapPositive, PushKeepsLastOf
  <2> DEFINE q == LastOf(r, EventCap)
             p == PushBounded(LastOf(r, EventCap), x, EventCap)
  <2>2. state = [event_queue |-> q]
    BY <1>10
  <2>3. state' = [state EXCEPT !.event_queue = PushBounded(state.event_queue, x, EventCap)]
    BY <1>1
  <2>4. state.event_queue = q
    BY <2>2
  <2>5. state' = [state EXCEPT !.event_queue = p]
    BY <2>3, <2>4
  <2> HIDE DEF q, p
  <2>6. state' = [event_queue |-> p]
    BY <2>2, <2>5
  <2> QED BY <1>1, <2>1, <2>6 DEF p
<1>12. log' \in Seq(Obs)
  BY <1>1, <1>2 DEF StreamOK
<1>13. StreamOK'
  BY <1>1, <1>2, <1>11, <1>12 DEF StreamOK
<1> QED BY <1>6, <1>9, <1>13 DEF DaemonInv

\* SharedState::new, for the first time or after a crash.
Started ==
  /\ obs_seq = 0 /\ stream = NewStreamEngine /\ stream_lock = Free
  /\ state = NewState /\ thread = [c \in Conns |-> Idle] /\ log = <<>>

(* A process that has just started satisfies the invariant.                *)
LEMMA StartInv == Started => DaemonInv
<1> SUFFICES ASSUME Started PROVE DaemonInv
  OBVIOUS
<1> USE DEF Started
<1>1. ThreadsOK
  BY IdleOK DEF ThreadsOK
<1>2. LockOK
  BY IdleOK, NamesDistinct DEF LockOK
<1>3. <<>> \in Seq(Obs) /\ Len(<<>>) = 0
  OBVIOUS
<1>4. LastOf(<<>>, HistoryCap) = <<>> /\ LastOf(<<>>, EventCap) = <<>>
  BY <1>3, CapsPositive, EventCapPositive DEF LastOf
<1>5. StreamOK
  BY <1>3, <1>4 DEF StreamOK, NewStreamEngine, NewState
<1> QED BY <1>1, <1>2, <1>5 DEF DaemonInv

(* Every step keeps the invariant, crashes included.                       *)
LEMMA StepInv == DaemonInv /\ [Next]_vars => DaemonInv'
<1> SUFFICES ASSUME DaemonInv, [Next]_vars PROVE DaemonInv'
  OBVIOUS
<1>1. ASSUME NEW c \in Conns, Step(c) PROVE DaemonInv'
  BY <1>1, SubscribeInv, DrawSeqInv, ProduceInv, RecordInv, WriteReplyInv,
     EndsInv, ExecuteInv, BridgeInv, VerifiedInv DEF Step
<1>2. ASSUME NEW c \in Conns, NEW req \in Requests[c], Accept(c, req)
      PROVE  DaemonInv'
  BY <1>2, AcceptInv
<1>3. CASE LinkLost \/ UNCHANGED vars
  <2>1. UNCHANGED <<obs_seq, stream, stream_lock, state, thread, log>>
    BY <1>3 DEF LinkLost, vars, shared, ghosts
  <2> QED BY <2>1 DEF DaemonInv, ThreadsOK, LockOK, StreamOK, Observation
<1>4. CASE Crash
  <2>1. Started'
    BY <1>4 DEF Crash, Started
  <2>2. Started' => DaemonInv'
    BY StartInv, PTL
  <2> QED BY <2>1, <2>2
<1> QED BY <1>1, <1>2, <1>3, <1>4 DEF Next

(* The daemon's bookkeeping is right in every reachable state: each thread *)
(* is where its plan says with a seq above the last one it sent, the       *)
(* stream lock is held exactly while a thread has produced an observation  *)
(* and not yet recorded it, and stream and state model hold the tails of   *)
(* the same log.                                                           *)
THEOREM DaemonInvariant == Spec => []DaemonInv
<1>1. Init => DaemonInv
  BY StartInv DEF Init, Started
<1>2. DaemonInv /\ [Next]_vars => DaemonInv'
  BY StepInv
<1> QED BY <1>1, <1>2, PTL DEF Spec

(* Whatever the interleaving of the connection threads, the state model    *)
(* has recorded the observations the stream handed to its subscribers, in  *)
(* the same order, except for the one whose producer still holds the lock. *)
THEOREM DaemonStateFollowsStream == Spec => []StateFollowsStream
<1>1. DaemonInv => StateFollowsStream
  <2>1. SUFFICES ASSUME DaemonInv PROVE StateFollowsStream
    OBVIOUS
  <2>2. LockOK /\ StreamOK /\ ThreadsOK
    BY <2>1 DEF DaemonInv
  <2>3. PICK r \in Seq(Obs) :
          /\ state = [event_queue |-> LastOf(r, EventCap)]
          /\ log = IF stream_lock = Free THEN r
                   ELSE Append(r, Observation(stream_lock))
    BY <2>2 DEF StreamOK
  <2>4. state.event_queue = LastOf(r, EventCap)
    BY <2>3
  <2>5. r = IF stream_lock = Free THEN log ELSE Front(log)
    <3>1. CASE stream_lock = Free
      BY <2>3, <3>1
    <3>2. CASE stream_lock # Free
      <4>1. stream_lock \in Conns /\ thread[stream_lock] \in Thread
        BY <2>2, <3>2 DEF LockOK, ThreadsOK
      <4>2. Observation(stream_lock) \in Obs
        BY <4>1 DEF Observation, Obs, Thread
      <4> QED BY <2>3, <3>2, <4>2, FrontOfAppend
    <3> QED BY <3>1, <3>2
  <2>6. stream.history = LastOf(log, HistoryCap) /\ stream.next_seq = Len(log)
    BY <2>2 DEF StreamOK
  <2> QED BY <2>4, <2>5, <2>6 DEF StateFollowsStream
<1> QED BY <1>1, DaemonInvariant, PTL

(* What a client reads on its connection: increasing seqs, and of a plan   *)
(* every step, or with abort_on_error the steps up to the first failure.   *)
THEOREM DaemonAnswersInOrder == Spec => []AnswersInOrder
<1>1. DaemonInv => AnswersInOrder
  BY DEF DaemonInv, ThreadsOK, ThreadOK, AnswersInOrder
<1> QED BY <1>1, DaemonInvariant, PTL

-----------------------------------------------------------------------------
(* The screen memory and its file.  A memory is the image of a sequence of *)
(* rows, oldest first: its window.  Recording a success puts the screen's  *)
(* row at the end of the window; persist_screen does the same to the whole *)
(* file, so the window stays the file's last MaxEntries rows, and open(),  *)
(* which replays the file row by row, ends up with just these.             *)

\* Rows as the daemon writes them: it never records a failure.
Entry == [successes : Seq({"local"}), failures : {<<>>}]

Row == [sid : Screens, entry : Entry]

\* No screen has two rows.
Distinct(w) == \A i, j \in 1..Len(w) : w[i].sid = w[j].sid => i = j

Others(sid) == {r \in Row : r.sid # sid}

\* The order of the screens of w, the entry each has, and the memory they make.
Order(w) == [i \in 1..Len(w) |-> w[i].sid]

Entries(R) == [s \in {r.sid : r \in R} |-> (CHOOSE r \in R : r.sid = s).entry]

Image(w) == [entries |-> Entries(Range(w)), lru |-> Order(w)]

\* The window of rows that is cached, after r was recorded.
Put(w, r) == PushBounded(Only(w, Others(r.sid)), r, MaxEntries)

(* The elements of a sequence.                                             *)
LEMMA ElementsOf ==
  ASSUME NEW A, NEW w \in Seq(A)
  PROVE  Range(w) = {w[i] : i \in 1..Len(w)} /\ Range(w) \subseteq A
<1>1. DOMAIN w = 1..Len(w) /\ \A i \in 1..Len(w) : w[i] \in A
  BY LenProperties, ElementOfSeq
<1> QED BY <1>1 DEF Range

(* A sequence that is one longer has one element more.                     *)
LEMMA RangeOfAppend ==
  ASSUME NEW A, NEW w \in Seq(A), NEW r \in A
  PROVE  Range(Append(w, r)) = Range(w) \cup {r}
<1>1. /\ Len(w) \in Nat /\ Append(w, r) \in Seq(A)
      /\ Len(Append(w, r)) = Len(w) + 1
      /\ \A i \in 1..Len(w) : Append(w, r)[i] = w[i]
      /\ Append(w, r)[Len(w) + 1] = r
  BY LenProperties, AppendProperties
<1>2. DOMAIN w = 1..Len(w) /\ DOMAIN Append(w, r) = 1..(Len(w) + 1)
  BY <1>1, LenProperties
<1> DEFINE t == Append(w, r)
<1> HIDE DEF t
<1>3. /\ \A i \in 1..Len(w) : t[i] = w[i]
      /\ t[Len(w) + 1] = r /\ DOMAIN t = 1..(Len(w) + 1)
  BY <1>1, <1>2 DEF t
<1>4. Range(t) = Range(w) \cup {r}
  <2>1. ASSUME NEW y \in Range(t) PROVE y \in Range(w) \cup {r}
    <3>1. PICK i \in 1..(Len(w) + 1) : y = t[i]
      BY <1>3 DEF Range
    <3>2. i \in 1..Len(w) \/ i = Len(w) + 1
      BY <1>1, <3>1
    <3> QED BY <1>2, <1>3, <3>1, <3>2 DEF Range
  <2>2. ASSUME NEW y \in Range(w) PROVE y \in Range(t)
    <3>1. PICK i \in 1..Len(w) : y = w[i]
      BY <1>2 DEF Range
    <3>2. i \in 1..(Len(w) + 1) /\ t[i] = y
      BY <1>1, <1>3, <3>1
    <3> QED BY <1>3, <3>2 DEF Range
  <2>3. r \in Range(t)
    <3>1. Len(w) + 1 \in 1..(Len(w) + 1)
      BY <1>1
    <3> QED BY <1>3, <3>1 DEF Range
  <2> QED BY <2>1, <2>2, <2>3
<1> QED BY <1>4 DEF t

(* Rows without a second one of a screen stay so when a row is appended    *)
(* exactly when its screen has none yet.                                   *)
LEMMA DistinctAppend ==
  ASSUME NEW w \in Seq(Row), NEW r \in Row
  PROVE  Distinct(Append(w, r)) <=>
           Distinct(w) /\ \A q \in Range(w) : q.sid # r.sid
<1>1. /\ Len(w) \in Nat /\ Append(w, r) \in Seq(Row)
      /\ Len(Append(w, r)) = Len(w) + 1
      /\ \A i \in 1..Len(w) : Append(w, r)[i] = w[i]
      /\ Append(w, r)[Len(w) + 1] = r
  BY LenProperties, AppendProperties
<1>2. Range(w) = {w[i] : i \in 1..Len(w)}
  BY ElementsOf
<1> DEFINE t == Append(w, r)
           n == Len(w)
<1>3. /\ n \in Nat /\ Len(t) = n + 1
      /\ \A i \in 1..n : t[i] = w[i] /\ t[n + 1] = r
  BY <1>1
<1> HIDE DEF t
<1>4. ASSUME Distinct(t)
      PROVE  Distinct(w) /\ \A q \in Range(w) : q.sid # r.sid
  <2>1. \A i, j \in 1..(n + 1) : t[i].sid = t[j].sid => i = j
    BY <1>3, <1>4 DEF Distinct
  <2>2. ASSUME NEW i \in 1..n, NEW j \in 1..n, w[i].sid = w[j].sid PROVE i = j
    <3>1. i \in 1..(n + 1) /\ j \in 1..(n + 1) /\ t[i] = w[i] /\ t[j] = w[j]
      BY <1>3
    <3> QED BY <2>1, <2>2, <3>1
  <2>3. ASSUME NEW i \in 1..n PROVE w[i].sid # r.sid
    <3>1. i \in 1..(n + 1) /\ n + 1 \in 1..(n + 1) /\ i # n + 1
      BY <1>3
    <3>2. t[i] = w[i] /\ t[n + 1] = r
      BY <1>1 DEF t
    <3> QED BY <2>1, <3>1, <3>2
  <2> QED BY <1>2, <2>2, <2>3 DEF Distinct
<1>5. ASSUME Distinct(w), \A q \in Range(w) : q.sid # r.sid
      PROVE  Distinct(t)
  <2>1. \A i, j \in 1..n : w[i].sid = w[j].sid => i = j
    BY <1>5 DEF Distinct
  <2>2. \A i \in 1..n : w[i].sid # r.sid
    BY <1>2, <1>5
  <2>3. t[n + 1] = r
    BY <1>1 DEF t
  <2>4. ASSUME NEW i \in 1..(n + 1), NEW j \in 1..(n + 1), t[i].sid = t[j].sid
        PROVE  i = j
    <3>1. (i \in 1..n \/ i = n + 1) /\ (j \in 1..n \/ j = n + 1)
      BY <1>3
    <3>2. CASE i \in 1..n /\ j \in 1..n
      <4>1. t[i] = w[i] /\ t[j] = w[j]
        BY <1>3, <3>2
      <4> QED BY <2>1, <2>4, <3>2, <4>1
    <3>3. CASE i \in 1..n /\ j = n + 1
      <4>1. t[i] = w[i] /\ t[j] = r
        BY <1>3, <2>3, <3>3
      <4> QED BY <2>2, <2>4, <3>3, <4>1
    <3>4. CASE i = n + 1 /\ j \in 1..n
      <4>1. t[j] = w[j] /\ t[i] = r
        BY <1>3, <2>3, <3>4
      <4> QED BY <2>2, <2>4, <3>4, <4>1
    <3>5. CASE i = n + 1 /\ j = n + 1
      BY <3>5
    <3> QED BY <3>1, <3>2, <3>3, <3>4, <3>5
  <2> QED BY <1>3, <2>4 DEF Distinct
<1> QED BY <1>4, <1>5 DEF t

(* The screens of a sequence that is one longer.                           *)
LEMMA OrderAppend ==
  ASSUME NEW w \in Seq(Row), NEW r \in Row
  PROVE  /\ Order(w) \in Seq(Screens)
         /\ Order(Append(w, r)) = Append(Order(w), r.sid)
<1>1. /\ Len(w) \in Nat /\ Len(Append(w, r)) = Len(w) + 1
      /\ \A i \in 1..Len(w) : Append(w, r)[i] = w[i] /\ w[i].sid \in Screens
      /\ Append(w, r)[Len(w) + 1] = r /\ r.sid \in Screens
  <2>1. \A i \in 1..Len(w) : w[i] \in Row
    BY ElementOfSeq
  <2> QED BY <2>1, LenProperties, AppendProperties DEF Row
<1> DEFINE t == Append(w, r)
           q == [i \in 1..(Len(w) + 1) |-> t[i].sid]
           o == [i \in 1..Len(w) |-> w[i].sid]
<1>2. Order(t) = q /\ Order(w) = o
  BY <1>1 DEF Order
<1>3. /\ Len(t) = Len(w) + 1 /\ t[Len(w) + 1] = r
      /\ \A i \in 1..Len(w) : t[i] = w[i]
  BY <1>1
<1> HIDE DEF t
<1>4. o \in Seq(Screens) /\ Len(o) = Len(w)
  BY <1>1
<1>5. /\ \A i \in 1..Len(w) : t[i].sid \in Screens
      /\ t[Len(w) + 1].sid = r.sid
  BY <1>1, <1>3
<1>6. \A i \in 1..(Len(w) + 1) : t[i].sid \in Screens
  <2>1. \A i \in 1..(Len(w) + 1) : i \in 1..Len(w) \/ i = Len(w) + 1
    BY <1>1
  <2> QED BY <1>1, <1>5, <2>1
<1>7. q \in Seq(Screens) /\ Len(q) = Len(w) + 1
  BY <1>1, <1>6
<1> DEFINE a == Append(o, r.sid)
<1>8. /\ a \in Seq(Screens) /\ Len(a) = Len(w) + 1
      /\ \A i \in 1..Len(w) : a[i] = o[i] /\ a[Len(w) + 1] = r.sid
  <2> HIDE DEF o
  <2> QED BY <1>1, <1>4, AppendProperties
<1>9. \A i \in 1..(Len(w) + 1) : q[i] = a[i]
  <2>1. ASSUME NEW i \in 1..(Len(w) + 1) PROVE q[i] = a[i]
    <3>1. CASE i \in 1..Len(w)
      <4>1. a[i] = w[i].sid
        <5> HIDE DEF a
        <5> QED BY <1>8, <3>1
      <4>2. q[i] = w[i].sid
        BY <1>3, <3>1
      <4> QED BY <4>1, <4>2
    <3>2. CASE i = Len(w) + 1
      <4>1. a[i] = r.sid
        BY <1>1, <1>4, <3>2, AppendProperties
      <4>2. q[i] = r.sid
        BY <1>5, <3>2
      <4> QED BY <4>1, <4>2
    <3> QED BY <1>1, <3>1, <3>2
  <2> QED BY <2>1
<1>10. q = a
  <2> HIDE DEF q, a
  <2> QED BY <1>7, <1>8, <1>9, SeqEqual
<1> QED BY <1>2, <1>4, <1>10 DEF t

(* Dropping a screen's row from rows without a second one: its row goes,   *)
(* the others stay, in order, and at most one row is gone.                 *)
LEMMA DropRow ==
  ASSUME NEW w \in Seq(Row), NEW sid \in Screens, Distinct(w)
  PROVE  LET d == Only(w, Others(sid))
         IN  /\ d \in Seq(Row) /\ Distinct(d)
             /\ Range(d) = Range(w) \cap Others(sid)
             /\ Order(d) = Only(Order(w), Screens \ {sid})
             /\ Len(d) = IF \E r \in Range(w) : r.sid = sid THEN Len(w) - 1 ELSE Len(w)
<1> DEFINE S == Others(sid)
           T == Screens \ {sid}
           Good(u) == /\ Only(u, S) \in Seq(Row) /\ Distinct(Only(u, S))
                      /\ Range(Only(u, S)) = Range(u) \cap S
                      /\ Order(Only(u, S)) = Only(Order(u), T)
                      /\ Order(u) \in Seq(Screens)
                      /\ Len(Only(u, S)) = IF \E r \in Range(u) : r.sid = sid
                                           THEN Len(u) - 1 ELSE Len(u)
           P == {u \in Seq(Row) : Distinct(u) => Good(u)}
<1>0. \A r \in Row : r.sid \in Screens /\ (r \in S <=> r.sid # sid)
  BY DEF Row, Others
<1>1. <<>> \in P
  <2>1. <<>> \in Seq(Row) /\ Len(<<>>) = 0
    OBVIOUS
  <2>2. Only(<<>>, S) = <<>> /\ Only(<<>>, T) = <<>>
    BY OnlyEmpty
  <2>3. Distinct(<<>>) /\ Range(<<>>) = {}
    BY <2>1 DEF Distinct, Range
  <2>4. Order(<<>>) = <<>>
    BY DEF Order
  <2>5. <<>> \in Seq(Screens)
    OBVIOUS
  <2>6. /\ Only(<<>>, S) \in Seq(Row) /\ Distinct(Only(<<>>, S))
        /\ Range(Only(<<>>, S)) = Range(<<>>) \cap S
    BY <2>1, <2>2, <2>3
  <2>7. Order(Only(<<>>, S)) = Only(Order(<<>>), T) /\ Order(<<>>) \in Seq(Screens)
    BY <2>2, <2>4, <2>5
  <2>8. Len(Only(<<>>, S)) = IF \E r \in Range(<<>>) : r.sid = sid
                             THEN Len(<<>>) - 1 ELSE Len(<<>>)
    BY <2>1, <2>2, <2>3
  <2> QED BY <2>1, <2>6, <2>7, <2>8
<1>2. ASSUME NEW u \in Seq(Row), NEW r \in Row, u \in P
      PROVE  Append(u, r) \in P
  <2> DEFINE t == Append(u, r)
  <2>1. t \in Seq(Row) /\ Len(t) = Len(u) + 1 /\ Len(u) \in Nat
    BY LenProperties, AppendProperties
  <2> SUFFICES ASSUME Distinct(t) PROVE Good(t)
    BY <2>1
  <2>2. Distinct(u) /\ (\A q \in Range(u) : q.sid # r.sid) /\ Good(u)
    BY <1>2, DistinctAppend
  <2>3. Range(t) = Range(u) \cup {r}
    BY RangeOfAppend
  <2>4. Only(t, S) = IF r \in S THEN Append(Only(u, S), r) ELSE Only(u, S)
    BY OnlyAppend
  <2>5. \A v \in Seq(Row) : Order(Append(v, r)) = Append(Order(v), r.sid)
    BY OrderAppend
  <2>6. Order(t) \in Seq(Screens) /\ Order(t) = Append(Order(u), r.sid)
    <3>1. Order(t) = Append(Order(u), r.sid)
      BY <2>5
    <3>2. Order(u) \in Seq(Screens) /\ r.sid \in Screens
      BY <1>0, <2>2
    <3> QED BY <3>1, <3>2, AppendProperties
  <2>7. Only(Order(t), T) = IF r.sid \in T THEN Append(Only(Order(u), T), r.sid)
                                          ELSE Only(Order(u), T)
    <3>1. Order(u) \in Seq(Screens) /\ r.sid \in Screens
      BY <1>0, <2>2
    <3> DEFINE o == Order(u)
               x == r.sid
    <3> HIDE DEF T, o, x
    <3>2. o \in Seq(Screens) /\ x \in Screens
      BY <3>1 DEF o, x
    <3>3. Only(Append(o, x), T) = IF x \in T THEN Append(Only(o, T), x) ELSE Only(o, T)
      BY <3>2, OnlyAppend
    <3> QED BY <2>6, <3>3 DEF o, x
  <2>8. r.sid \in T <=> r.sid # sid
    BY <1>0
  <2> DEFINE d == Only(u, S)
  <2>9. CASE r.sid = sid
    <3>1. Only(t, S) = d /\ Only(Order(t), T) = Only(Order(u), T)
      BY <1>0, <2>4, <2>7, <2>8, <2>9
    <3>2. Range(t) \cap S = Range(u) \cap S
      BY <1>0, <2>3, <2>9
    <3>3. /\ \E q \in Range(t) : q.sid = sid
          /\ ~ \E q \in Range(u) : q.sid = sid
      BY <2>2, <2>3, <2>9
    <3>4. Len(d) = Len(t) - 1
      BY <2>1, <2>2, <3>3
    <3> HIDE DEF S, T, t
    <3>5. Only(t, S) \in Seq(Row) /\ Distinct(Only(t, S)) /\ Range(Only(t, S)) = Range(t) \cap S
      BY <2>2, <3>1, <3>2
    <3>6. Order(Only(t, S)) = Only(Order(t), T)
      BY <2>2, <3>1
    <3>7. Len(Only(t, S)) = IF \E q \in Range(t) : q.sid = sid THEN Len(t) - 1 ELSE Len(t)
      BY <3>1, <3>3, <3>4
    <3> QED BY <2>6, <3>5, <3>6, <3>7
  <2>10. CASE r.sid # sid
    <3>1. /\ Only(t, S) = Append(d, r)
          /\ Only(Order(t), T) = Append(Only(Order(u), T), r.sid)
      BY <1>0, <2>4, <2>7, <2>8, <2>10
    <3>2. d \in Seq(Row) /\ Distinct(d) /\ Range(d) = Range(u) \cap S /\ Len(d) \in Nat
      BY <2>2, LenProperties
    <3>3. \A q \in Range(d) : q.sid # r.sid
      BY <2>2, <3>2
    <3> HIDE DEF d
    <3>4. /\ Distinct(Append(d, r)) /\ Append(d, r) \in Seq(Row)
          /\ Len(Append(d, r)) = Len(d) + 1
          /\ Range(Append(d, r)) = Range(d) \cup {r}
      BY <3>2, <3>3, DistinctAppend, RangeOfAppend, AppendProperties
    <3>5. Range(t) \cap S = Range(d) \cup {r}
      BY <1>0, <2>3, <2>10, <3>2
    <3>6. Order(Append(d, r)) = Only(Order(t), T)
      <4>1. Order(d) = Only(Order(u), T)
        BY <2>2 DEF d
      <4>2. Order(Append(d, r)) = Append(Order(d), r.sid)
        BY <2>5, <3>2
      <4> QED BY <3>1, <4>1, <4>2
    <3>7. (\E q \in Range(t) : q.sid = sid) <=> (\E q \in Range(u) : q.sid = sid)
      BY <2>3, <2>10
    <3>8. Len(d) = IF \E q \in Range(u) : q.sid = sid THEN Len(u) - 1 ELSE Len(u)
      BY <2>2 DEF d
    <3> HIDE DEF S, T, t
    <3>9. Len(Append(d, r)) = IF \E q \in Range(t) : q.sid = sid THEN Len(t) - 1 ELSE Len(t)
      BY <2>1, <3>2, <3>4, <3>7, <3>8
    <3> QED BY <2>6, <3>1, <3>4, <3>5, <3>6, <3>9
  <2> QED BY <2>9, <2>10
<1>3. Seq(Row) \subseteq P
  <2> HIDE DEF P
  <2> QED BY <1>1, <1>2, SeqSetInduction
<1> QED BY <1>3

(* The screens of rows without a second one of a screen: each once.        *)
LEMMA OrderFacts ==
  ASSUME NEW w \in Seq(Row), Distinct(w)
  PROVE  /\ Order(w) \in Seq(Screens) /\ Len(Order(w)) = Len(w)
         /\ Range(Order(w)) = {r.sid : r \in Range(w)}
         /\ IsFiniteSet({r.sid : r \in Range(w)})
         /\ Cardinality({r.sid : r \in Range(w)}) = Len(w)
<1> DEFINE n == Len(w)
           K == {r.sid : r \in Range(w)}
           f == [i \in 1..n |-> w[i].sid]
<1>1. n \in Nat /\ Range(w) = {w[i] : i \in 1..n} /\ \A i \in 1..n : w[i] \in Row
  BY LenProperties, ElementsOf, ElementOfSeq
<1>2. \A i \in 1..n : w[i].sid \in Screens
  BY <1>1 DEF Row
<1>3. Order(w) \in Seq(Screens) /\ Len(Order(w)) = n
  BY <1>1, <1>2 DEF Order
<1>4. K = {w[i].sid : i \in 1..n}
  BY <1>1
<1>5. Range(Order(w)) = K
  BY <1>4 DEF Order, Range
<1>6. f \in Bijection(1..n, K)
  <2>1. f \in [1..n -> K]
    BY <1>4
  <2>2. \A i, j \in 1..n : f[i] = f[j] => i = j
    BY DEF Distinct
  <2>3. \A y \in K : \E i \in 1..n : f[i] = y
    BY <1>4
  <2> HIDE DEF f, K
  <2> QED BY <2>1, <2>2, <2>3 DEF Bijection, Injection, Surjection, IsInjective
<1>7. IsFiniteSet(1..n) /\ Cardinality(1..n) = n
  <2>1. /\ 1 \in Int /\ n \in Int
        /\ (IF 1 > n THEN 0 ELSE (n - 1) + 1) = n
    BY <1>1
  <2> HIDE DEF n
  <2>2. /\ IsFiniteSet(1..n)
        /\ Cardinality(1..n) = IF 1 > n THEN 0 ELSE n - 1 + 1
    BY <2>1, FS_Interval
  <2> QED BY <2>1, <2>2
<1>8. IsFiniteSet(K) /\ Cardinality(K) = n
  <2>1. ExistsBijection(1..n, K)
    BY <1>6 DEF ExistsBijection
  <2> HIDE DEF K, f
  <2> QED BY <1>7, <2>1, FS_Bijection
<1> QED BY <1>3, <1>5, <1>8

\* Rows of different screens.
OneEach(R) == \A p, q \in R : p.sid = q.sid => p = q

(* Rows without a second one of a screen are of different screens.         *)
LEMMA DistinctOneEach ==
  ASSUME NEW w \in Seq(Row), Distinct(w)
  PROVE  OneEach(Range(w))
<1>1. Range(w) = {w[i] : i \in 1..Len(w)}
  BY LenProperties, ElementsOf
<1>2. ASSUME NEW i \in 1..Len(w), NEW j \in 1..Len(w), w[i].sid = w[j].sid
      PROVE  w[i] = w[j]
  BY <1>2 DEF Distinct
<1> QED BY <1>1, <1>2 DEF OneEach

(* The entries of rows of different screens are the only function that     *)
(* gives each row's screen its entry.                                      *)
LEMMA EntriesFacts ==
  ASSUME NEW R, OneEach(R)
  PROVE  /\ DOMAIN Entries(R) = {r.sid : r \in R}
         /\ \A r \in R : Entries(R)[r.sid] = r.entry
         /\ \A D, g : /\ D = {r.sid : r \in R} /\ g = [s \in D |-> g[s]]
                      /\ \A r \in R : g[r.sid] = r.entry
                      => g = Entries(R)
<1> DEFINE K == {r.sid : r \in R}
           chosen(s) == CHOOSE r \in R : r.sid = s
<1>1. Entries(R) = [s \in K |-> chosen(s).entry]
  BY DEF Entries
<1>2. \A r \in R : chosen(r.sid) = r
  <2> SUFFICES ASSUME NEW r \in R PROVE chosen(r.sid) = r
    OBVIOUS
  <2>1. chosen(r.sid) \in R /\ chosen(r.sid).sid = r.sid
    OBVIOUS
  <2> QED BY <2>1 DEF OneEach
<1> HIDE DEF chosen
<1>3. \A r \in R : r.sid \in K
  OBVIOUS
<1>4. \A r \in R : Entries(R)[r.sid] = r.entry
  <2> SUFFICES ASSUME NEW r \in R PROVE Entries(R)[r.sid] = r.entry
    OBVIOUS
  <2> HIDE DEF K
  <2>1. Entries(R)[r.sid] = chosen(r.sid).entry
    BY <1>1, <1>3
  <2> QED BY <1>2, <2>1
<1>5. ASSUME NEW g, g = [s \in K |-> g[s]], \A r \in R : g[r.sid] = r.entry
      PROVE  g = Entries(R)
  <2>1. ASSUME NEW s \in K PROVE g[s] = chosen(s).entry
    <3>1. PICK r \in R : s = r.sid
      OBVIOUS
    <3> HIDE DEF K
    <3>2. g[s] = r.entry
      BY <1>5, <3>1
    <3>3. chosen(s) = r
      BY <1>2, <3>1
    <3> QED BY <3>2, <3>3
  <2> HIDE DEF K
  <2> QED BY <1>1, <1>5, <2>1
<1>6. DOMAIN Entries(R) = K
  BY <1>1
<1> QED BY <1>4, <1>5, <1>6

(* The list without its head, and the coldest screen's entry with it.      *)
LEMMA EvictFront ==
  ASSUME NEW w \in Seq(Row), Distinct(w), w # <<>>
  PROVE  /\ Tail(w) \in Seq(Row) /\ Distinct(Tail(w)) /\ Len(Tail(w)) = Len(w) - 1
         /\ evict_one(Image(w)) = Image(Tail(w))
<1> DEFINE t == Tail(w)
           h == Head(w)
           n == Len(w)
<1>1. /\ n \in Nat /\ n # 0 /\ h \in Row /\ h = w[1]
      /\ t \in Seq(Row) /\ Len(t) = n - 1
      /\ \A i \in 1..(n - 1) : t[i] = w[i + 1]
  BY LenProperties, EmptySeq, HeadTailProperties
<1>2. /\ Range(w) = {w[i] : i \in 1..n}
      /\ Range(t) = {t[i] : i \in 1..(n - 1)} /\ Range(t) \subseteq Row
  <2>1. \A v \in Seq(Row) : Range(v) = {v[i] : i \in 1..Len(v)} /\ Range(v) \subseteq Row
    BY ElementsOf
  <2> HIDE DEF t, h, n
  <2>2. Range(t) = {t[i] : i \in 1..Len(t)} /\ Range(t) \subseteq Row
    BY <1>1, <2>1
  <2>3. Range(w) = {w[i] : i \in 1..n}
    BY <1>1, <2>1 DEF n
  <2> QED BY <1>1, <2>2, <2>3
<1> HIDE DEF t, h, n
<1>3. /\ Distinct(t) /\ Range(w) = Range(t) \cup {h}
      /\ \A r \in Range(t) : r.sid # h.sid
  <2>0. \A i, j \in 1..n : w[i].sid = w[j].sid => i = j
    BY DEF Distinct, n
  <2>1. ASSUME NEW i \in 1..(n - 1), NEW j \in 1..(n - 1), t[i].sid = t[j].sid
        PROVE  i = j
    <3>1. i + 1 \in 1..n /\ j + 1 \in 1..n /\ t[i] = w[i + 1] /\ t[j] = w[j + 1]
      BY <1>1
    <3>2. i + 1 = j + 1
      BY <2>0, <2>1, <3>1
    <3> QED BY <3>2
  <2>2. ASSUME NEW i \in 1..(n - 1) PROVE t[i].sid # h.sid
    <3>1. i + 1 \in 1..n /\ 1 \in 1..n /\ i + 1 # 1
      BY <1>1
    <3>2. t[i] = w[i + 1] /\ h = w[1]
      BY <1>1
    <3> QED BY <2>0, <3>1, <3>2
  <2>3. ASSUME NEW i \in 1..n PROVE w[i] \in Range(t) \cup {h}
    <3>1. CASE i = 1
      BY <1>1, <3>1
    <3>2. CASE i # 1
      <4>1. i - 1 \in 1..(n - 1) /\ (i - 1) + 1 = i
        BY <1>1, <3>2
      <4>2. w[i] = t[i - 1]
        BY <1>1, <4>1
      <4> QED BY <1>2, <4>1, <4>2
    <3> QED BY <3>1, <3>2
  <2>4. ASSUME NEW i \in 1..(n - 1) PROVE t[i] \in Range(w)
    <3>1. i + 1 \in 1..n /\ t[i] = w[i + 1]
      BY <1>1
    <3> QED BY <1>2, <3>1
  <2>5. h \in Range(w)
    <3>1. 1 \in 1..n
      BY <1>1
    <3> QED BY <1>1, <1>2, <3>1
  <2>6. Distinct(t)
    BY <1>1, <2>1 DEF Distinct
  <2>7. \A r \in Range(t) : r.sid # h.sid
    BY <1>2, <2>2
  <2>8. Range(w) = Range(t) \cup {h}
    BY <1>2, <2>3, <2>4, <2>5
  <2> QED BY <2>6, <2>7, <2>8
<1>4. /\ Order(w) = [i \in 1..n |-> w[i].sid]
      /\ Head(Order(w)) = h.sid /\ Tail(Order(w)) = Order(t)
  <2> DEFINE o == Order(w)
             q == Order(t)
  <2>1. /\ o = [i \in 1..n |-> w[i].sid]
        /\ q = [i \in 1..(n - 1) |-> t[i].sid]
    BY <1>1 DEF Order, n
  <2>2. /\ o \in Seq(Screens) /\ q \in Seq(Screens) /\ Len(o) = n /\ Len(q) = n - 1
    BY <1>1, <1>3, OrderFacts DEF n
  <2> HIDE DEF o, q
  <2>3. o # <<>>
    BY <1>1, <2>2
  <2>4. /\ Head(o) = o[1] /\ Tail(o) \in Seq(Screens) /\ Len(Tail(o)) = n - 1
        /\ \A i \in 1..(n - 1) : Tail(o)[i] = o[i + 1]
    BY <2>2, <2>3, HeadTailProperties
  <2>5. o[1] = h.sid
    <3>1. 1 \in 1..n
      BY <1>1
    <3> QED BY <1>1, <2>1, <3>1
  <2>6. ASSUME NEW i \in 1..(n - 1) PROVE Tail(o)[i] = q[i]
    <3>1. i + 1 \in 1..n
      BY <1>1
    <3>2. o[i + 1] = w[i + 1].sid /\ q[i] = t[i].sid
      BY <2>1, <3>1
    <3> QED BY <1>1, <2>4, <3>2
  <2>7. Tail(o) = q
    BY <1>1, <2>2, <2>4, <2>6, SeqEqual
  <2> QED BY <2>1, <2>4, <2>5, <2>7 DEF o, q
<1>5. OneEach(Range(w)) /\ OneEach(Range(t))
  BY <1>1, <1>3, DistinctOneEach
<1> DEFINE E == Entries(Range(w))
           D == DOMAIN E \ {h.sid}
           g == [s \in D |-> E[s]]
<1>6. g = Entries(Range(t))
  <2>1. D = {r.sid : r \in Range(t)}
    <3>1. DOMAIN E = {r.sid : r \in Range(w)}
      BY <1>5, EntriesFacts
    <3> HIDE DEF E
    <3> QED BY <1>3, <3>1
  <2>2. ASSUME NEW r \in Range(t) PROVE g[r.sid] = r.entry
    <3>1. r.sid \in D
      BY <2>1
    <3>2. E[r.sid] = r.entry
      <4>1. r \in Range(w)
        BY <1>3
      <4> QED BY <1>5, <4>1, EntriesFacts
    <3> HIDE DEF D, E
    <3> QED BY <3>1, <3>2
  <2>3. g = [s \in D |-> g[s]]
    <3> HIDE DEF D, E
    <3> QED OBVIOUS
  <2> DEFINE R == Range(t)
  <2>4. \A D0, g0 : /\ D0 = {r.sid : r \in R} /\ g0 = [s \in D0 |-> g0[s]]
                    /\ \A r \in R : g0[r.sid] = r.entry
                    => g0 = Entries(R)
    <3> HIDE DEF R
    <3>1. OneEach(R)
      BY <1>5 DEF R
    <3> QED BY <3>1, EntriesFacts
  <2> HIDE DEF g, D
  <2> QED BY <2>1, <2>2, <2>3, <2>4
<1>7. evict_one(Image(w)) = Image(t)
  <2> DEFINE o == Order(w)
  <2>1. Image(w) = [entries |-> E, lru |-> o]
    BY DEF Image
  <2>2. Restrict(E, D) = g
    BY DEF Restrict
  <2>3. Head(o) = h.sid /\ Tail(o) = Order(t)
    BY <1>4
  <2> DEFINE m == Image(w)
  <2>4. evict_one(m) = [m EXCEPT !.lru = Tail(m.lru),
                                 !.entries = Restrict(m.entries, DOMAIN m.entries \ {Head(m.lru)})]
    BY DEF evict_one
  <2>5. m.lru = o /\ m.entries = E
    <3> HIDE DEF E, o
    <3> QED BY <2>1
  <2>6. Restrict(m.entries, DOMAIN m.entries \ {Head(m.lru)}) = g
    BY <2>2, <2>3, <2>5
  <2> HIDE DEF E, o, m, g
  <2>7. m = [entries |-> E, lru |-> o]
    BY <2>1 DEF m
  <2>8. evict_one(m) = [entries |-> g, lru |-> Tail(o)]
    <3> DEFINE z == Restrict(m.entries, DOMAIN m.entries \ {Head(m.lru)})
               y == Tail(m.lru)
    <3>1. evict_one(m) = [m EXCEPT !.lru = y, !.entries = z]
      BY <2>4
    <3>2. z = g /\ y = Tail(o)
      BY <2>5, <2>6
    <3> HIDE DEF z, y
    <3> QED BY <2>7, <3>1, <3>2
  <2> QED BY <1>6, <2>3, <2>8 DEF Image, m
<1> QED BY <1>1, <1>3, <1>7 DEF t, n

\* The rows a memory can hold.
Windows == {w \in Seq(Row) : Distinct(w) /\ Len(w) <= MaxEntries}

(* What Put leaves: the row is last, and nothing else of its screen.       *)
LEMMA PutFacts ==
  ASSUME NEW w \in Windows, NEW r \in Row
  PROVE  LET d == Only(w, Others(r.sid))
             y == Append(d, r)
         IN  /\ d \in Seq(Row) /\ Len(d) <= MaxEntries /\ Len(d) \in Nat
             /\ y \in Seq(Row) /\ Distinct(y) /\ Len(y) = Len(d) + 1
             /\ Range(y) = (Range(w) \cap Others(r.sid)) \cup {r}
             /\ Order(y) = Append(Only(Order(w), Screens \ {r.sid}), r.sid)
             /\ Put(w, r) = IF Len(d) >= MaxEntries THEN Tail(y) ELSE y
             /\ Put(w, r) \in Windows /\ r \in Range(Put(w, r))
<1> DEFINE d == Only(w, Others(r.sid))
           y == Append(d, r)
<1>1. w \in Seq(Row) /\ Distinct(w) /\ Len(w) <= MaxEntries /\ Len(w) \in Nat
  BY LenProperties DEF Windows
<1>2. r.sid \in Screens
  BY DEF Row
<1>3. /\ d \in Seq(Row) /\ Distinct(d) /\ Len(d) \in Nat
      /\ Range(d) = Range(w) \cap Others(r.sid)
      /\ Order(d) = Only(Order(w), Screens \ {r.sid})
      /\ Len(d) <= Len(w)
  <2> DEFINE x == r.sid
             p == Only(w, Others(x))
  <2>1. /\ p \in Seq(Row) /\ Distinct(p) /\ Range(p) = Range(w) \cap Others(x)
        /\ Order(p) = Only(Order(w), Screens \ {x})
        /\ Len(p) = IF \E q \in Range(w) : q.sid = x THEN Len(w) - 1 ELSE Len(w)
    <3> HIDE DEF x
    <3> QED BY <1>1, <1>2, DropRow DEF x
  <2>2. Len(p) \in Nat
    BY <2>1, LenProperties
  <2> HIDE DEF p
  <2>3. Len(p) <= Len(w)
    BY <1>1, <2>1, <2>2
  <2> QED BY <2>1, <2>2, <2>3 DEF p
<1>4. Len(d) <= MaxEntries
  <2> HIDE DEF d
  <2> QED BY <1>1, <1>3, MaxEntriesPositive
<1>5. \A q \in Range(d) : q.sid # r.sid
  BY <1>3 DEF Others
<1> HIDE DEF d
<1>6. /\ y \in Seq(Row) /\ Distinct(y) /\ Len(y) = Len(d) + 1
      /\ Range(y) = Range(d) \cup {r} /\ Order(y) = Append(Order(d), r.sid)
  <2>1. y \in Seq(Row) /\ Len(y) = Len(d) + 1
    BY <1>3, AppendProperties
  <2>2. Distinct(y)
    BY <1>3, <1>5, DistinctAppend
  <2>3. Range(y) = Range(d) \cup {r}
    BY <1>3, RangeOfAppend
  <2>4. Order(y) = Append(Order(d), r.sid)
    BY <1>3, OrderAppend
  <2> QED BY <2>1, <2>2, <2>3, <2>4
<1>7. ASSUME Len(d) >= MaxEntries
      PROVE  /\ Put(w, r) = Tail(y)
             /\ Put(w, r) \in Windows /\ r \in Range(Put(w, r))
  <2>1. d # <<>>
    BY <1>7, EmptySeq, MaxEntriesPositive
  <2>2. Tail(y) = Append(Tail(d), r) /\ Tail(d) \in Seq(Row)
    BY <1>3, <2>1, HeadTailAppend, HeadTailProperties
  <2>3. Put(w, r) = Append(Tail(d), r)
    BY <1>7 DEF Put, PushBounded, d
  <2>4. y # <<>>
    BY <1>3, <1>6, EmptySeq
  <2>5. Tail(y) \in Seq(Row) /\ Distinct(Tail(y)) /\ Len(Tail(y)) = Len(y) - 1
    <3> HIDE DEF y
    <3> QED BY <1>6, <2>4, EvictFront
  <2>6. Len(Tail(y)) <= MaxEntries
    <3>1. Len(y) - 1 = Len(d)
      BY <1>3, <1>6
    <3> HIDE DEF y
    <3> QED BY <1>4, <2>5, <3>1
  <2>7. r \in Range(Append(Tail(d), r))
    <3> DEFINE z == Tail(d)
    <3>1. z \in Seq(Row)
      BY <2>2
    <3> HIDE DEF z
    <3>2. Range(Append(z, r)) = Range(z) \cup {r}
      BY <3>1, RangeOfAppend
    <3> QED BY <3>2 DEF z
  <2>8. Put(w, r) = Tail(y)
    BY <2>2, <2>3
  <2>9. Put(w, r) \in Windows
    BY <2>5, <2>6, <2>8 DEF Windows
  <2>10. r \in Range(Put(w, r))
    BY <2>3, <2>7
  <2> QED BY <1>7, <2>8, <2>9, <2>10
<1>8. ASSUME Len(d) < MaxEntries
      PROVE  /\ ~(Len(d) >= MaxEntries) /\ Put(w, r) = y
             /\ Put(w, r) \in Windows /\ r \in Range(Put(w, r))
  <2>1. ~(Len(d) >= MaxEntries) /\ Len(d) + 1 <= MaxEntries
    BY <1>3, <1>8, MaxEntriesPositive
  <2>2. Put(w, r) = y
    BY <2>1 DEF Put, PushBounded, d
  <2>3. y \in Windows
    BY <1>6, <2>1 DEF Windows
  <2>4. r \in Range(y)
    BY <1>6
  <2> QED BY <2>1, <2>2, <2>3, <2>4
<1>9. Len(d) >= MaxEntries \/ Len(d) < MaxEntries
  BY <1>3, MaxEntriesPositive
<1>10. /\ d \in Seq(Row) /\ Len(d) <= MaxEntries /\ Len(d) \in Nat
       /\ y \in Seq(Row) /\ Distinct(y) /\ Len(y) = Len(d) + 1
       /\ Range(y) = (Range(w) \cap Others(r.sid)) \cup {r}
       /\ Order(y) = Append(Only(Order(w), Screens \ {r.sid}), r.sid)
  BY <1>3, <1>4, <1>6
<1>11. /\ Put(w, r) = IF Len(d) >= MaxEntries THEN Tail(y) ELSE y
       /\ Put(w, r) \in Windows /\ r \in Range(Put(w, r))
  BY <1>7, <1>8, <1>9
<1> QED BY <1>10, <1>11 DEF d

(* Writing an entry: the screen becomes the warmest, and the coldest goes  *)
(* when there is one too many.                                             *)
LEMMA StoreImage ==
  ASSUME NEW w \in Windows, NEW r \in Row
  PROVE  store(Image(w), r.sid, r.entry) = Image(Put(w, r))
<1> DEFINE sid == r.sid
           d == Only(w, Others(sid))
           y == Append(d, r)
           E == Entries(Range(w))
           X == DOMAIN E \cup {sid}
           g == [s \in X |-> IF s = sid THEN r.entry ELSE E[s]]
           o == Order(w)
<1>1. w \in Seq(Row) /\ Distinct(w) /\ Range(w) \subseteq Row
  BY ElementsOf DEF Windows
<1>2. /\ d \in Seq(Row) /\ Len(d) \in Nat
      /\ y \in Seq(Row) /\ Distinct(y) /\ Len(y) = Len(d) + 1
      /\ Range(y) = (Range(w) \cap Others(sid)) \cup {r}
      /\ Order(y) = Append(Only(o, Screens \ {sid}), sid)
      /\ Put(w, r) = IF Len(d) >= MaxEntries THEN Tail(y) ELSE y
  BY PutFacts
<1>3. OneEach(Range(w)) /\ OneEach(Range(y))
  <2>1. OneEach(Range(w))
    BY <1>1, DistinctOneEach
  <2>2. OneEach(Range(y))
    <3> HIDE DEF y
    <3> QED BY <1>2, DistinctOneEach
  <2> QED BY <2>1, <2>2
<1>4. g = Entries(Range(y))
  <2>1. /\ DOMAIN E = {q.sid : q \in Range(w)}
        /\ \A q \in Range(w) : E[q.sid] = q.entry
    BY <1>3, EntriesFacts
  <2>2. X = {q.sid : q \in Range(y)}
    <3>1. \A q \in Range(w) : q.sid # sid => q \in Others(sid)
      BY <1>1 DEF Others
    <3> HIDE DEF y, E
    <3> QED BY <1>2, <2>1, <3>1
  <2>3. ASSUME NEW q \in Range(y) PROVE g[q.sid] = q.entry
    <3>1. q.sid \in X
      BY <2>2
    <3>2. CASE q = r
      <4> HIDE DEF X, E
      <4>1. g[sid] = r.entry
        BY <3>1, <3>2
      <4> QED BY <3>2, <4>1
    <3>3. CASE q \in Range(w) /\ q \in Others(sid)
      <4>1. q.sid # sid /\ E[q.sid] = q.entry
        BY <2>1, <3>3 DEF Others
      <4> HIDE DEF X, E
      <4> QED BY <3>1, <4>1
    <3> HIDE DEF g, y
    <3> QED BY <1>2, <3>2, <3>3
  <2>4. g = [s \in X |-> g[s]]
    <3> HIDE DEF X, E
    <3> QED OBVIOUS
  <2> DEFINE R == Range(y)
  <2>5. \A D0, g0 : /\ D0 = {q.sid : q \in R} /\ g0 = [s \in D0 |-> g0[s]]
                    /\ \A q \in R : g0[q.sid] = q.entry
                    => g0 = Entries(R)
    <3> HIDE DEF R
    <3>1. OneEach(R)
      BY <1>3 DEF R
    <3> QED BY <3>1, EntriesFacts
  <2> HIDE DEF g, X
  <2> QED BY <2>2, <2>3, <2>4, <2>5
<1>5. Only(o, Range(o) \ {sid}) = Only(o, Screens \ {sid})
  <2>1. o \in Seq(Screens)
    BY <1>1, OrderFacts
  <2> HIDE DEF o, sid
  <2>2. \A i \in 1..Len(o) : o[i] \in Screens /\ o[i] \in Range(o)
    <3>1. DOMAIN o = 1..Len(o)
      BY <2>1, LenProperties
    <3> QED BY <2>1, <3>1, ElementOfSeq DEF Range
  <2>3. \A i \in 1..Len(o) : o[i] \in Range(o) \ {sid} <=> o[i] \in Screens \ {sid}
    BY <2>2
  <2> DEFINE S == Range(o) \ {sid}
             T == Screens \ {sid}
  <2> HIDE DEF S, T
  <2>4. \A i \in 1..Len(o) : o[i] \in S <=> o[i] \in T
    BY <2>3 DEF S, T
  <2>5. Only(o, S) = Only(o, T)
    BY <2>1, <2>4, OnlySame
  <2> QED BY <2>5 DEF S, T
<1>6. touch_lru([Image(w) EXCEPT !.entries = g], sid) = Image(y)
  <2> DEFINE m == [Image(w) EXCEPT !.entries = g]
             l == Append(Only(o, Range(o) \ {sid}), sid)
  <2>1. m = [entries |-> g, lru |-> o]
    <3> HIDE DEF g, o, E
    <3>1. Image(w) = [entries |-> E, lru |-> o]
      BY DEF Image, o, E
    <3> QED BY <3>1
  <2>2. touch_lru(m, sid) = [m EXCEPT !.lru = Append(Only(m.lru, Range(m.lru) \ {sid}), sid)]
    BY DEF touch_lru
  <2> HIDE DEF g, o, m
  <2>3. m.lru = o
    BY <2>1
  <2>4. touch_lru(m, sid) = [m EXCEPT !.lru = l]
    BY <2>2, <2>3
  <2> HIDE DEF l, sid
  <2>5. touch_lru(m, sid) = [entries |-> g, lru |-> l]
    BY <2>1, <2>4
  <2>6. l = Order(y)
    BY <1>2, <1>5 DEF l
  <2> QED BY <1>4, <2>5, <2>6 DEF Image, m
<1>7. store(Image(w), sid, r.entry) = maybe_evict(Image(y))
  <2> DEFINE m == Image(w)
  <2>1. m.entries = E
    BY DEF Image
  <2>2. store(m, sid, r.entry) = maybe_evict(touch_lru(
          [m EXCEPT !.entries = [s \in DOMAIN m.entries \cup {sid} |->
                                   IF s = sid THEN r.entry ELSE m.entries[s]]], sid))
    BY DEF store
  <2> HIDE DEF m, E
  <2>3. [s \in DOMAIN m.entries \cup {sid} |->
           IF s = sid THEN r.entry ELSE m.entries[s]] = g
    BY <2>1
  <2> HIDE DEF g
  <2>4. store(m, sid, r.entry) = maybe_evict(touch_lru([m EXCEPT !.entries = g], sid))
    BY <2>2, <2>3
  <2>5. touch_lru([m EXCEPT !.entries = g], sid) = Image(y)
    BY <1>6 DEF m
  <2> HIDE DEF sid, y
  <2>6. store(m, sid, r.entry) = maybe_evict(Image(y))
    BY <2>4, <2>5
  <2> QED BY <2>6 DEF m
<1>8. Cardinality(Cached(Image(y))) = Len(y)
  <2> HIDE DEF y
  <2>1. Cached(Image(y)) = {q.sid : q \in Range(y)}
    <3>1. Image(y).entries = Entries(Range(y))
      BY DEF Image
    <3> QED BY <1>3, <3>1, EntriesFacts DEF Cached
  <2> QED BY <1>2, <2>1, OrderFacts
<1>9. maybe_evict(Image(y)) = Image(Put(w, r))
  <2>1. Len(y) > MaxEntries <=> Len(d) >= MaxEntries
    <3> HIDE DEF y, d
    <3> QED BY <1>2, MaxEntriesPositive
  <2>2. y # <<>>
    <3> HIDE DEF y, d
    <3> QED BY <1>2, EmptySeq
  <2>3. evict_one(Image(y)) = Image(Tail(y))
    <3> HIDE DEF y
    <3> QED BY <1>2, <2>2, EvictFront
  <2> HIDE DEF y, d
  <2>4. CASE Len(d) >= MaxEntries
    <3>1. Put(w, r) = Tail(y) /\ Len(y) > MaxEntries
      BY <1>2, <2>1, <2>4
    <3> QED BY <1>8, <2>3, <3>1 DEF maybe_evict
  <2>5. CASE ~(Len(d) >= MaxEntries)
    <3>1. Put(w, r) = y /\ ~(Len(y) > MaxEntries)
      BY <1>2, <2>1, <2>5
    <3> QED BY <1>8, <3>1 DEF maybe_evict
  <2> QED BY <2>4, <2>5
<1> HIDE DEF y
<1> QED BY <1>7, <1>9

(* What the memory knows of a screen is what its row says.                 *)
LEMMA KnownEntry ==
  ASSUME NEW w \in Windows
  PROVE  /\ Cached(Image(w)) = {q.sid : q \in Range(w)}
         /\ \A q \in Range(w) : /\ entry_or_default(Image(w), q.sid) = q.entry
                                /\ peek(Image(w), q.sid) = q.entry
         /\ \A sid \in Screens : (\A q \in Range(w) : q.sid # sid)
                                 => entry_or_default(Image(w), sid) = NoEntry
<1>1. w \in Seq(Row) /\ Distinct(w)
  BY DEF Windows
<1>2. OneEach(Range(w))
  BY <1>1, DistinctOneEach
<1> DEFINE m == Image(w)
<1>3. m.entries = Entries(Range(w))
  BY DEF Image
<1> HIDE DEF m
<1>4. /\ DOMAIN m.entries = {q.sid : q \in Range(w)}
      /\ \A q \in Range(w) : m.entries[q.sid] = q.entry
  BY <1>2, <1>3, EntriesFacts
<1>5. Cached(m) = {q.sid : q \in Range(w)}
  BY <1>4 DEF Cached
<1>6. ASSUME NEW q \in Range(w)
      PROVE  entry_or_default(m, q.sid) = q.entry /\ peek(m, q.sid) = q.entry
  BY <1>4, <1>5 DEF entry_or_default, peek
<1>7. ASSUME NEW sid \in Screens, \A q \in Range(w) : q.sid # sid
      PROVE  entry_or_default(m, sid) = NoEntry
  BY <1>5, <1>7 DEF entry_or_default
<1> QED BY <1>5, <1>6, <1>7 DEF m

\* The row a success makes of the entry e.
RowAfter(sid, e) ==
  [sid |-> sid, entry |-> [successes |-> Append(e.successes, "local"), failures |-> <<>>]]

(* record_success on a memory that holds w.                                *)
LEMMA RecordImage ==
  ASSUME NEW w \in Windows, NEW sid \in Screens
  PROVE  LET e == entry_or_default(Image(w), sid)
             r == RowAfter(sid, e)
         IN  /\ e \in Entry /\ r \in Row /\ r.sid = sid
             /\ r.entry.successes # <<>>
             /\ record_success(Image(w), sid, "local") = Image(Put(w, r))
             /\ sid \in Cached(record_success(Image(w), sid, "local"))
             /\ peek(record_success(Image(w), sid, "local"), sid) = r.entry
<1> DEFINE m == Image(w)
           e == entry_or_default(m, sid)
           r == RowAfter(sid, e)
<1>1. e \in Entry
  <2>1. NoEntry \in Entry
    BY DEF NoEntry, Entry
  <2>2. Range(w) \subseteq Row
    BY ElementsOf DEF Windows
  <2>3. CASE \A q \in Range(w) : q.sid # sid
    <3>1. e = NoEntry
      BY <2>3, KnownEntry
    <3> QED BY <2>1, <3>1
  <2>4. CASE ~ \A q \in Range(w) : q.sid # sid
    <3>1. PICK q \in Range(w) : q.sid = sid
      BY <2>4
    <3>2. entry_or_default(m, q.sid) = q.entry
      BY KnownEntry
    <3>3. e = q.entry
      BY <3>1, <3>2
    <3> QED BY <2>2, <3>3 DEF Row
  <2> QED BY <2>3, <2>4
<1> HIDE DEF e
<1>2. /\ r \in Row /\ r.sid = sid /\ r.entry.successes # <<>>
      /\ [e EXCEPT !.successes = Append(@, "local")] = r.entry
  <2> DEFINE s == Append(e.successes, "local")
             u == [successes |-> s, failures |-> <<>>]
  <2>1. e.successes \in Seq({"local"}) /\ e = [successes |-> e.successes, failures |-> <<>>]
    BY <1>1 DEF Entry
  <2>2. s \in Seq({"local"}) /\ s # <<>>
    <3> DEFINE es == e.successes
    <3> HIDE DEF es
    <3>1. es \in Seq({"local"})
      BY <2>1 DEF es
    <3>2. Append(es, "local") \in Seq({"local"}) /\ Append(es, "local") # <<>>
      BY <3>1
    <3> QED BY <3>2 DEF es
  <2>3. [e EXCEPT !.successes = Append(@, "local")] = [e EXCEPT !.successes = s]
    OBVIOUS
  <2>4. r = [sid |-> sid, entry |-> u]
    BY DEF RowAfter
  <2> HIDE DEF s
  <2>5. [e EXCEPT !.successes = s] = u
    BY <2>1
  <2>6. u \in Entry /\ u.successes # <<>>
    BY <2>2 DEF Entry
  <2> HIDE DEF u, r
  <2> QED BY <2>3, <2>4, <2>5, <2>6 DEF Row
<1>3. record_success(m, sid, "local") = store(m, sid, r.entry)
  <2>1. record_success(m, sid, "local")
          = store(m, sid, [e EXCEPT !.successes = Append(@, "local")])
    BY DEF record_success, e
  <2> HIDE DEF m, r
  <2> QED BY <1>2, <2>1
<1>4. record_success(m, sid, "local") = Image(Put(w, r))
  <2>1. store(m, r.sid, r.entry) = Image(Put(w, r))
    <3> HIDE DEF r
    <3> QED BY <1>2, StoreImage
  <2> HIDE DEF m, r
  <2> QED BY <1>2, <1>3, <2>1
<1>5. Put(w, r) \in Windows /\ r \in Range(Put(w, r))
  <2> HIDE DEF r
  <2> QED BY <1>2, PutFacts
<1>6. /\ r.sid \in Cached(Image(Put(w, r)))
      /\ peek(Image(Put(w, r)), r.sid) = r.entry
  <2> DEFINE p == Put(w, r)
  <2> HIDE DEF p, r
  <2>1. p \in Windows /\ r \in Range(p)
    BY <1>5 DEF p
  <2>2. r.sid \in Cached(Image(p)) /\ peek(Image(p), r.sid) = r.entry
    BY <2>1, KnownEntry
  <2> QED BY <2>2 DEF p
<1>7. /\ sid \in Cached(record_success(m, sid, "local"))
      /\ peek(record_success(m, sid, "local"), sid) = r.entry
  <2> HIDE DEF r, m
  <2> QED BY <1>2, <1>4, <1>6
<1> HIDE DEF r
<1> QED BY <1>1, <1>2, <1>4, <1>7 DEF r, e

(* The last rows of the file are a window of it.                           *)
LEMMA WindowFacts ==
  ASSUME NEW t \in Seq(Row), Distinct(t)
  PROVE  /\ LastOf(t, MaxEntries) \in Windows
         /\ \A q \in Range(LastOf(t, MaxEntries)) : q \in Range(t)
<1> DEFINE M == MaxEntries
           w == LastOf(t, M)
           k == Len(t) - Len(w)
<1>1. /\ M \in Nat /\ Len(t) \in Nat /\ Range(t) = {t[i] : i \in 1..Len(t)}
  BY LenProperties, ElementsOf, MaxEntriesPositive
<1>2. /\ w \in Seq(Row) /\ Len(w) \in Nat /\ Len(w) <= M /\ Len(w) <= Len(t)
      /\ \A i \in 1..Len(w) : w[i] = t[k + i]
  <2>1. CASE Len(t) <= M
    <3>1. w = t
      BY <2>1 DEF LastOf
    <3> HIDE DEF w
    <3>2. k = 0
      BY <1>1, <3>1
    <3> HIDE DEF k
    <3> QED BY <1>1, <2>1, <3>1, <3>2
  <2>2. CASE ~(Len(t) <= M)
    <3>1. M <= Len(t)
      BY <1>1, <2>2
    <3>2. /\ w \in Seq(Row) /\ Len(w) = M
          /\ \A i \in 1..M : w[i] = t[(Len(t) - M) + i]
      <4> HIDE DEF M
      <4> QED BY <1>1, <3>1, LastOfFacts
    <3> HIDE DEF w
    <3> QED BY <1>1, <3>1, <3>2
  <2> QED BY <2>1, <2>2
<1> HIDE DEF w
<1>3. \A i \in 1..Len(w) : k + i \in 1..Len(t)
  BY <1>1, <1>2
<1>4. Distinct(w)
  <2>1. \A i, j \in 1..Len(t) : t[i].sid = t[j].sid => i = j
    BY DEF Distinct
  <2>2. ASSUME NEW i \in 1..Len(w), NEW j \in 1..Len(w), w[i].sid = w[j].sid
        PROVE  i = j
    <3>1. t[k + i].sid = t[k + j].sid
      BY <1>2, <2>2
    <3>2. k + i = k + j
      BY <1>3, <2>1, <3>1
    <3> QED BY <1>1, <1>2, <3>2
  <2> QED BY <2>2 DEF Distinct
<1>5. Range(w) = {w[i] : i \in 1..Len(w)}
  BY <1>2, ElementsOf
<1>6. \A q \in Range(w) : q \in Range(t)
  <2> HIDE DEF k
  <2> QED BY <1>1, <1>2, <1>3, <1>5
<1>7. w \in Windows
  BY <1>2, <1>4 DEF Windows
<1> QED BY <1>6, <1>7 DEF w

(* The rows in the file, split at the window: a row that was replaced      *)
(* moves to the end of both.                                               *)
LEMMA PersistWindow ==
  ASSUME NEW t \in Seq(Row), Distinct(t), NEW r \in Row
  PROVE  LET p == persist_screen(t, r.sid, r.entry)
         IN  /\ p \in Seq(Row) /\ Distinct(p)
             /\ Range(p) = (Range(t) \cap Others(r.sid)) \cup {r}
             /\ LastOf(t, MaxEntries) \in Windows
             /\ LastOf(p, MaxEntries) = Put(LastOf(t, MaxEntries), r)
<1> DEFINE sid == r.sid
           S == Others(sid)
           M == MaxEntries
           w == LastOf(t, M)
           p == Append(Only(t, S), r)
<1>0. /\ M \in Nat /\ M # 0 /\ r.sid \in Screens /\ Len(t) \in Nat
      /\ \A i \in 1..Len(t) : t[i] \in Row
  BY MaxEntriesPositive, LenProperties, ElementOfSeq DEF Row
<1>1. persist_screen(t, r.sid, r.entry) = p
  <2> DEFINE Q == {q \in Range(t) : q.sid # sid}
  <2>1. \A i \in 1..Len(t) : t[i] \in Q <=> t[i] \in S
    <3>1. DOMAIN t = 1..Len(t)
      BY LenProperties
    <3> QED BY <1>0, <3>1 DEF Others, Range
  <2>2. Only(t, Q) = Only(t, S)
    <3> HIDE DEF Q, S
    <3> QED BY <2>1, OnlySame
  <2>3. [sid |-> r.sid, entry |-> r.entry] = r
    BY DEF Row
  <2>4. persist_screen(t, r.sid, r.entry)
          = Append(Only(t, Q), [sid |-> r.sid, entry |-> r.entry])
    BY DEF persist_screen
  <2> HIDE DEF Q, S
  <2> QED BY <2>2, <2>3, <2>4
<1>2. /\ Only(t, S) \in Seq(Row) /\ Distinct(Only(t, S))
      /\ Range(Only(t, S)) = Range(t) \cap S
  BY <1>0, DropRow
<1>3. p \in Seq(Row) /\ Distinct(p) /\ Range(p) = (Range(t) \cap S) \cup {r}
  <2> DEFINE d == Only(t, S)
  <2>1. \A q \in Range(d) : q.sid # r.sid
    BY <1>2 DEF Others
  <2>2. d \in Seq(Row) /\ Distinct(d)
    BY <1>2
  <2> HIDE DEF d
  <2>3. Append(d, r) \in Seq(Row)
    BY <2>2, AppendProperties
  <2>4. Distinct(Append(d, r))
    BY <2>1, <2>2, DistinctAppend
  <2>5. Range(Append(d, r)) = Range(d) \cup {r}
    BY <2>2, RangeOfAppend
  <2> QED BY <1>2, <2>3, <2>4, <2>5 DEF d
<1>4. PICK old \in Seq(Row) : /\ t = old \o w /\ w \in Seq(Row) /\ Len(w) \in Nat
                              /\ (old = <<>> /\ Len(w) <= M) \/ Len(w) = M
  <2>1. CASE Len(t) <= M
    <3>1. w = t
      BY <2>1 DEF LastOf
    <3> DEFINE z == w
    <3>2. <<>> \in Seq(Row) /\ t = <<>> \o t
      BY ConcatEmpty
    <3> QED BY <1>0, <2>1, <3>1, <3>2
  <2>2. CASE ~(Len(t) <= M)
    <3> DEFINE k == Len(t) - M
    <3>1. k \in 0..Len(t) /\ k + 1 = Len(t) - M + 1 /\ M <= Len(t)
      BY <1>0, <2>2
    <3>2. w = SubSeq(t, k + 1, Len(t))
      BY <2>2, <3>1 DEF LastOf
    <3>3. Len(w) = M
      BY <1>0, <3>1, LastOfFacts
    <3> HIDE DEF k, w
    <3>4. /\ SubSeq(t, 1, k) \in Seq(Row) /\ w \in Seq(Row)
          /\ SubSeq(t, 1, k) \o w = t
      BY <3>1, <3>2, CutSequence
    <3> QED BY <1>0, <3>3, <3>4
  <2> QED BY <2>1, <2>2
<1> HIDE DEF w
<1>5. Len(t) = Len(old) + Len(w) /\ Len(old) \in Nat
      /\ \A i \in 1..Len(w) : t[Len(old) + i] = w[i]
  <2>1. \A u, v \in Seq(Row) : /\ Len(u) \in Nat /\ Len(v) \in Nat
                               /\ Len(u \o v) = Len(u) + Len(v)
                               /\ \A i \in 1..Len(v) : (u \o v)[Len(u) + i] = v[i]
    OBVIOUS
  <2> QED BY <1>4, <2>1
<1>6. w \in Windows
  <2>1. \A i, j \in 1..Len(t) : t[i].sid = t[j].sid => i = j
    BY DEF Distinct
  <2>2. ASSUME NEW i \in 1..Len(w), NEW j \in 1..Len(w), w[i].sid = w[j].sid
        PROVE  i = j
    <3>1. Len(old) + i \in 1..Len(t) /\ Len(old) + j \in 1..Len(t)
      BY <1>4, <1>5
    <3>2. t[Len(old) + i] = w[i] /\ t[Len(old) + j] = w[j]
      BY <1>5
    <3>3. Len(old) + i = Len(old) + j
      BY <2>1, <2>2, <3>1, <3>2
    <3> QED BY <1>5, <3>3
  <2>3. Len(w) <= M
    BY <1>0, <1>4
  <2> QED BY <1>4, <2>2, <2>3 DEF Windows, Distinct
<1> DEFINE a == Only(old, S)
           b == Only(w, S)
<1>7. a \in Seq(Row) /\ b \in Seq(Row) /\ Only(t, S) = a \o b
  <2> HIDE DEF S
  <2>1. a \in Seq(Row) /\ b \in Seq(Row)
    BY <1>4, OnlyType
  <2>2. Only(old \o w, S) = a \o b
    BY <1>4, OnlyConcat
  <2> HIDE DEF a, b
  <2> QED BY <1>4, <2>1, <2>2
<1>8. /\ Len(b) \in Nat /\ Len(b) <= M
      /\ Len(w) = M => Len(b) >= M - 1
      /\ old = <<>> => a = <<>>
  <2>1. Distinct(w) /\ w \in Seq(Row) /\ Len(w) <= M
    BY <1>6 DEF Windows
  <2>2. Len(b) = IF \E q \in Range(w) : q.sid = sid THEN Len(w) - 1 ELSE Len(w)
    <3> DEFINE x == r.sid
    <3> HIDE DEF x
    <3>1. Len(Only(w, Others(x))) = IF \E q \in Range(w) : q.sid = x THEN Len(w) - 1 ELSE Len(w)
      BY <1>0, <2>1, DropRow DEF x
    <3> QED BY <3>1 DEF x
  <2>3. Len(b) \in Nat
    BY <1>7, LenProperties
  <2>4. old = <<>> => a = <<>>
    BY OnlyEmpty
  <2> HIDE DEF a, b
  <2> QED BY <1>0, <1>4, <2>1, <2>2, <2>3, <2>4
<1>9. LastOf(p, M) = PushBounded(b, r, M)
  <2> DEFINE c == a \o b
  <2>1. c \in Seq(Row) /\ Only(t, S) = c
    BY <1>7
  <2>2. p = Append(c, r)
    BY <2>1
  <2> HIDE DEF a, b, c
  <2>3. M \in Nat \ {0}
    BY <1>0
  <2>4. LastOf(Append(c, r), M) = PushBounded(LastOf(c, M), r, M)
    BY <2>1, <2>3, PushKeepsLastOf
  <2>5. c = a \o b
    BY DEF c
  <2>6. \A u, v \in Seq(Row) : /\ Len(u) \in Nat /\ Len(v) \in Nat
                               /\ Len(u \o v) = Len(u) + Len(v)
                               /\ \A i \in 1..Len(v) : (u \o v)[Len(u) + i] = v[i]
    OBVIOUS
  <2>7. Len(c) = Len(a) + Len(b) /\ Len(a) \in Nat /\ Len(b) \in Nat
        /\ \A i \in 1..Len(b) : c[Len(a) + i] = b[i]
    BY <1>7, <2>5, <2>6
  <2>8. CASE Len(b) = M
    <3>1. /\ LastOf(c, M) \in Seq(Row) /\ Len(LastOf(c, M)) = M
          /\ \A i \in 1..M : LastOf(c, M)[i] = c[(Len(c) - M) + i]
      <4>1. M <= Len(c) /\ M \in Nat
        BY <1>0, <2>7, <2>8
      <4> HIDE DEF M
      <4> QED BY <2>1, <4>1, LastOfFacts
    <3>2. \A i \in 1..M : LastOf(c, M)[i] = b[i]
      <4>1. Len(c) - M = Len(a)
        BY <2>7, <2>8
      <4>2. \A i \in 1..M : LastOf(c, M)[i] = c[Len(a) + i]
        BY <3>1, <4>1
      <4> QED BY <2>7, <2>8, <4>2
    <3> DEFINE l == LastOf(c, M)
    <3> HIDE DEF l
    <3>3. l \in Seq(Row) /\ Len(l) = Len(b) /\ \A i \in 1..Len(b) : l[i] = b[i]
      BY <2>8, <3>1, <3>2 DEF l
    <3>4. l = b
      BY <1>7, <3>3, SeqEqual
    <3> QED BY <2>2, <2>4, <3>4 DEF l
  <2>9. CASE Len(b) # M /\ old = <<>>
    <3>1. c = b
      <4>1. a = <<>>
        BY <1>8, <2>9
      <4>2. <<>> \o b = b
        BY <1>7, ConcatEmpty
      <4> QED BY <2>5, <4>1, <4>2
    <3>2. LastOf(c, M) = b
      BY <1>8, <3>1 DEF LastOf
    <3> QED BY <2>2, <2>4, <3>2
  <2>10. CASE Len(b) # M /\ Len(w) = M
    <3> DEFINE x == Append(c, r)
    <3>1. Len(b) = M - 1
      BY <1>0, <1>8, <2>10
    <3>2. PushBounded(b, r, M) = Append(b, r)
      BY <1>0, <3>1 DEF PushBounded
    <3>3. x \in Seq(Row) /\ Len(x) = Len(c) + 1 /\ x[Len(c) + 1] = r
          /\ \A i \in 1..Len(c) : x[i] = c[i]
      BY <2>1, AppendProperties
    <3> DEFINE y == Append(b, r)
    <3>4. y \in Seq(Row) /\ Len(y) = M /\ y[M] = r
          /\ \A i \in 1..(M - 1) : y[i] = b[i]
      <4>1. /\ y \in Seq(Row) /\ Len(y) = Len(b) + 1 /\ y[Len(b) + 1] = r
            /\ \A i \in 1..Len(b) : y[i] = b[i]
        BY <1>7, AppendProperties
      <4>2. Len(b) + 1 = M
        BY <1>0, <3>1
      <4> HIDE DEF y
      <4> QED BY <3>1, <4>1, <4>2
    <3> HIDE DEF x, y
    <3> DEFINE l == LastOf(x, M)
    <3>5. M <= Len(x) /\ Len(x) - M = Len(a)
      BY <1>0, <2>7, <3>1, <3>3
    <3>6. /\ l \in Seq(Row) /\ Len(l) = M
          /\ \A i \in 1..M : l[i] = x[(Len(x) - M) + i]
      <4>1. M <= Len(x) /\ M \in Nat /\ x \in Seq(Row)
        BY <1>0, <3>3, <3>5
      <4> HIDE DEF M
      <4> QED BY <4>1, LastOfFacts DEF l
    <3> HIDE DEF l
    <3>7. ASSUME NEW i \in 1..M PROVE l[i] = y[i]
      <4>1. l[i] = x[Len(a) + i]
        BY <3>5, <3>6
      <4>2. CASE i = M
        <5>1. Len(a) + i = Len(c) + 1
          BY <1>0, <2>7, <3>1, <4>2
        <5> QED BY <3>3, <3>4, <4>1, <4>2, <5>1
      <4>3. CASE i # M
        <5>1. i \in 1..(M - 1) /\ i \in 1..Len(b) /\ Len(a) + i \in 1..Len(c)
          BY <1>0, <2>7, <3>1, <4>3
        <5> QED BY <2>7, <3>3, <3>4, <4>1, <5>1
      <4> QED BY <4>2, <4>3
    <3>8. l = y
      BY <3>4, <3>6, <3>7, SeqEqual
    <3> QED BY <2>2, <3>2, <3>8 DEF l, x, y
  <2> QED BY <1>4, <2>8, <2>9, <2>10
<1>10. Put(w, r) = PushBounded(b, r, M)
  BY DEF Put
<1> HIDE DEF p, b
<1> QED BY <1>1, <1>3, <1>6, <1>9, <1>10 DEF w

(* A screen without a row in w: its row is put at the end, and a second    *)
(* one of the same screen takes the place of the first.                    *)
LEMMA PutNew ==
  ASSUME NEW w \in Windows, NEW r \in Row, \A q \in Range(w) : q.sid # r.sid
  PROVE  /\ Put(w, r) = PushBounded(w, r, MaxEntries)
         /\ \A q \in Row : q.sid = r.sid => Put(Put(w, r), q) = Put(w, q)
<1> DEFINE S == Others(r.sid)
           M == MaxEntries
           u == IF Len(w) >= M THEN Tail(w) ELSE w
<1>1. /\ w \in Seq(Row) /\ Len(w) \in Nat /\ Len(w) <= M /\ M \in Nat /\ M # 0
      /\ Range(w) = {w[i] : i \in 1..Len(w)} /\ Range(w) \subseteq Row
  BY LenProperties, ElementsOf, MaxEntriesPositive DEF Windows
<1>2. \A i \in 1..Len(w) : w[i] \in S
  BY <1>1 DEF Others
<1>3. Only(w, S) = w
  <2> HIDE DEF S
  <2> QED BY <1>1, <1>2, OnlyKeeps
<1>4. /\ u \in Seq(Row) /\ Len(u) \in Nat /\ Len(u) < M
      /\ \A i \in 1..Len(u) : u[i] \in S
  <2>1. CASE Len(w) >= M
    <3>1. w # <<>>
      BY <1>1, <2>1, EmptySeq
    <3>2. /\ Tail(w) \in Seq(Row) /\ Len(Tail(w)) = Len(w) - 1
          /\ \A i \in 1..(Len(w) - 1) : Tail(w)[i] = w[i + 1]
      BY <1>1, <3>1, HeadTailProperties
    <3> HIDE DEF S
    <3>3. \A i \in 1..(Len(w) - 1) : Tail(w)[i] \in S
      BY <1>1, <1>2, <3>2
    <3>4. u = Tail(w)
      BY <2>1
    <3> HIDE DEF u
    <3>5. u \in Seq(Row) /\ Len(u) = Len(w) - 1 /\ \A i \in 1..(Len(w) - 1) : u[i] \in S
      BY <3>2, <3>3, <3>4
    <3>6. Len(w) # 0
      BY <1>1, <3>1, EmptySeq
    <3>7. Len(u) \in Nat /\ Len(u) < M
      BY <1>1, <3>5, <3>6
    <3> QED BY <3>5, <3>7
  <2>2. CASE ~(Len(w) >= M)
    <3>1. u = w
      BY <2>2
    <3> HIDE DEF S, u
    <3> QED BY <1>1, <1>2, <2>2, <3>1
  <2> QED BY <2>1, <2>2
<1>5. \A q : PushBounded(w, q, M) = Append(u, q)
  BY DEF PushBounded
<1> HIDE DEF u
<1>6. \A q \in Row : q.sid = r.sid => Put(w, q) = Append(u, q)
  <2> SUFFICES ASSUME NEW q \in Row, q.sid = r.sid PROVE Put(w, q) = Append(u, q)
    OBVIOUS
  <2>1. Put(w, q) = PushBounded(Only(w, S), q, M)
    BY DEF Put
  <2> HIDE DEF S
  <2> QED BY <1>3, <1>5, <2>1
<1>7. Only(Append(u, r), S) = u
  <2>1. r \notin S
    BY DEF Others
  <2> HIDE DEF S
  <2>2. Only(u, S) = u
    BY <1>4, OnlyKeeps
  <2>3. Only(Append(u, r), S) = Only(u, S)
    BY <1>4, <2>1, OnlyAppend
  <2> QED BY <2>2, <2>3
<1>8. ASSUME NEW q \in Row, q.sid = r.sid
      PROVE  Put(Put(w, r), q) = Put(w, q)
  <2>1. Put(w, r) = Append(u, r) /\ Put(w, q) = Append(u, q)
    BY <1>6, <1>8
  <2>2. Put(Append(u, r), q) = PushBounded(Only(Append(u, r), S), q, M)
    BY <1>8 DEF Put
  <2>3. Put(Append(u, r), q) = PushBounded(u, q, M)
    <3> HIDE DEF S
    <3> QED BY <1>7, <2>2
  <2>4. PushBounded(u, q, M) = Append(u, q)
    <3>1. ~(Len(u) >= M)
      BY <1>1, <1>4
    <3> QED BY <3>1 DEF PushBounded
  <2> QED BY <2>1, <2>3, <2>4
<1>9. Put(w, r) = PushBounded(w, r, MaxEntries)
  BY <1>5, <1>6
<1> QED BY <1>8, <1>9

\* The memories that hold some window of rows.
Images == {Image(w) : w \in Windows}

(* Recording a success leaves a memory that holds some window of rows.     *)
LEMMA RecordedImages ==
  ASSUME NEW m \in Images, NEW sid \in Screens
  PROVE  record_success(m, sid, "local") \in Images
<1>1. PICK w \in Windows : m = Image(w)
  BY DEF Images
<1> DEFINE r == RowAfter(sid, entry_or_default(Image(w), sid))
<1>2. r \in Row /\ record_success(Image(w), sid, "local") = Image(Put(w, r))
  BY RecordImage
<1> HIDE DEF r
<1>3. Put(w, r) \in Windows
  BY <1>2, PutFacts
<1> QED BY <1>1, <1>2, <1>3 DEF Images

(* The recursive function the replay of a row is defined by really exists. *)
LEMMA SuccessesSteps ==
  ASSUME NEW m \in Images, NEW sid \in Screens, NEW acts \in Seq({"local"})
  PROVE  /\ Successes(m, sid, acts)[0] = m
         /\ \A i \in 1..Len(acts) :
              Successes(m, sid, acts)[i]
                = record_success(Successes(m, sid, acts)[i - 1], sid, "local")
<1> DEFINE n == Len(acts)
           T == Images
           again(x) == record_success(x, sid, "local")
           Body(g) == [i \in 0..n |-> IF i = 0 THEN m ELSE record_success(g[i - 1], sid, acts[i])]
           step == [i \in 1..n |-> [x \in T |-> again(x)]]
           f == Successes(m, sid, acts)
<1>1. n \in Nat /\ \A i \in 1..n : acts[i] = "local"
  OBVIOUS
<1>2. step \in [1..n -> [T -> T]]
  <2>1. [x \in T |-> again(x)] \in [T -> T]
    <3>1. \A x \in T : again(x) \in T
      BY RecordedImages
    <3> HIDE DEF T, again
    <3> QED BY <3>1
  <2> HIDE DEF T, again
  <2> QED BY <2>1
<1>3. PICK g \in [0..n -> T] : Steps(g, m, n, step)
  <2> HIDE DEF step, n, T
  <2>1. m \in T
    BY DEF T
  <2> QED BY <1>1, <1>2, <2>1, StepsExist
<1>4. g = Body(g)
  <2>1. \A i \in 0..n : g[i] = Body(g)[i]
    <3> SUFFICES ASSUME NEW i \in 0..n PROVE g[i] = Body(g)[i]
      OBVIOUS
    <3>1. CASE i = 0
      BY <1>3, <3>1 DEF Steps
    <3>2. CASE i # 0
      <4>1. i \in 1..n /\ i - 1 \in 0..n
        BY <1>1, <3>2
      <4>2. g[i] = step[i][g[i - 1]]
        BY <1>3, <4>1 DEF Steps
      <4>3. step[i][g[i - 1]] = again(g[i - 1])
        <5> HIDE DEF T, again
        <5> QED BY <4>1
      <4>4. again(g[i - 1]) = record_success(g[i - 1], sid, acts[i])
        BY <1>1, <4>1
      <4>5. Body(g)[i] = record_success(g[i - 1], sid, acts[i])
        BY <3>2
      <4> QED BY <4>2, <4>3, <4>4, <4>5
    <3> QED BY <3>1, <3>2
  <2>2. DOMAIN g = 0..n /\ Body(g) = [i \in 0..n |-> Body(g)[i]]
    OBVIOUS
  <2> HIDE DEF Body
  <2> QED BY <2>1, <2>2
<1>5. f = Body(f)
  <2> HIDE DEF T
  <2> QED BY <1>4 DEF Successes
<1> HIDE DEF f
<1>6. f[0] = m
  <2>1. Body(f)[0] = m
    BY <1>1
  <2> HIDE DEF Body
  <2> QED BY <1>5, <2>1
<1>7. \A i \in 1..n : f[i] = again(f[i - 1])
  <2> SUFFICES ASSUME NEW i \in 1..n PROVE f[i] = again(f[i - 1])
    OBVIOUS
  <2>1. Body(f)[i] = record_success(f[i - 1], sid, acts[i])
    BY <1>1
  <2>2. acts[i] = "local"
    BY <1>1
  <2> HIDE DEF Body
  <2> QED BY <1>5, <2>1, <2>2
<1> QED BY <1>6, <1>7 DEF f

(* The rows hold no failures, so replaying one is replaying its successes. *)
LEMMA ReplayOfRow ==
  ASSUME NEW m, NEW r \in Row
  PROVE  hydrate_row(m, r)
           = Successes(m, r.sid, r.entry.successes)[Len(r.entry.successes)]
<1>1. \A x : Failures(x, r.sid, <<>>)[0] = x
  <2> SUFFICES ASSUME NEW x PROVE Failures(x, r.sid, <<>>)[0] = x
    OBVIOUS
  <2> DEFINE Body(g) == [i \in 0..Len(<<>>) |->
                           IF i = 0 THEN x ELSE record_failure(g[i - 1], r.sid, <<>>[i])]
             g1 == [i \in 0..Len(<<>>) |-> x]
  <2>1. \A i \in 0..Len(<<>>) : i = 0
    OBVIOUS
  <2>2. g1 = Body(g1)
    BY <2>1
  <2>3. Failures(x, r.sid, <<>>) = Body(Failures(x, r.sid, <<>>))
    <3> HIDE DEF g1
    <3> QED BY <2>2 DEF Failures
  <2>4. \A g : Body(g)[0] = x
    OBVIOUS
  <2> HIDE DEF Body
  <2> QED BY <2>3, <2>4
<1>2. r.entry.failures = <<>> /\ Len(<<>>) = 0
  BY DEF Row, Entry
<1>3. hydrate_row(m, r)
        = Failures(Successes(m, r.sid, r.entry.successes)[Len(r.entry.successes)],
                   r.sid, r.entry.failures)[Len(r.entry.failures)]
  BY DEF hydrate_row
<1> QED BY <1>1, <1>2, <1>3

(* So does replaying a row.                                                *)
LEMMA HydratedImages ==
  ASSUME NEW m \in Images, NEW r \in Row
  PROVE  hydrate_row(m, r) \in Images
<1> DEFINE acts == r.entry.successes
           n == Len(acts)
           f == Successes(m, r.sid, acts)
           K == {i \in Nat : i \in 0..n => f[i] \in Images}
<1>1. r.sid \in Screens /\ acts \in Seq({"local"}) /\ n \in Nat
  <2>1. r.sid \in Screens /\ acts \in Seq({"local"})
    BY DEF Row, Entry
  <2> HIDE DEF acts
  <2> QED BY <2>1
<1> HIDE DEF acts
<1>2. /\ f[0] = m
      /\ \A i \in 1..n : f[i] = record_success(f[i - 1], r.sid, "local")
  BY <1>1, SuccessesSteps
<1> HIDE DEF f
<1>3. 0 \in K
  BY <1>2
<1>4. ASSUME NEW i \in Nat, i \in K
      PROVE  i + 1 \in K
  <2> SUFFICES ASSUME i + 1 \in 0..n PROVE f[i + 1] \in Images
    OBVIOUS
  <2>1. i \in 0..n /\ i + 1 \in 1..n /\ (i + 1) - 1 = i
    BY <1>1
  <2>2. f[i + 1] = record_success(f[i], r.sid, "local") /\ f[i] \in Images
    BY <1>2, <1>4, <2>1
  <2> QED BY <1>1, <2>2, RecordedImages
<1>5. Nat \subseteq K
  <2> HIDE DEF K
  <2> QED BY <1>3, <1>4, NatSetInduction
<1>6. f[n] \in Images
  <2>1. n \in 0..n
    BY <1>1
  <2> QED BY <1>1, <1>5, <2>1
<1> QED BY <1>6, ReplayOfRow DEF f, acts

(* Replaying a row of a screen that has none yet puts that row at the end. *)
LEMMA HydrateRow ==
  ASSUME NEW w \in Windows, NEW r \in Row, r.entry.successes # <<>>,
         \A q \in Range(w) : q.sid # r.sid
  PROVE  hydrate_row(Image(w), r) = Image(Put(w, r))
<1> DEFINE sid == r.sid
           acts == r.entry.successes
           n == Len(acts)
           m == Image(w)
           f == Successes(m, sid, acts)
           row(i) == [sid |-> sid, entry |-> [successes |-> SubSeq(acts, 1, i), failures |-> <<>>]]
           K == {i \in Nat : i \in 1..n => f[i] = Image(Put(w, row(i)))}
<1>1. /\ sid \in Screens /\ acts \in Seq({"local"}) /\ n \in Nat /\ n # 0
      /\ r.entry = [successes |-> acts, failures |-> <<>>]
      /\ r = [sid |-> sid, entry |-> r.entry]
  <2>1. /\ sid \in Screens /\ acts \in Seq({"local"})
        /\ r.entry = [successes |-> acts, failures |-> <<>>]
        /\ r = [sid |-> sid, entry |-> r.entry]
    BY DEF Row, Entry
  <2>2. \A s \in Seq({"local"}) : Len(s) \in Nat /\ (Len(s) = 0 <=> s = <<>>)
    OBVIOUS
  <2> QED BY <2>1, <2>2
<1>2. m \in Images
  BY DEF Images
<1> HIDE DEF acts, m
<1>3. /\ f[0] = m
      /\ \A i \in 1..n : f[i] = record_success(f[i - 1], sid, "local")
  BY <1>1, <1>2, SuccessesSteps
<1> HIDE DEF f
<1>4. \A i \in 1..n : row(i) \in Row /\ row(i).sid = sid
  <2> SUFFICES ASSUME NEW i \in 1..n PROVE row(i) \in Row /\ row(i).sid = sid
    OBVIOUS
  <2>1. SubSeq(acts, 1, i) \in Seq({"local"})
    <3>1. i \in 0..Len(acts)
      BY <1>1
    <3> QED BY <1>1, <3>1, CutSequence
  <2> DEFINE p == SubSeq(acts, 1, i)
  <2> HIDE DEF p
  <2>2. p \in Seq({"local"}) /\ row(i) = [sid |-> sid, entry |-> [successes |-> p, failures |-> <<>>]]
    BY <2>1 DEF p
  <2> HIDE DEF row
  <2> QED BY <1>1, <2>2 DEF Row, Entry
<1>5. \A i \in 1..n : \A e : e.successes = SubSeq(acts, 1, i - 1) => RowAfter(sid, e) = row(i)
  <2> SUFFICES ASSUME NEW i \in 1..n, NEW e, e.successes = SubSeq(acts, 1, i - 1)
               PROVE  RowAfter(sid, e) = row(i)
    OBVIOUS
  <2>1. SubSeq(acts, 1, i) = Append(SubSeq(acts, 1, i - 1), acts[i]) /\ acts[i] = "local"
    <3>1. SubSeq(acts, 1, i) = Append(SubSeq(acts, 1, i - 1), acts[i])
      BY <1>1, LongerPrefix
    <3>2. acts[i] = "local"
      BY <1>1
    <3> QED BY <3>1, <3>2
  <2> DEFINE p == SubSeq(acts, 1, i - 1)
             q == SubSeq(acts, 1, i)
  <2> HIDE DEF p, q
  <2>2. q = Append(p, "local") /\ e.successes = p
    BY <2>1 DEF p, q
  <2>3. row(i) = [sid |-> sid, entry |-> [successes |-> q, failures |-> <<>>]]
    BY DEF q
  <2> HIDE DEF row
  <2> QED BY <2>2, <2>3 DEF RowAfter
<1>6. 0 \in K
  OBVIOUS
<1>7. ASSUME NEW i \in Nat, i \in K
      PROVE  i + 1 \in K
  <2> SUFFICES ASSUME i + 1 \in 1..n
               PROVE  f[i + 1] = Image(Put(w, row(i + 1)))
    OBVIOUS
  <2>0. (i + 1) - 1 = i
    OBVIOUS
  <2>1. f[i + 1] = record_success(f[i], sid, "local")
    BY <1>3, <2>0
  <2>2. CASE i = 0
    <3>1. SubSeq(acts, 1, 0) = <<>>
      BY <1>1
    <3>2. entry_or_default(m, sid) = NoEntry
      BY <1>1, KnownEntry DEF m
    <3>3. NoEntry.successes = SubSeq(acts, 1, (i + 1) - 1)
      BY <2>0, <2>2, <3>1 DEF NoEntry
    <3> HIDE DEF row
    <3>4. RowAfter(sid, entry_or_default(m, sid)) = row(i + 1)
      BY <1>5, <3>2, <3>3
    <3>5. record_success(m, sid, "local") = Image(Put(w, row(i + 1)))
      <4>1. record_success(Image(w), sid, "local")
              = Image(Put(w, RowAfter(sid, entry_or_default(Image(w), sid))))
        BY <1>1, RecordImage
      <4> QED BY <3>4, <4>1 DEF m
    <3> QED BY <1>3, <2>1, <2>2, <3>5
  <2>3. CASE i # 0
    <3> HIDE DEF sid
    <3> DEFINE v == Put(w, row(i))
    <3>1. i \in 1..n
      BY <1>1, <2>3
    <3>2. f[i] = Image(v)
      BY <1>7, <3>1
    <3>3. row(i).entry.successes = SubSeq(acts, 1, (i + 1) - 1)
      BY <2>0
    <3> HIDE DEF row
    <3>4. row(i) \in Row /\ row(i).sid = sid /\ row(i + 1) \in Row /\ row(i + 1).sid = sid
      BY <1>4, <3>1
    <3>5. v \in Windows /\ row(i) \in Range(v)
      BY <3>4, PutFacts
    <3> HIDE DEF v
    <3>6. entry_or_default(Image(v), sid) = row(i).entry
      BY <3>4, <3>5, KnownEntry
    <3>7. RowAfter(sid, row(i).entry) = row(i + 1)
      BY <1>5, <3>3
    <3>8. record_success(Image(v), sid, "local") = Image(Put(v, row(i + 1)))
      <4>1. record_success(Image(v), sid, "local")
              = Image(Put(v, RowAfter(sid, entry_or_default(Image(v), sid))))
        BY <1>1, <3>5, RecordImage
      <4> QED BY <3>6, <3>7, <4>1
    <3>9. Put(v, row(i + 1)) = Put(w, row(i + 1))
      <4>1. \A q \in Range(w) : q.sid # row(i).sid
        BY <3>4 DEF sid
      <4>2. \A q \in Row : q.sid = row(i).sid => Put(Put(w, row(i)), q) = Put(w, q)
        BY <3>4, <4>1, PutNew
      <4> QED BY <3>4, <4>2 DEF v
    <3> QED BY <2>1, <3>2, <3>8, <3>9
  <2> QED BY <2>2, <2>3
<1>8. Nat \subseteq K
  <2> HIDE DEF K
  <2> QED BY <1>6, <1>7, NatSetInduction
<1>9. f[n] = Image(Put(w, row(n)))
  <2>1. n \in 1..n
    BY <1>1
  <2> HIDE DEF row
  <2> QED BY <1>1, <1>8, <2>1
<1>10. row(n) = r
  <2>1. SubSeq(acts, 1, n) = acts
    BY <1>1, SubSeqFull
  <2> QED BY <1>1, <2>1
<1>11. hydrate_row(m, r) = f[n]
  BY ReplayOfRow DEF f, acts
<1> HIDE DEF row
<1> QED BY <1>9, <1>10, <1>11 DEF m

(* A new memory holds no rows.                                             *)
LEMMA EmptyImage == Image(<<>>) = NewMemory
<1>1. Range(<<>>) = {} /\ Order(<<>>) = <<>>
  BY DEF Range, Order
<1>2. Entries({}) = [s \in {} |-> <<>>]
  BY DEF Entries
<1> QED BY <1>1, <1>2 DEF Image, NewMemory

(* The recursive function open() is defined by really exists.              *)
LEMMA HydratedSteps ==
  ASSUME NEW t \in Seq(Row)
  PROVE  /\ Hydrated(t)[0] = NewMemory
         /\ \A i \in 1..Len(t) : Hydrated(t)[i] = hydrate_row(Hydrated(t)[i - 1], t[i])
<1> DEFINE n == Len(t)
           T == Images
           Body(g) == [i \in 0..n |-> IF i = 0 THEN NewMemory ELSE hydrate_row(g[i - 1], t[i])]
           step == [i \in 1..n |-> [x \in T |-> hydrate_row(x, t[i])]]
           f == Hydrated(t)
<1>1. n \in Nat /\ \A i \in 1..n : t[i] \in Row
  BY LenProperties, ElementOfSeq
<1>2. step \in [1..n -> [T -> T]]
  <2>1. \A i \in 1..n : [x \in T |-> hydrate_row(x, t[i])] \in [T -> T]
    <3> SUFFICES ASSUME NEW i \in 1..n
                 PROVE  [x \in T |-> hydrate_row(x, t[i])] \in [T -> T]
      OBVIOUS
    <3>1. \A x \in T : hydrate_row(x, t[i]) \in T
      BY <1>1, HydratedImages
    <3> HIDE DEF T
    <3> QED BY <3>1
  <2> HIDE DEF T
  <2> QED BY <2>1
<1>3. NewMemory \in T
  <2>1. <<>> \in Seq(Row) /\ Len(<<>>) = 0 /\ Range(<<>>) = {}
    BY DEF Range
  <2>2. <<>> \in Windows
    BY <2>1, MaxEntriesPositive DEF Windows, Distinct
  <2>3. Image(<<>>) = NewMemory
    BY EmptyImage
  <2> QED BY <2>2, <2>3 DEF Images
<1>4. PICK g \in [0..n -> T] : Steps(g, NewMemory, n, step)
  <2> HIDE DEF step, n, T
  <2> QED BY <1>1, <1>2, <1>3, StepsExist
<1>5. g = Body(g)
  <2>1. \A i \in 0..n : g[i] = Body(g)[i]
    <3> SUFFICES ASSUME NEW i \in 0..n PROVE g[i] = Body(g)[i]
      OBVIOUS
    <3>1. CASE i = 0
      BY <1>4, <3>1 DEF Steps
    <3>2. CASE i # 0
      <4>1. i \in 1..n /\ i - 1 \in 0..n
        BY <1>1, <3>2
      <4>2. g[i] = step[i][g[i - 1]]
        BY <1>4, <4>1 DEF Steps
      <4>3. step[i][g[i - 1]] = hydrate_row(g[i - 1], t[i])
        <5> HIDE DEF T
        <5> QED BY <4>1
      <4>4. Body(g)[i] = hydrate_row(g[i - 1], t[i])
        BY <3>2
      <4> QED BY <4>2, <4>3, <4>4
    <3> QED BY <3>1, <3>2
  <2>2. DOMAIN g = 0..n /\ Body(g) = [i \in 0..n |-> Body(g)[i]]
    OBVIOUS
  <2> HIDE DEF Body
  <2> QED BY <2>1, <2>2
<1>6. f = Body(f)
  <2> HIDE DEF T
  <2> QED BY <1>5 DEF Hydrated
<1> HIDE DEF f
<1>7. f[0] = NewMemory
  <2>1. Body(f)[0] = NewMemory
    BY <1>1
  <2> HIDE DEF Body
  <2> QED BY <1>6, <2>1
<1>8. \A i \in 1..n : f[i] = hydrate_row(f[i - 1], t[i])
  <2> SUFFICES ASSUME NEW i \in 1..n PROVE f[i] = hydrate_row(f[i - 1], t[i])
    OBVIOUS
  <2>1. Body(f)[i] = hydrate_row(f[i - 1], t[i])
    BY <1>1
  <2> HIDE DEF Body
  <2> QED BY <1>6, <2>1
<1> QED BY <1>7, <1>8 DEF f

\* What the file holds: one row per screen, none of them empty.
Saved(t) == Distinct(t) /\ \A q \in Range(t) : q.entry.successes # <<>>

(* Opening the file rebuilds the memory that holds its last rows.          *)
LEMMA OpenImage ==
  ASSUME NEW t \in Seq(Row), Saved(t)
  PROVE  open(t) = Image(LastOf(t, MaxEntries))
<1> DEFINE f == Hydrated(t)
           n == Len(t)
           M == MaxEntries
           p(i) == SubSeq(t, 1, i)
           K == {i \in Nat : i \in 0..n => f[i] = Image(LastOf(p(i), M))}
<1>1. /\ n \in Nat /\ M \in Nat \ {0} /\ \A i \in 1..n : t[i] \in Row /\ t[i] \in Range(t)
      /\ Range(t) = {t[i] : i \in 1..n}
  BY LenProperties, ElementOfSeq, ElementsOf, MaxEntriesPositive
<1>2. /\ f[0] = NewMemory
      /\ \A i \in 1..n : f[i] = hydrate_row(f[i - 1], t[i])
  BY HydratedSteps
<1> HIDE DEF f
<1>3. 0 \in K
  <2>1. p(0) = <<>> /\ Len(<<>>) = 0
    OBVIOUS
  <2>2. LastOf(<<>>, M) = <<>>
    BY <1>1, <2>1 DEF LastOf
  <2> HIDE DEF p
  <2>3. f[0] = Image(LastOf(p(0), M))
    BY <1>2, <2>1, <2>2, EmptyImage
  <2> QED BY <2>3
<1>4. ASSUME NEW i \in Nat, i \in K
      PROVE  i + 1 \in K
  <2> SUFFICES ASSUME i + 1 \in 0..n PROVE f[i + 1] = Image(LastOf(p(i + 1), M))
    OBVIOUS
  <2>1. i \in 0..n /\ i + 1 \in 1..n /\ (i + 1) - 1 = i
    BY <1>1
  <2> DEFINE u == p(i)
             r == t[i + 1]
             w == LastOf(u, M)
  <2>2. u \in Seq(Row) /\ r \in Row /\ p(i + 1) = Append(u, r) /\ r.entry.successes # <<>>
    <3>1. /\ SubSeq(t, 1, (i + 1) - 1) \in Seq(Row)
          /\ SubSeq(t, 1, i + 1) = Append(SubSeq(t, 1, (i + 1) - 1), t[i + 1])
      BY <2>1, LongerPrefix
    <3>2. r \in Row /\ r.entry.successes # <<>>
      BY <1>1, <2>1 DEF Saved
    <3> QED BY <2>1, <3>1, <3>2
  <2>3. Distinct(u) /\ \A q \in Range(u) : q.sid # r.sid
    <3>1. u \in Seq(Row) /\ Len(u) = i /\ \A j \in 1..i : u[j] = t[j]
      <4>1. \A j \in 1..i : t[j] \in Row
        BY <1>1, <2>1
      <4> QED BY <2>1, <4>1, SubSeqProperties
    <3>2. Range(u) = {u[j] : j \in 1..i}
      <4> HIDE DEF u
      <4> QED BY <2>2, <3>1, ElementsOf
    <3> HIDE DEF u
    <3>3. \A j, k \in 1..n : t[j].sid = t[k].sid => j = k
      BY DEF Saved, Distinct
    <3>4. \A j \in 1..i : j \in 1..n /\ j # i + 1
      BY <1>1, <2>1
    <3>5. Distinct(u)
      BY <3>1, <3>3, <3>4 DEF Distinct
    <3>6. ASSUME NEW j \in 1..i PROVE u[j].sid # r.sid
      <4>1. j \in 1..n /\ j # i + 1 /\ u[j] = t[j]
        BY <3>1, <3>4
      <4> QED BY <2>1, <3>3, <4>1
    <3> QED BY <3>2, <3>5, <3>6
  <2>4. /\ w \in Windows /\ \A q \in Range(w) : q \in Range(u)
    <3> HIDE DEF u
    <3> QED BY <2>2, <2>3, WindowFacts
  <2> HIDE DEF u, r
  <2>5. f[i] = Image(w)
    BY <1>4, <2>1 DEF u
  <2> HIDE DEF w
  <2>6. hydrate_row(Image(w), r) = Image(Put(w, r))
    BY <2>2, <2>3, <2>4, HydrateRow
  <2>7. Put(w, r) = PushBounded(w, r, M)
    BY <2>2, <2>3, <2>4, PutNew
  <2>8. PushBounded(w, r, M) = LastOf(Append(u, r), M)
    <3> HIDE DEF M
    <3> QED BY <1>1, <2>2, PushKeepsLastOf DEF w
  <2>9. f[i + 1] = hydrate_row(f[i], r)
    BY <1>2, <2>1 DEF r
  <2> HIDE DEF p
  <2> QED BY <2>2, <2>5, <2>6, <2>7, <2>8, <2>9
<1>5. Nat \subseteq K
  <2> HIDE DEF K
  <2> QED BY <1>3, <1>4, NatSetInduction
<1>6. f[n] = Image(LastOf(p(n), M))
  <2>1. n \in 0..n
    BY <1>1
  <2> HIDE DEF p
  <2> QED BY <1>1, <1>5, <2>1
<1>7. p(n) = t
  BY SubSeqFull
<1> HIDE DEF p
<1> QED BY <1>6, <1>7 DEF open, f

\* The file keeps every screen that was ever saved; the memory holds the last
\* rows of it, or, once a write was lost, at least some window of rows.
MemoryInv ==
  /\ rows \in Seq(Row) /\ Saved(rows)
  /\ memory \in Images
  /\ ~unsaved => memory = Image(LastOf(rows, MaxEntries))

(* Only Remember and Crash touch the memory, the file or the mark of a     *)
(* failed persist.                                                         *)
LEMMA MemoryStep == MemoryInv /\ [Next]_vars => MemoryInv'
<1> SUFFICES ASSUME MemoryInv, [Next]_vars
             PROVE  MemoryInv'
  OBVIOUS
<1>1. rows \in Seq(Row) /\ Saved(rows) /\ memory \in Images
      /\ (~unsaved => memory = Image(LastOf(rows, MaxEntries)))
  BY DEF MemoryInv
<1>2. Distinct(rows)
  BY <1>1 DEF Saved
<1>3. ASSUME UNCHANGED <<memory, rows, unsaved>>
      PROVE  MemoryInv'
  BY <1>1, <1>3 DEF MemoryInv
<1>4. ASSUME NEW c \in Conns, Remember(c)
      PROVE  MemoryInv'
  <2>1. PICK focus \in Screens \cup {NoFocus}, saved \in BOOLEAN :
          IF focus = NoFocus
          THEN saved /\ UNCHANGED <<memory, rows, unsaved>>
          ELSE /\ saved \/ ~unsaved
               /\ memory' = record_success(memory, focus, "local")
               /\ rows' = IF saved /\ focus \in Cached(memory')
                          THEN persist_screen(rows, focus, peek(memory', focus))
                          ELSE rows
               /\ unsaved' = (unsaved \/ ~saved)
    BY <1>4 DEF Remember
  <2>2. CASE focus = NoFocus
    BY <1>3, <2>1, <2>2
  <2>3. CASE focus # NoFocus
    <3>1. focus \in Screens
      BY <2>3
    <3>2. PICK w \in Windows : memory = Image(w)
      BY <1>1 DEF Images
    <3>3. /\ memory' = record_success(memory, focus, "local")
          /\ rows' = IF saved /\ focus \in Cached(memory')
                     THEN persist_screen(rows, focus, peek(memory', focus))
                     ELSE rows
          /\ unsaved' = (unsaved \/ ~saved)
      BY <2>1, <2>3
    <3> DEFINE r == RowAfter(focus, entry_or_default(memory, focus))
    <3>4. /\ r \in Row /\ r.sid = focus /\ r.entry.successes # <<>>
          /\ focus \in Cached(memory') /\ peek(memory', focus) = r.entry
      <4>1. LET e == entry_or_default(Image(w), focus)
                q == RowAfter(focus, e)
            IN  /\ q \in Row /\ q.sid = focus /\ q.entry.successes # <<>>
                /\ focus \in Cached(record_success(Image(w), focus, "local"))
                /\ peek(record_success(Image(w), focus, "local"), focus) = q.entry
        BY <3>1, RecordImage
      <4> QED BY <3>2, <3>3, <4>1
    <3>5. ASSUME NEW v \in Windows, memory = Image(v)
          PROVE  memory' = Image(Put(v, r))
      <4>1. record_success(Image(v), focus, "local")
              = Image(Put(v, RowAfter(focus, entry_or_default(Image(v), focus))))
        BY <3>1, RecordImage
      <4> QED BY <3>3, <3>5, <4>1
    <3> HIDE DEF r
    <3>6. memory' \in Images
      <4>1. Put(w, r) \in Windows
        BY <3>4, PutFacts
      <4> QED BY <3>2, <3>5, <4>1 DEF Images
    <3>7. CASE saved
      <4>1. rows' = persist_screen(rows, r.sid, r.entry)
        BY <3>3, <3>4, <3>7
      <4> DEFINE p == persist_screen(rows, r.sid, r.entry)
                 old == LastOf(rows, MaxEntries)
      <4>2. /\ p \in Seq(Row) /\ Distinct(p)
            /\ Range(p) = (Range(rows) \cap Others(r.sid)) \cup {r}
            /\ old \in Windows /\ LastOf(p, MaxEntries) = Put(old, r)
        BY <1>1, <1>2, <3>4, PersistWindow
      <4> HIDE DEF p, old
      <4>3. Saved(p)
        BY <1>1, <3>4, <4>2 DEF Saved
      <4>4. ~unsaved' => memory' = Image(LastOf(p, MaxEntries))
        <5>1. SUFFICES ASSUME ~unsaved'
                       PROVE  memory' = Image(LastOf(p, MaxEntries))
          OBVIOUS
        <5>2. memory = Image(old)
          BY <1>1, <3>3, <5>1 DEF old
        <5> QED BY <3>5, <4>2, <5>2
      <4>5. rows' = p
        BY <4>1 DEF p
      <4> QED BY <3>6, <4>2, <4>3, <4>4, <4>5 DEF MemoryInv
    <3>8. CASE ~saved
      <4>1. rows' = rows /\ unsaved'
        BY <3>3, <3>8
      <4> QED BY <1>1, <3>6, <4>1 DEF MemoryInv
    <3> QED BY <3>7, <3>8
  <2> QED BY <2>2, <2>3
<1>5. CASE Crash
  <2>1. memory' = open(rows) /\ rows' = rows
    BY <1>5 DEF Crash
  <2>2. open(rows) = Image(LastOf(rows, MaxEntries))
    BY <1>1, OpenImage
  <2>3. LastOf(rows, MaxEntries) \in Windows
    BY <1>1, <1>2, WindowFacts
  <2> QED BY <1>1, <2>1, <2>2, <2>3 DEF MemoryInv, Images
<1>6. ASSUME ~Crash, \A c \in Conns : ~Remember(c)
      PROVE  UNCHANGED <<memory, rows, unsaved>>
  <2>1. CASE UNCHANGED vars
    BY <2>1 DEF vars, shared, ghosts
  <2>2. ASSUME NEW c \in Conns, Step(c) PROVE UNCHANGED <<memory, rows, unsaved>>
    BY <1>6, <2>2 DEF Step, Subscribe, DrawSeq, Produce, Record, WriteReply, WriteFails,
                      EndOfStream, Execute, Bridge, Reply, StepVerified, shared, ghosts
  <2>3. ASSUME NEW c \in Conns, NEW req \in Requests[c], Accept(c, req)
        PROVE  UNCHANGED <<memory, rows, unsaved>>
    BY <2>3 DEF Accept, shared, ghosts
  <2>4. CASE LinkLost
    BY <2>4 DEF LinkLost, ghosts
  <2> QED BY <1>6, <2>1, <2>2, <2>3, <2>4 DEF Next
<1> QED BY <1>3, <1>4, <1>5, <1>6

(* The memory always is what some window of rows makes, and what the last  *)
(* rows of the file make as long as every persist_screen went through.     *)
THEOREM DaemonMemoryInvariant == Spec => []MemoryInv
<1>1. Init => MemoryInv
  <2> SUFFICES ASSUME Init PROVE MemoryInv
    OBVIOUS
  <2>1. rows = <<>> /\ memory = open(<<>>)
    BY DEF Init
  <2>2. <<>> \in Seq(Row) /\ Len(<<>>) = 0 /\ Range(<<>>) = {}
    BY DEF Range
  <2>3. Distinct(<<>>) /\ Saved(<<>>)
    BY <2>2 DEF Saved, Distinct
  <2>4. open(<<>>) = Image(LastOf(<<>>, MaxEntries)) /\ LastOf(<<>>, MaxEntries) \in Windows
    BY <2>2, <2>3, OpenImage, WindowFacts
  <2> QED BY <2>1, <2>2, <2>3, <2>4 DEF MemoryInv, Images
<1>2. MemoryInv /\ [Next]_vars => MemoryInv'
  BY MemoryStep
<1> QED BY <1>1, <1>2, PTL DEF Spec

(* A crash forgets nothing that was saved: as long as every persist_screen *)
(* went through, replaying the file would rebuild exactly the memory the   *)
(* process has, evictions and recency included.                            *)
THEOREM DaemonRestartRemembers == Spec => []RestartRemembers
<1>1. MemoryInv => RestartRemembers
  <2> SUFFICES ASSUME MemoryInv PROVE RestartRemembers
    OBVIOUS
  <2>1. PICK w \in Windows : memory = Image(w)
    BY DEF MemoryInv, Images
  <2>2. w \in Seq(Row) /\ Distinct(w)
    BY DEF Windows
  <2>3. LruIsDomain(Image(w))
    <3>1. Image(w).lru = Order(w)
      BY DEF Image
    <3>2. Cached(Image(w)) = {r.sid : r \in Range(w)}
      BY KnownEntry
    <3> QED BY <2>2, <3>1, <3>2, OrderFacts DEF LruIsDomain
  <2>4. ~unsaved => open(rows) = memory
    BY OpenImage DEF MemoryInv
  <2> QED BY <2>1, <2>3, <2>4 DEF RestartRemembers
<1> QED BY <1>1, DaemonMemoryInvariant, PTL

-----------------------------------------------------------------------------
(* The bridge.                                                             *)

\* What the variables of the executor hold.
Message == [name : STRING, part : Nat]
Link == [buf : Seq(Message), wire : Seq(Message), faults : Nat, ok : BOOLEAN]
Codes == {"none", "NotImplemented", "PermissionDenied", "KernelError"}
Outcomes == [landed : BOOLEAN, code : Codes]

\* What the phone has received or will.
Everything(l) == l.wire \o l.buf

\* How often m is in s.
Copies(s, m) == Len(Only(s, {m}))

\* With a applies of its action, m is in the buffer at most a times, and each
\* failed write has sent at most these once more.
Fits(l, m, a) ==
  /\ Copies(l.buf, m) <= a
  /\ Copies(l.wire, m) + Copies(l.buf, m) <= a * (1 + l.faults)

\* The copies in a concatenation are those in its parts.
LEMMA CopiesConcat ==
  ASSUME NEW s \in Seq(Message), NEW t \in Seq(Message), NEW m
  PROVE  Copies(s \o t, m) = Copies(s, m) + Copies(t, m)
<1>1. Only(s \o t, {m}) = Only(s, {m}) \o Only(t, {m})
  BY OnlyConcat
<1>2. Only(s, {m}) \in Seq(Message) /\ Only(t, {m}) \in Seq(Message)
  BY OnlyType
<1>3. Len(Only(s, {m}) \o Only(t, {m})) = Len(Only(s, {m})) + Len(Only(t, {m}))
  BY <1>2
<1> QED
  BY <1>1, <1>3, Zenon DEF Copies

\* A number of copies is a natural number.
LEMMA CopiesType ==
  ASSUME NEW s \in Seq(Message), NEW m
  PROVE  Copies(s, m) \in Nat
<1>1. Only(s, {m}) \in Seq(Message)
  BY OnlyType
<1> QED
  BY <1>1 DEF Copies

\* One more message is one more copy of that message alone.
LEMMA CopiesOfOne ==
  ASSUME NEW s \in Seq(Message), NEW e \in Message, NEW m
  PROVE  Copies(Append(s, e), m) = Copies(s, m) + (IF e = m THEN 1 ELSE 0)
<1>1. Only(Append(s, e), {m}) = IF e \in {m} THEN Append(Only(s, {m}), e) ELSE Only(s, {m})
  BY OnlyAppend
<1>2. Only(s, {m}) \in Seq(Message)
  BY OnlyType
<1>3. Len(Append(Only(s, {m}), e)) = Len(Only(s, {m})) + 1
  BY <1>2
<1>4. Len(Only(s, {m})) \in Nat
  BY <1>2
<1>5. CASE e = m
  BY <1>1, <1>3, <1>5 DEF Copies
<1>6. CASE e # m
  BY <1>1, <1>4, <1>6 DEF Copies
<1> QED
  BY <1>5, <1>6

\* Nothing has no copies.
LEMMA CopiesOfNone ==
  ASSUME NEW m
  PROVE  Copies(<<>>, m) = 0
  BY OnlyEmpty DEF Copies

\* A prefix.
LEMMA CopiesPrefix ==
  ASSUME NEW s \in Seq(Message), NEW k \in 0..Len(s), NEW m
  PROVE  /\ SubSeq(s, 1, k) \in Seq(Message)
         /\ Copies(SubSeq(s, 1, k), m) <= Copies(s, m)
<1> DEFINE p == SubSeq(s, 1, k)
           q == SubSeq(s, k + 1, Len(s))
<1>1. p \in Seq(Message) /\ q \in Seq(Message) /\ s = p \o q
  BY CutSequence
<1>2. Copies(p \o q, m) = Copies(p, m) + Copies(q, m)
  BY <1>1, CopiesConcat
<1>3. Copies(p, m) \in Nat /\ Copies(q, m) \in Nat
  BY <1>1, CopiesType
<1> HIDE DEF p, q
<1>4. Copies(s, m) = Copies(p, m) + Copies(q, m)
  BY <1>1, <1>2, Zenon
<1>5. Copies(p, m) <= Copies(s, m)
  BY <1>3, <1>4
<1> QED
  BY <1>1, <1>5 DEF p

\* The allowance for a and f + 1 writes is that for f and a more.
LEMMA Allowance ==
  ASSUME NEW a \in Nat, NEW f \in Nat, NEW c \in Nat
  PROVE  /\ a * (1 + f) \in Nat /\ a * (1 + (f + 1)) = a * (1 + f) + a
         /\ a * (1 + f) + c <= (a + c) * (1 + f)
<1>1. a * f \in Nat /\ c * f \in Nat
  OBVIOUS
<1>2. a * (1 + f) = a + a * f /\ a * (1 + (f + 1)) = a + (a * f + a)
  BY <1>1
<1>3. (a + c) * (1 + f) = (a + c) + (a * f + c * f)
  BY <1>1
<1> QED
  BY <1>1, <1>2, <1>3

\* More applies allow at least as many copies.
LEMMA FitsMore ==
  ASSUME NEW l \in Link, NEW m, NEW a \in Nat, NEW c \in Nat, Fits(l, m, a)
  PROVE  Fits(l, m, a + c)
<1> DEFINE b == Copies(l.buf, m)
           w == Copies(l.wire, m)
           f == l.faults
<1>1. b \in Nat /\ w \in Nat /\ f \in Nat
  BY CopiesType DEF Link
<1>2. b <= a /\ w + b <= a * (1 + f)
  BY DEF Fits
<1> HIDE DEF b, w, f
<1>3. a * (1 + f) \in Nat /\ a * (1 + f) + c <= (a + c) * (1 + f)
  BY <1>1, Allowance
<1> DEFINE x == a * (1 + f)
           y == (a + c) * (1 + f)
<1>4. y \in Nat
  BY <1>1
<1> HIDE DEF x, y
<1>5. b <= a + c /\ w + b <= y
  BY <1>1, <1>2, <1>3, <1>4 DEF x, y
<1> QED
  BY <1>5 DEF Fits, b, w, f, y

-----------------------------------------------------------------------------
(* Writing.                                                                *)

\* A failed write: the prefix it sent is paid for by the fault, and the
\* buffer keeps everything, so the phone can get the prefix again.
LEMMA FailedWrite ==
  ASSUME NEW l \in Link, NEW x \in WriteBreaks(l)
  PROVE  /\ x \in Link /\ ~x.ok
         /\ \A m, a : a \in Nat /\ Fits(l, m, a) => Fits(x, m, a)
<1>1. PICK k \in 0..Len(l.buf) :
        x = [l EXCEPT !.wire = @ \o SubSeq(l.buf, 1, k), !.faults = @ + 1, !.ok = FALSE]
  BY DEF WriteBreaks
<1> DEFINE p == SubSeq(l.buf, 1, k)
<1>2. l.buf \in Seq(Message) /\ l.wire \in Seq(Message) /\ l.faults \in Nat
  BY DEF Link
<1>3. p \in Seq(Message) /\ \A m : Copies(p, m) <= Copies(l.buf, m)
  BY <1>2, CopiesPrefix
<1>4. /\ x.wire = l.wire \o p /\ x.buf = l.buf /\ x.faults = l.faults + 1
      /\ x.ok = FALSE /\ x \in Link
  <2>1. l.wire \o p \in Seq(Message)
    BY <1>2, <1>3
  <2> DEFINE y == l.wire \o p
             g == l.faults + 1
  <2>2. x = [l EXCEPT !.wire = y, !.faults = g, !.ok = FALSE] /\ y \in Seq(Message) /\ g \in Nat
    BY <1>1, <1>2, <2>1
  <2> HIDE DEF y, g
  <2>3. x.wire = y /\ x.buf = l.buf /\ x.faults = g /\ x.ok = FALSE /\ x \in Link
    BY <2>2 DEF Link
  <2> QED
    BY <2>3 DEF y, g
<1> HIDE DEF p
<1>5. ASSUME NEW m, NEW a \in Nat, Fits(l, m, a)
      PROVE  Fits(x, m, a)
  <2> DEFINE b == Copies(l.buf, m)
             w == Copies(l.wire, m)
             c == Copies(p, m)
             f == l.faults
  <2>1. b \in Nat /\ w \in Nat /\ c \in Nat /\ c <= b /\ f \in Nat
    BY <1>2, <1>3, CopiesType
  <2>2. Copies(x.wire, m) = w + c
    <3>1. Copies(l.wire \o p, m) = w + c
      BY <1>2, <1>3, CopiesConcat
    <3> QED
      BY <1>4, <3>1, Zenon
  <2>3. b <= a /\ w + b <= a * (1 + f)
    BY <1>5 DEF Fits
  <2> HIDE DEF b, w, c, f
  <2>4. a * (1 + f) \in Nat /\ a * (1 + (f + 1)) = a * (1 + f) + a
    BY <2>1, Allowance
  <2> DEFINE y == a * (1 + f)
             z == a * (1 + (f + 1))
  <2>5. (w + c) + b <= z
    <3> HIDE DEF y, z
    <3>1. y \in Nat /\ z = y + a /\ w + b <= y
      BY <2>3, <2>4 DEF y, z
    <3> QED
      BY <2>1, <2>3, <3>1
  <2> QED
    BY <1>4, <2>2, <2>3, <2>5 DEF Fits, b, f
<1> QED
  BY <1>4, <1>5

\* A write that works: the buffer moves to the wire and is empty.
LEMMA GoodWrite ==
  ASSUME NEW l \in Link
  PROVE  /\ WriteWorks(l) \in Link /\ WriteWorks(l).ok
         /\ WriteWorks(l).buf = <<>> /\ WriteWorks(l).wire = Everything(l)
         /\ \A m, a : a \in Nat /\ Fits(l, m, a) => Fits(WriteWorks(l), m, a)
<1> DEFINE x == WriteWorks(l)
<1>1. l.buf \in Seq(Message) /\ l.wire \in Seq(Message) /\ l.faults \in Nat
  BY DEF Link
<1>2. l.wire \o l.buf \in Seq(Message) /\ <<>> \in Seq(Message)
  BY <1>1
<1>3. /\ x.wire = l.wire \o l.buf /\ x.buf = <<>> /\ x.faults = l.faults
      /\ x.ok = TRUE /\ x \in Link
  <2> DEFINE y == l.wire \o l.buf
             e == <<>>
  <2>1. x = [l EXCEPT !.wire = y, !.buf = e, !.ok = TRUE] /\ y \in Seq(Message) /\ e \in Seq(Message)
    BY <1>2 DEF WriteWorks
  <2> HIDE DEF x, y, e
  <2>2. x.wire = y /\ x.buf = e /\ x.faults = l.faults /\ x.ok = TRUE /\ x \in Link
    BY <2>1 DEF Link
  <2> QED
    BY <2>2 DEF y, e
<1> HIDE DEF x
<1>4. ASSUME NEW m, NEW a \in Nat, Fits(l, m, a)
      PROVE  Fits(x, m, a)
  <2> DEFINE b == Copies(l.buf, m)
             w == Copies(l.wire, m)
  <2>1. b \in Nat /\ w \in Nat /\ b <= a /\ w + b <= a * (1 + l.faults)
    BY <1>1, <1>4, CopiesType DEF Fits
  <2>2. Copies(x.wire, m) = w + b
    <3>1. Copies(l.wire \o l.buf, m) = w + b
      BY <1>1, CopiesConcat
    <3> QED
      BY <1>3, <3>1, Zenon
  <2>3. Copies(x.buf, m) = 0
    BY <1>3, CopiesOfNone
  <2> HIDE DEF b, w
  <2> QED
    BY <1>3, <2>1, <2>2, <2>3 DEF Fits
<1> QED
  BY <1>3, <1>4 DEF x, Everything

\* A flush is one or the other.
LEMMA FlushFacts ==
  ASSUME NEW l \in Link, NEW x \in flush_now(l)
  PROVE  /\ x \in Link
         /\ x.ok => x.buf = <<>> /\ x.wire = Everything(l)
         /\ \A m, a : a \in Nat /\ Fits(l, m, a) => Fits(x, m, a)
<1>1. CASE x = WriteWorks(l)
  BY <1>1, GoodWrite, Zenon
<1>2. CASE x \in WriteBreaks(l)
  BY <1>2, FailedWrite, Zenon
<1> QED
  BY <1>1, <1>2 DEF flush_now

\* One message into the writer: it follows everything before it.
LEMMA PushFacts ==
  ASSUME NEW l \in Link, NEW e \in Message, NEW x \in PushMessage(l, e)
  PROVE  /\ x \in Link
         /\ x.ok => Everything(x) = Append(Everything(l), e)
         /\ \A m, a : a \in Nat /\ Fits(l, m, a)
              => Fits(x, m, a + (IF e = m THEN 1 ELSE 0))
<1> DEFINE s == [l EXCEPT !.buf = Append(@, e), !.ok = TRUE]
<1>1. l.buf \in Seq(Message) /\ l.wire \in Seq(Message) /\ l.faults \in Nat
  BY DEF Link
<1>2. Append(l.buf, e) \in Seq(Message)
  BY <1>1
<1>3. /\ s.wire = l.wire /\ s.buf = Append(l.buf, e) /\ s.faults = l.faults
      /\ s.ok = TRUE /\ s \in Link
  BY <1>2 DEF Link
<1>4. x = s \/ x \in flush_now(s)
  BY DEF PushMessage
<1> HIDE DEF s
<1>5. Everything(s) = Append(Everything(l), e)
  <2>1. l.wire \o Append(l.buf, e) = Append(l.wire \o l.buf, e)
    <3>1. \A u, v \in Seq(Message) : u \o Append(v, e) = Append(u \o v, e)
      BY ConcatAppend, SMTT(30)
    <3> QED
      BY <1>1, <3>1, Zenon
  <2> QED
    BY <1>3, <2>1, Zenon DEF Everything
<1>6. ASSUME NEW m, NEW a \in Nat, Fits(l, m, a)
      PROVE  Fits(s, m, a + (IF e = m THEN 1 ELSE 0))
  <2> DEFINE b == Copies(l.buf, m)
             w == Copies(l.wire, m)
             c == IF e = m THEN 1 ELSE 0
             f == l.faults
  <2>1. b \in Nat /\ w \in Nat /\ f \in Nat /\ c \in Nat
    BY <1>1, CopiesType
  <2>2. b <= a /\ w + b <= a * (1 + f)
    BY <1>6 DEF Fits
  <2>3. Copies(s.buf, m) = b + c
    BY <1>1, <1>3, CopiesOfOne
  <2> HIDE DEF b, w, c, f
  <2>4. a * (1 + f) \in Nat /\ a * (1 + f) + c <= (a + c) * (1 + f)
    BY <2>1, Allowance
  <2> DEFINE y == a * (1 + f)
             z == (a + c) * (1 + f)
  <2>5. z \in Nat
    BY <2>1
  <2>6. b + c <= a + c /\ w + (b + c) <= z
    <3> HIDE DEF y, z
    <3>1. y \in Nat /\ y + c <= z /\ w + b <= y
      BY <2>2, <2>4 DEF y, z
    <3> QED
      BY <2>1, <2>2, <2>5, <3>1
  <2>7. Fits(s, m, a + c)
    BY <1>3, <2>3, <2>6 DEF Fits, f, w
  <2> QED
    BY <2>7 DEF c
<1>7. CASE x = s
  BY <1>3, <1>5, <1>6, <1>7
<1>8. CASE x \in flush_now(s)
  <2>1. /\ x \in Link /\ (x.ok => x.buf = <<>> /\ x.wire = Everything(s))
        /\ \A m, a : a \in Nat /\ Fits(s, m, a) => Fits(x, m, a)
    BY <1>3, <1>8, FlushFacts
  <2>2. ASSUME x.ok PROVE Everything(x) = Append(Everything(l), e)
    <3>1. x.wire \o <<>> = x.wire
      <4>1. x.wire \in Seq(Message)
        BY <2>1 DEF Link
      <4> QED
        BY <4>1
    <3> QED
      BY <1>5, <2>1, <2>2, <3>1, Zenon DEF Everything
  <2>3. ASSUME NEW m, NEW a \in Nat, Fits(l, m, a)
        PROVE  Fits(x, m, a + (IF e = m THEN 1 ELSE 0))
    <3>1. a + (IF e = m THEN 1 ELSE 0) \in Nat
      OBVIOUS
    <3> QED
      BY <1>6, <2>1, <2>3, <3>1
  <2> QED
    BY <2>1, <2>2, <2>3
<1> QED
  BY <1>4, <1>7, <1>8

-----------------------------------------------------------------------------
(* Staging the messages of an action.                                      *)

Pushed(links, e) == UNION {IF l.ok THEN PushMessage(l, e) ELSE {l} : l \in links}

\* Pushing one message into links gives links.
LEMMA PushedLinks ==
  ASSUME NEW links \in SUBSET Link, NEW e \in Message
  PROVE  Pushed(links, e) \in SUBSET Link
<1> SUFFICES ASSUME NEW x \in Pushed(links, e)
             PROVE  x \in Link
  OBVIOUS
<1>1. PICK l \in links : x \in (IF l.ok THEN PushMessage(l, e) ELSE {l})
  BY DEF Pushed
<1>2. l \in Link
  OBVIOUS
<1>3. CASE l.ok
  BY <1>1, <1>2, <1>3, PushFacts
<1>4. CASE ~l.ok
  BY <1>1, <1>2, <1>4
<1> QED
  BY <1>3, <1>4

\* The recursive function Stages, one message after another.
LEMMA StagesSteps ==
  ASSUME NEW l0 \in Link, NEW msgs \in Seq(Message)
  PROVE  /\ Stages(l0, msgs)[0] = {[l0 EXCEPT !.ok = TRUE]}
         /\ \A i \in 1..Len(msgs) :
              Stages(l0, msgs)[i] = Pushed(Stages(l0, msgs)[i - 1], msgs[i])
<1> DEFINE n == Len(msgs)
           T == SUBSET Link
           b == {[l0 EXCEPT !.ok = TRUE]}
           Body(g) == [i \in 0..n |-> IF i = 0 THEN b ELSE Pushed(g[i - 1], msgs[i])]
           step == [i \in 1..n |-> [t \in T |-> Pushed(t, msgs[i])]]
           f == Stages(l0, msgs)
<1>1. n \in Nat /\ \A i \in 1..n : msgs[i] \in Message
  OBVIOUS
<1>2. b \in T
  BY DEF Link
<1>3. step \in [1..n -> [T -> T]]
  <2>1. \A i \in 1..n : [t \in T |-> Pushed(t, msgs[i])] \in [T -> T]
    BY <1>1, PushedLinks
  <2> QED
    BY <2>1
<1>4. PICK g \in [0..n -> T] : Steps(g, b, n, step)
  <2> HIDE DEF step, n, T, b
  <2> QED
    BY <1>1, <1>2, <1>3, StepsExist
<1>5. g = Body(g)
  <2>1. \A i \in 0..n : g[i] = Body(g)[i]
    <3> SUFFICES ASSUME NEW i \in 0..n
                 PROVE  g[i] = Body(g)[i]
      OBVIOUS
    <3>1. CASE i = 0
      BY <1>4, <3>1 DEF Steps
    <3>2. CASE i # 0
      <4>1. i \in 1..n /\ i - 1 \in 0..n
        BY <3>2
      <4>2. g[i] = step[i][g[i - 1]]
        BY <1>4, <4>1 DEF Steps
      <4>3. step[i][g[i - 1]] = Pushed(g[i - 1], msgs[i])
        BY <4>1
      <4> QED
        BY <3>2, <4>2, <4>3
    <3> QED
      BY <3>1, <3>2
  <2>2. DOMAIN g = 0..n /\ Body(g) = [i \in 0..n |-> Body(g)[i]]
    OBVIOUS
  <2> HIDE DEF Body
  <2> QED
    BY <2>1, <2>2
<1>6. f = Body(f)
  BY <1>5 DEF Stages, Pushed
<1> HIDE DEF f
<1>7. f[0] = b
  <2>1. Body(f)[0] = b
    OBVIOUS
  <2> HIDE DEF Body
  <2> QED
    BY <1>6, <2>1
<1>8. \A i \in 1..n : f[i] = Pushed(f[i - 1], msgs[i])
  <2> SUFFICES ASSUME NEW i \in 1..n
               PROVE  f[i] = Pushed(f[i - 1], msgs[i])
    OBVIOUS
  <2>1. Body(f)[i] = Pushed(f[i - 1], msgs[i])
    OBVIOUS
  <2> HIDE DEF Body
  <2> QED
    BY <1>6, <2>1
<1> QED
  BY <1>7, <1>8 DEF f

\* What holds of a link on which the first messages of msgs were staged.
Staged(l, l0, msgs, i) ==
  /\ l \in Link
  /\ l.ok => Everything(l) = Everything(l0) \o SubSeq(msgs, 1, i)
  /\ \A m, a : a \in Nat /\ Fits(l0, m, a) => Fits(l, m, a + Copies(SubSeq(msgs, 1, i), m))

\* One message more: what is staged is a prefix of the messages.
LEMMA StagedStep ==
  ASSUME NEW l0 \in Link, NEW msgs \in Seq(Message), NEW i \in 1..Len(msgs), NEW l,
         Staged(l, l0, msgs, i - 1),
         NEW x \in (IF l.ok THEN PushMessage(l, msgs[i]) ELSE {l})
  PROVE  Staged(x, l0, msgs, i)
<1> DEFINE p == SubSeq(msgs, 1, i - 1)
           q == SubSeq(msgs, 1, i)
           e == msgs[i]
<1>1. p \in Seq(Message) /\ e \in Message /\ q = Append(p, e) /\ q \in Seq(Message)
  <2>1. p \in Seq(Message) /\ e \in Message /\ q = Append(p, e)
    BY LongerPrefix
  <2> HIDE DEF p, q, e
  <2> QED
    BY <2>1
<1>2. /\ l \in Link
      /\ l.ok => Everything(l) = Everything(l0) \o p
      /\ \A m, a : a \in Nat /\ Fits(l0, m, a) => Fits(l, m, a + Copies(p, m))
  BY DEF Staged
<1> HIDE DEF p, q, e
<1>3. Everything(l0) \in Seq(Message)
  BY DEF Everything, Link
<1>4. \A m : /\ Copies(p, m) \in Nat
             /\ Copies(q, m) = Copies(p, m) + (IF e = m THEN 1 ELSE 0)
  BY <1>1, CopiesType, CopiesOfOne
<1>5. CASE l.ok
  <2>1. x \in PushMessage(l, e)
    BY <1>5 DEF e
  <2>2. /\ x \in Link
        /\ x.ok => Everything(x) = Append(Everything(l), e)
        /\ \A m, a : a \in Nat /\ Fits(l, m, a)
             => Fits(x, m, a + (IF e = m THEN 1 ELSE 0))
    BY <1>1, <1>2, <2>1, PushFacts
  <2>3. Append(Everything(l0) \o p, e) = Everything(l0) \o q
    <3>1. \A u, v \in Seq(Message) : u \o Append(v, e) = Append(u \o v, e)
      BY <1>1, ConcatAppend, SMTT(30)
    <3> QED
      BY <1>1, <1>3, <3>1, Zenon
  <2>4. x.ok => Everything(x) = Everything(l0) \o q
    BY <1>2, <1>5, <2>2, <2>3, Zenon
  <2>5. ASSUME NEW m, NEW a \in Nat, Fits(l0, m, a)
        PROVE  Fits(x, m, a + Copies(q, m))
    <3> DEFINE c == Copies(p, m)
               d == IF e = m THEN 1 ELSE 0
    <3>1. c \in Nat /\ d \in Nat /\ Copies(q, m) = c + d
      BY <1>4
    <3>2. Fits(l, m, a + c)
      BY <1>2, <2>5
    <3>3. Fits(x, m, (a + c) + d)
      <4>1. a + c \in Nat
        BY <3>1
      <4> QED
        BY <2>2, <3>2, <4>1
    <3> HIDE DEF c, d
    <3>4. (a + c) + d = a + Copies(q, m)
      BY <3>1
    <3> QED
      BY <3>3, <3>4
  <2> QED
    BY <2>2, <2>4, <2>5 DEF Staged, q
<1>6. CASE ~l.ok
  <2>1. x = l /\ ~x.ok
    BY <1>6
  <2>2. ASSUME NEW m, NEW a \in Nat, Fits(l0, m, a)
        PROVE  Fits(x, m, a + Copies(q, m))
    <3> DEFINE c == Copies(p, m)
               d == IF e = m THEN 1 ELSE 0
    <3>1. c \in Nat /\ d \in Nat /\ Copies(q, m) = c + d
      BY <1>4
    <3>2. Fits(l, m, a + c)
      BY <1>2, <2>2
    <3> HIDE DEF c, d
    <3>3. a + c \in Nat
      BY <3>1
    <3>4. Fits(l, m, (a + c) + d)
      BY <1>2, <3>1, <3>2, <3>3, FitsMore
    <3>5. (a + c) + d = a + Copies(q, m)
      BY <3>1
    <3> QED
      BY <2>1, <3>4, <3>5
  <2> QED
    BY <1>2, <2>1, <2>2 DEF Staged, q
<1> QED
  BY <1>5, <1>6

\* A helper that ends well has sent or staged all of its messages, in order.
LEMMA StageFacts ==
  ASSUME NEW l0 \in Link, NEW msgs \in Seq(Message), NEW l \in Stage(l0, msgs)
  PROVE  /\ l \in Link
         /\ l.ok => Everything(l) = Everything(l0) \o msgs
         /\ \A m, a : a \in Nat /\ Fits(l0, m, a) => Fits(l, m, a + Copies(msgs, m))
<1> DEFINE f == Stages(l0, msgs)
           n == Len(msgs)
           S == {i \in Nat : i <= n => \A x \in f[i] : Staged(x, l0, msgs, i)}
<1>1. /\ n \in Nat /\ f[0] = {[l0 EXCEPT !.ok = TRUE]}
      /\ \A i \in 1..n : f[i] = Pushed(f[i - 1], msgs[i])
  BY StagesSteps
<1> HIDE DEF f, n
<1>2. 0 \in S
  <2> DEFINE x == [l0 EXCEPT !.ok = TRUE]
  <2>1. /\ x \in Link /\ x.buf = l0.buf /\ x.wire = l0.wire /\ x.faults = l0.faults
    BY DEF Link
  <2> HIDE DEF x
  <2>2. SubSeq(msgs, 1, 0) = <<>>
    BY SubSeqEmpty
  <2>3. Everything(l0) \o <<>> = Everything(l0)
    <3>1. Everything(l0) \in Seq(Message)
      BY DEF Everything, Link
    <3> QED
      BY <3>1, ConcatEmpty
  <2>4. Everything(x) = Everything(l0) \o SubSeq(msgs, 1, 0)
    BY <2>1, <2>2, <2>3, Zenon DEF Everything
  <2>5. ASSUME NEW m, NEW a \in Nat, Fits(l0, m, a)
        PROVE  Fits(x, m, a + Copies(SubSeq(msgs, 1, 0), m))
    <3>1. Copies(SubSeq(msgs, 1, 0), m) = 0
      BY <2>2, CopiesOfNone
    <3>2. Fits(x, m, a)
      BY <2>1, <2>5 DEF Fits
    <3>3. a + 0 = a
      OBVIOUS
    <3> QED
      BY <3>1, <3>2, <3>3
  <2>6. Staged(x, l0, msgs, 0)
    BY <2>1, <2>4, <2>5 DEF Staged
  <2> QED
    BY <1>1, <2>6 DEF x
<1>3. ASSUME NEW i \in Nat, i \in S
      PROVE  i + 1 \in S
  <2> SUFFICES ASSUME i + 1 <= n, NEW x \in f[i + 1]
               PROVE  Staged(x, l0, msgs, i + 1)
    OBVIOUS
  <2> DEFINE j == i + 1
  <2>1. j \in 1..Len(msgs) /\ j - 1 = i /\ i <= n
    BY <1>1 DEF n
  <2>2. x \in Pushed(f[j - 1], msgs[j])
    BY <1>1, <2>1 DEF n
  <2>3. PICK y \in f[j - 1] : x \in (IF y.ok THEN PushMessage(y, msgs[j]) ELSE {y})
    BY <2>2 DEF Pushed
  <2>4. Staged(y, l0, msgs, j - 1)
    BY <1>3, <2>1, <2>3
  <2> HIDE DEF j
  <2>5. Staged(x, l0, msgs, j)
    BY <2>1, <2>3, <2>4, StagedStep
  <2> QED
    BY <2>5 DEF j
<1>4. Nat \subseteq S
  <2> HIDE DEF S
  <2> QED
    BY <1>2, <1>3, NatSetInduction
<1>5. Staged(l, l0, msgs, n)
  <2>1. l \in f[n]
    BY DEF Stage, f, n
  <2> QED
    BY <1>1, <1>4, <2>1
<1>6. SubSeq(msgs, 1, n) = msgs
  BY SubSeqFull DEF n
<1> QED
  BY <1>5, <1>6, Zenon DEF Staged

-----------------------------------------------------------------------------
(* One action, and many.                                                   *)

\* In a sequence without repetition a message has at most one copy.
LEMMA CopiesOnce ==
  ASSUME NEW m, NEW s \in Seq(Message), \A i, j \in 1..Len(s) : s[i] = s[j] => i = j
  PROVE  /\ Copies(s, m) <= 1
         /\ (\A i \in 1..Len(s) : s[i] # m) => Copies(s, m) = 0
<1> DEFINE Different(u) == \A i, j \in 1..Len(u) : u[i] = u[j] => i = j
           Without(u) == \A i \in 1..Len(u) : u[i] # m
           P == {u \in Seq(Message) : Different(u) => Copies(u, m) <= 1}
<1>1. ASSUME NEW u \in Seq(Message), Without(u)
      PROVE  Copies(u, m) = 0
  <2>1. \A i \in 1..Len(u) : u[i] \notin {m}
    BY <1>1
  <2>2. Only(u, {m}) = <<>>
    BY <2>1, OnlyKeeps
  <2> QED
    BY <2>2 DEF Copies
<1>2. <<>> \in P
  BY CopiesOfNone
<1>3. ASSUME NEW u \in Seq(Message), NEW e \in Message, u \in P
      PROVE  Append(u, e) \in P
  <2> DEFINE v == Append(u, e)
  <2>1. /\ v \in Seq(Message) /\ Len(u) \in Nat /\ Len(v) = Len(u) + 1
        /\ v[Len(u) + 1] = e /\ \A i \in 1..Len(u) : v[i] = u[i]
    OBVIOUS
  <2>2. Copies(v, m) = Copies(u, m) + (IF e = m THEN 1 ELSE 0) /\ Copies(u, m) \in Nat
    BY CopiesOfOne, CopiesType
  <2> HIDE DEF v
  <2>3. ASSUME Different(v)
        PROVE  Copies(v, m) <= 1
    <3>1. \A i \in 1..Len(u) : i \in 1..Len(v) /\ Len(u) + 1 \in 1..Len(v) /\ i # Len(u) + 1
      BY <2>1
    <3>2. Different(u) /\ \A i \in 1..Len(u) : u[i] # e
      BY <2>1, <2>3, <3>1
    <3>3. CASE e = m
      <4>1. Copies(u, m) = 0
        BY <1>1, <3>2, <3>3
      <4> QED
        BY <2>2, <3>3, <4>1
    <3>4. CASE e # m
      BY <1>3, <2>2, <3>2, <3>4
    <3> QED
      BY <3>3, <3>4
  <2> QED
    BY <2>1, <2>3 DEF v
<1>4. Seq(Message) \subseteq P
  <2> HIDE DEF P
  <2> QED
    BY <1>2, <1>3, SeqSetInduction
<1> QED
  BY <1>1, <1>4

Uses(action, m) == IF m.name = action.name THEN 1 ELSE 0

\* The messages of an action are distinct and bear its name.
LEMMA MsgsFacts ==
  ASSUME NEW action \in Action
  PROVE  /\ Msgs(action) \in Seq(Message)
         /\ \A m : Uses(action, m) \in Nat /\ Copies(Msgs(action), m) <= Uses(action, m)
<1> DEFINE s == Msgs(action)
           n == action.parts
<1>1. n \in Nat /\ action.name \in STRING
  BY DEF Action
<1>2. /\ s \in Seq(Message) /\ Len(s) = n
      /\ \A i \in 1..n : s[i] = [name |-> action.name, part |-> i]
  <2>1. s = [i \in 1..n |-> [name |-> action.name, part |-> i]]
    BY DEF Msgs
  <2>2. \A i \in 1..n : [name |-> action.name, part |-> i] \in Message
    BY <1>1 DEF Message
  <2> HIDE DEF s, n
  <2> QED
    BY <1>1, <2>1, <2>2
<1> HIDE DEF s, n
<1>3. \A i, j \in 1..Len(s) : s[i] = s[j] => i = j
  BY <1>2
<1>4. ASSUME NEW m
      PROVE  Uses(action, m) \in Nat /\ Copies(s, m) <= Uses(action, m)
  <2>1. Copies(s, m) <= 1 /\ ((\A i \in 1..Len(s) : s[i] # m) => Copies(s, m) = 0)
    BY <1>2, <1>3, CopiesOnce
  <2>2. CASE m.name = action.name
    BY <2>1, <2>2 DEF Uses
  <2>3. CASE m.name # action.name
    <3>1. \A i \in 1..Len(s) : s[i].name = action.name
      BY <1>2
    <3>2. \A i \in 1..Len(s) : s[i] # m
      BY <2>3, <3>1
    <3> QED
      BY <2>1, <2>3, <3>2 DEF Uses
  <2> QED
    BY <2>2, <2>3
<1> QED
  BY <1>2, <1>4 DEF s

\* What an apply of action does to link l0.
Applied(r, l0, action, depth) ==
  /\ r.link \in Link /\ r.outcome \in Outcomes
  /\ r.outcome.landed =>
       /\ Everything(r.link) = Everything(l0) \o Msgs(action)
       /\ depth = 0 => r.link.buf = <<>>
  /\ \A m, a : a \in Nat /\ Fits(l0, m, a) => Fits(r.link, m, a + Uses(action, m))

\* What a landed and a rejected outcome look like.
LEMMA OutcomeFacts ==
  /\ Landed \in Outcomes /\ Landed.landed = TRUE
  /\ \A c \in Codes : Rejected(c) \in Outcomes /\ Rejected(c).landed = FALSE
  /\ {"NotImplemented", "PermissionDenied", "KernelError"} \subseteq Codes
<1>1. ASSUME NEW c \in Codes, NEW b \in BOOLEAN
      PROVE  [landed |-> b, code |-> c] \in Outcomes /\ [landed |-> b, code |-> c].landed = b
  BY DEF Outcomes
<1> QED
  BY <1>1 DEF Landed, Rejected, Codes

\* The outcome says whether the link is well.
LEMMA SettleFacts ==
  ASSUME NEW l \in Link
  PROVE  /\ Settle(l).link = l /\ Settle(l).outcome \in Outcomes
         /\ Settle(l).outcome.landed <=> l.ok
<1> DEFINE o == IF l.ok THEN Landed ELSE Rejected("KernelError")
<1>1. Settle(l).link = l /\ Settle(l).outcome = o
  BY DEF Settle
<1>2. o \in Outcomes /\ (o.landed <=> l.ok)
  <2>1. CASE l.ok
    BY <2>1, OutcomeFacts
  <2>2. CASE ~l.ok
    BY <2>2, OutcomeFacts
  <2> QED
    BY <2>1, <2>2
<1> QED
  BY <1>1, <1>2, Zenon

\* apply: Applied holds of every link and outcome it may give.
LEMMA ApplyFacts ==
  ASSUME NEW l0 \in Link, NEW action \in Action, NEW depth,
         NEW r \in apply(l0, action, depth)
  PROVE  Applied(r, l0, action, depth)
<1> DEFINE s == Msgs(action)
<1>1. /\ s \in Seq(Message)
      /\ \A m : /\ Uses(action, m) \in Nat /\ Copies(s, m) \in Nat
               /\ Copies(s, m) <= Uses(action, m)
  BY MsgsFacts, CopiesType
<1> HIDE DEF s
<1>2. ASSUME NEW l \in Stage(l0, s)
      PROVE  /\ l \in Link /\ (l.ok => Everything(l) = Everything(l0) \o s)
             /\ \A m, a : a \in Nat /\ Fits(l0, m, a) => Fits(l, m, a + Uses(action, m))
  <2>1. /\ l \in Link /\ (l.ok => Everything(l) = Everything(l0) \o s)
        /\ \A m, a : a \in Nat /\ Fits(l0, m, a) => Fits(l, m, a + Copies(s, m))
    BY <1>1, StageFacts
  <2>2. ASSUME NEW m, NEW a \in Nat, Fits(l0, m, a)
        PROVE  Fits(l, m, a + Uses(action, m))
    <3> DEFINE c == Copies(s, m)
               u == Uses(action, m)
    <3>1. Fits(l, m, a + c) /\ c \in Nat /\ u \in Nat /\ c <= u
      BY <1>1, <2>1, <2>2
    <3> HIDE DEF c, u
    <3>2. a + c \in Nat /\ u - c \in Nat /\ (a + c) + (u - c) = a + u
      BY <3>1
    <3>3. Fits(l, m, (a + c) + (u - c))
      BY <2>1, <3>1, <3>2, FitsMore
    <3> QED
      BY <3>2, <3>3 DEF u
  <2> QED
    BY <2>1, <2>2
<1>3. CASE action.bad = "early"
  <2>1. PICK code \in {"NotImplemented", "PermissionDenied"} :
          r = [link |-> l0, outcome |-> Rejected(code)]
    BY <1>3 DEF apply
  <2>2. r.link = l0 /\ r.outcome \in Outcomes /\ ~r.outcome.landed
    BY <2>1, OutcomeFacts
  <2>3. \A m, a : a \in Nat /\ Fits(l0, m, a) => Fits(l0, m, a + Uses(action, m))
    BY <1>1, FitsMore
  <2> QED
    BY <2>2, <2>3 DEF Applied
<1>4. CASE action.bad = "char"
  <2>1. PICK l \in Stage(l0, s) :
          r = IF l.ok THEN [link |-> l, outcome |-> Rejected("PermissionDenied")]
              ELSE Settle(l)
    BY <1>4 DEF apply, s
  <2>2. l \in Link
    BY <1>2
  <2>3. r.link = l /\ r.outcome \in Outcomes /\ ~r.outcome.landed
    <3>1. CASE l.ok
      BY <2>1, <3>1, OutcomeFacts
    <3>2. CASE ~l.ok
      BY <2>1, <2>2, <3>2, SettleFacts
    <3> QED
      BY <3>1, <3>2
  <2> QED
    BY <1>2, <2>2, <2>3 DEF Applied
<1>5. CASE action.bad # "early" /\ action.bad # "char"
  <2>1. PICK l \in Stage(l0, s) :
          r \in IF l.ok THEN {Settle(f) : f \in maybe_flush(l, depth)} ELSE {Settle(l)}
    BY <1>5 DEF apply, s
  <2>2. /\ l \in Link /\ (l.ok => Everything(l) = Everything(l0) \o s)
        /\ \A m, a : a \in Nat /\ Fits(l0, m, a) => Fits(l, m, a + Uses(action, m))
    BY <1>2
  <2>3. CASE ~l.ok
    <3>1. r = Settle(l)
      BY <2>1, <2>3
    <3>2. r.link = l /\ r.outcome \in Outcomes /\ ~r.outcome.landed
      BY <2>2, <2>3, <3>1, SettleFacts
    <3> QED
      BY <2>2, <3>2 DEF Applied
  <2>4. CASE l.ok
    <3>1. PICK x \in maybe_flush(l, depth) : r = Settle(x)
      BY <2>1, <2>4
    <3>2. CASE depth = 0
      <4>1. x \in flush_now(l)
        BY <3>1, <3>2 DEF maybe_flush
      <4>2. /\ x \in Link /\ (x.ok => x.buf = <<>> /\ x.wire = Everything(l))
            /\ \A m, a : a \in Nat /\ Fits(l, m, a) => Fits(x, m, a)
        BY <2>2, <4>1, FlushFacts
      <4>3. r.link = x /\ r.outcome \in Outcomes /\ (r.outcome.landed <=> x.ok)
        BY <3>1, <4>2, SettleFacts
      <4>4. ASSUME x.ok PROVE Everything(x) = Everything(l0) \o s /\ x.buf = <<>>
        <5>1. x.wire \o <<>> = x.wire
          <6>1. x.wire \in Seq(Message)
            BY <4>2 DEF Link
          <6> QED
            BY <6>1, ConcatEmpty
        <5> QED
          BY <2>2, <2>4, <4>2, <4>4, <5>1, Zenon DEF Everything
      <4>5. ASSUME NEW m, NEW a \in Nat, Fits(l0, m, a)
            PROVE  Fits(x, m, a + Uses(action, m))
        <5>1. a + Uses(action, m) \in Nat
          BY <1>1
        <5> QED
          BY <2>2, <4>2, <4>5, <5>1
      <4> QED
        BY <4>2, <4>3, <4>4, <4>5 DEF Applied, s
    <3>3. CASE depth # 0
      <4>1. x = l
        BY <3>1, <3>3 DEF maybe_flush
      <4>2. r.link = l /\ r.outcome \in Outcomes
        BY <2>2, <3>1, <4>1, SettleFacts
      <4> QED
        BY <2>2, <2>4, <3>3, <4>2 DEF Applied, s
    <3> QED
      BY <3>2, <3>3
  <2> QED
    BY <2>3, <2>4
<1> QED
  BY <1>3, <1>4, <1>5

Runs == [link : Link, outcomes : Seq(Outcomes)]

\* The messages of one action more follow those of the others.
LEMMA ActionMsgsFacts ==
  ASSUME NEW acts \in Seq(Action), NEW b \in Action
  PROVE  /\ ActionMsgs(acts) \in Seq(Message)
         /\ ActionMsgs(Append(acts, b)) = ActionMsgs(acts) \o Msgs(b)
<1> DEFINE n == Len(acts)
           q == [i \in DOMAIN acts |-> Msgs(acts[i])]
           cs == Append(acts, b)
           r == [i \in DOMAIN cs |-> Msgs(cs[i])]
           e == Msgs(b)
<1>1. n \in Nat /\ DOMAIN acts = 1..n /\ \A i \in 1..n : acts[i] \in Action
  OBVIOUS
<1>2. /\ cs \in Seq(Action) /\ DOMAIN cs = 1..(n + 1) /\ cs[n + 1] = b
      /\ \A i \in 1..n : cs[i] = acts[i]
  OBVIOUS
<1>3. e \in Seq(Message) /\ \A i \in 1..n : Msgs(acts[i]) \in Seq(Message)
  BY <1>1, MsgsFacts
<1>4. q \in Seq(Seq(Message)) /\ Len(q) = n /\ \A i \in 1..n : q[i] = Msgs(acts[i])
  <2>1. q = [i \in 1..n |-> Msgs(acts[i])]
    BY <1>1
  <2> HIDE DEF n, q
  <2>2. q \in Seq(Seq(Message)) /\ Len(q) = n
    BY <1>1, <1>3, <2>1
  <2> QED
    BY <2>1, <2>2
<1> HIDE DEF n, q, cs, e
<1>5. r = [i \in 1..(n + 1) |-> IF i = n + 1 THEN e ELSE Msgs(acts[i])]
  <2>1. r = [i \in 1..(n + 1) |-> Msgs(cs[i])]
    BY <1>2
  <2>2. \A i \in 1..(n + 1) : i = n + 1 \/ i \in 1..n
    BY <1>1
  <2>3. \A i \in 1..(n + 1) : Msgs(cs[i]) = IF i = n + 1 THEN e ELSE Msgs(acts[i])
    BY <1>2, <2>2 DEF e
  <2> HIDE DEF r
  <2> QED
    BY <2>1, <2>3
<1>6. r = Append(q, e)
  <2> DEFINE v == Append(q, e)
  <2>1. /\ v \in Seq(Seq(Message)) /\ Len(v) = n + 1 /\ v[n + 1] = e
        /\ \A i \in 1..n : v[i] = q[i]
    BY <1>3, <1>4
  <2>2. v = [i \in 1..(n + 1) |-> v[i]]
    <3> HIDE DEF v
    <3> QED
      BY <2>1
  <2> HIDE DEF v, r
  <2>3. \A i \in 1..(n + 1) : v[i] = IF i = n + 1 THEN e ELSE Msgs(acts[i])
    <3>1. \A i \in 1..(n + 1) : i = n + 1 \/ i \in 1..n
      BY <1>1
    <3> QED
      BY <1>4, <2>1, <3>1
  <2>4. r = v
    BY <1>5, <2>2, <2>3
  <2> QED
    BY <2>4 DEF v
<1> HIDE DEF r
<1>7. FlattenSeq(Append(q, e)) = FlattenSeq(q) \o e /\ FlattenSeq(q) \in Seq(Message)
  BY <1>3, <1>4, FlattenAppend, FlattenType
<1>8. ActionMsgs(acts) = FlattenSeq(q) /\ ActionMsgs(cs) = FlattenSeq(r)
  BY DEF ActionMsgs, q, r
<1>9. ActionMsgs(acts) \in Seq(Message) /\ ActionMsgs(cs) = ActionMsgs(acts) \o e
  BY <1>6, <1>7, <1>8, Zenon
<1> QED
  BY <1>9 DEF cs, e

\* No actions, no messages.
LEMMA NoActionMsgs == ActionMsgs(<<>>) = <<>>
<1>1. [i \in DOMAIN <<>> |-> Msgs(<<>>[i])] = <<>>
  OBVIOUS
<1> QED
  BY <1>1, FlattenEmpty, Zenon DEF ActionMsgs

\* The messages of actions are messages.
LEMMA ActionMsgsType ==
  ASSUME NEW acts \in Seq(Action)
  PROVE  ActionMsgs(acts) \in Seq(Message)
<1>1. CASE acts = <<>>
  <2>1. <<>> \in Seq(Message)
    OBVIOUS
  <2> QED
    BY <1>1, <2>1, NoActionMsgs
<1>2. CASE acts # <<>>
  <2>1. acts[1] \in Action
    BY <1>2
  <2> QED
    BY <2>1, ActionMsgsFacts
<1> QED
  BY <1>1, <1>2

\* One action more of a batch gives runs.
LEMMA ApplyNextRuns ==
  ASSUME NEW rs \in SUBSET Runs, NEW b \in Action
  PROVE  ApplyNext(rs, b) \in SUBSET Runs
<1> SUFFICES ASSUME NEW x \in ApplyNext(rs, b)
             PROVE  x \in Runs
  OBVIOUS
<1>1. PICK r \in rs :
        x \in IF Failed(r.outcomes) THEN {r}
              ELSE {[link |-> c.link, outcomes |-> Append(r.outcomes, c.outcome)] :
                      c \in apply(r.link, b, 1)}
  BY DEF ApplyNext
<1>2. r \in Runs /\ r.link \in Link /\ r.outcomes \in Seq(Outcomes)
  BY DEF Runs
<1>3. CASE Failed(r.outcomes)
  BY <1>1, <1>2, <1>3
<1>4. CASE ~Failed(r.outcomes)
  <2>1. PICK c \in apply(r.link, b, 1) :
          x = [link |-> c.link, outcomes |-> Append(r.outcomes, c.outcome)]
    BY <1>1, <1>4
  <2>2. c.link \in Link /\ c.outcome \in Outcomes
    BY <1>2, ApplyFacts DEF Applied
  <2>3. Append(r.outcomes, c.outcome) \in Seq(Outcomes)
    BY <1>2, <2>2
  <2> QED
    BY <2>1, <2>2, <2>3 DEF Runs
<1> QED
  BY <1>3, <1>4

\* The recursive function ApplyRuns, one action after another.
LEMMA ApplyRunsSteps ==
  ASSUME NEW l0 \in Link, NEW acts \in Seq(Action)
  PROVE  /\ ApplyRuns(l0, acts)[0] = {[link |-> l0, outcomes |-> <<>>]}
         /\ \A i \in 1..Len(acts) :
              ApplyRuns(l0, acts)[i] = ApplyNext(ApplyRuns(l0, acts)[i - 1], acts[i])
<1> DEFINE n == Len(acts)
           T == SUBSET Runs
           b == {[link |-> l0, outcomes |-> <<>>]}
           Body(g) == [i \in 0..n |-> IF i = 0 THEN b ELSE ApplyNext(g[i - 1], acts[i])]
           step == [i \in 1..n |-> [t \in T |-> ApplyNext(t, acts[i])]]
           f == ApplyRuns(l0, acts)
<1>1. n \in Nat /\ \A i \in 1..n : acts[i] \in Action
  OBVIOUS
<1>2. b \in T
  <2>1. <<>> \in Seq(Outcomes)
    OBVIOUS
  <2> QED
    BY <2>1 DEF Runs
<1>3. step \in [1..n -> [T -> T]]
  <2>1. \A i \in 1..n : [t \in T |-> ApplyNext(t, acts[i])] \in [T -> T]
    BY <1>1, ApplyNextRuns
  <2> QED
    BY <2>1
<1>4. PICK g \in [0..n -> T] : Steps(g, b, n, step)
  <2> HIDE DEF step, n, T, b
  <2> QED
    BY <1>1, <1>2, <1>3, StepsExist
<1>5. g = Body(g)
  <2>1. \A i \in 0..n : g[i] = Body(g)[i]
    <3> SUFFICES ASSUME NEW i \in 0..n
                 PROVE  g[i] = Body(g)[i]
      OBVIOUS
    <3>1. CASE i = 0
      BY <1>4, <3>1 DEF Steps
    <3>2. CASE i # 0
      <4>1. i \in 1..n /\ i - 1 \in 0..n
        BY <3>2
      <4>2. g[i] = step[i][g[i - 1]]
        BY <1>4, <4>1 DEF Steps
      <4>3. step[i][g[i - 1]] = ApplyNext(g[i - 1], acts[i])
        BY <4>1
      <4> QED
        BY <3>2, <4>2, <4>3
    <3> QED
      BY <3>1, <3>2
  <2>2. DOMAIN g = 0..n /\ Body(g) = [i \in 0..n |-> Body(g)[i]]
    OBVIOUS
  <2> HIDE DEF Body
  <2> QED
    BY <2>1, <2>2
<1>6. f = Body(f)
  BY <1>5 DEF ApplyRuns
<1> HIDE DEF f
<1>7. f[0] = b
  <2>1. Body(f)[0] = b
    OBVIOUS
  <2> HIDE DEF Body
  <2> QED
    BY <1>6, <2>1
<1>8. \A i \in 1..n : f[i] = ApplyNext(f[i - 1], acts[i])
  <2> SUFFICES ASSUME NEW i \in 1..n
               PROVE  f[i] = ApplyNext(f[i - 1], acts[i])
    OBVIOUS
  <2>1. Body(f)[i] = ApplyNext(f[i - 1], acts[i])
    OBVIOUS
  <2> HIDE DEF Body
  <2> QED
    BY <1>6, <2>1
<1> QED
  BY <1>7, <1>8 DEF f

\* How many of the actions have the name of m.
Applies(acts, m) == Len(Only(acts, {b \in Action : b.name = m.name}))

\* The applies of one action more.
LEMMA AppliesFacts ==
  ASSUME NEW acts \in Seq(Action), NEW b \in Action, NEW m
  PROVE  /\ Applies(<<>>, m) = 0 /\ Applies(acts, m) \in Nat
         /\ Applies(Append(acts, b), m) = Applies(acts, m) + Uses(b, m)
<1> DEFINE S == {c \in Action : c.name = m.name}
<1>1. b \in S <=> b.name = m.name
  OBVIOUS
<1> HIDE DEF S
<1>2. Only(<<>>, S) = <<>>
  BY OnlyEmpty
<1>3. Only(acts, S) \in Seq(Action)
  BY OnlyType
<1>4. Only(Append(acts, b), S) = IF b \in S THEN Append(Only(acts, S), b) ELSE Only(acts, S)
  BY OnlyAppend
<1>5. Len(Append(Only(acts, S), b)) = Len(Only(acts, S)) + 1 /\ Len(Only(acts, S)) \in Nat
  BY <1>3
<1>6. Len(Only(Append(acts, b), S)) = Len(Only(acts, S)) + Uses(b, m)
  <2>1. CASE b \in S
    <3>1. Uses(b, m) = 1
      BY <1>1, <2>1 DEF Uses
    <3>2. Only(Append(acts, b), S) = Append(Only(acts, S), b)
      BY <1>4, <2>1
    <3> QED
      BY <1>5, <3>1, <3>2
  <2>2. CASE b \notin S
    <3>1. Uses(b, m) = 0
      BY <1>1, <2>2 DEF Uses
    <3>2. Only(Append(acts, b), S) = Only(acts, S)
      BY <1>4, <2>2
    <3> QED
      BY <1>5, <3>1, <3>2
  <2> QED
    BY <2>1, <2>2
<1> QED
  BY <1>2, <1>5, <1>6 DEF Applies, S

\* A run of apply_many after i actions.
Went(r, l0, acts, i) ==
  /\ r.link \in Link /\ r.outcomes \in Seq(Outcomes) /\ Len(r.outcomes) <= i
  /\ ~Failed(r.outcomes) =>
       /\ Len(r.outcomes) = i
       /\ Everything(r.link) = Everything(l0) \o ActionMsgs(SubSeq(acts, 1, i))
  /\ \A m, a : a \in Nat /\ Fits(l0, m, a)
       => Fits(r.link, m, a + Applies(SubSeq(acts, 1, Len(r.outcomes)), m))

\* One outcome more fails if it or one before it does.
LEMMA FailedFacts ==
  ASSUME NEW os \in Seq(Outcomes), NEW o \in Outcomes
  PROVE  /\ Len(Append(os, o)) = Len(os) + 1 /\ Append(os, o) \in Seq(Outcomes)
         /\ Failed(Append(os, o)) <=> Failed(os) \/ ~o.landed
         /\ ~Failed(<<>>)
<1> DEFINE v == Append(os, o)
           n == Len(os)
<1>1. /\ n \in Nat /\ DOMAIN os = 1..n /\ v \in Seq(Outcomes) /\ Len(v) = n + 1
      /\ DOMAIN v = 1..(n + 1) /\ v[n + 1] = o /\ \A i \in 1..n : v[i] = os[i]
  OBVIOUS
<1>2. n + 1 \in 1..(n + 1) /\ \A i \in 1..(n + 1) : i \in 1..n \/ i = n + 1
  BY <1>1
<1>3. \A i \in 1..n : i \in 1..(n + 1)
  BY <1>1
<1> HIDE DEF v, n
<1>4. Failed(v) <=> Failed(os) \/ ~o.landed
  BY <1>1, <1>2, <1>3, Zenon DEF Failed
<1>5. ~Failed(<<>>)
  <2>1. DOMAIN <<>> = {}
    OBVIOUS
  <2> QED
    BY <2>1, Zenon DEF Failed
<1> QED
  BY <1>1, <1>4, <1>5 DEF v, n

\* One action more keeps what Went says of a batch.
LEMMA WentStep ==
  ASSUME NEW l0 \in Link, NEW acts \in Seq(Action), NEW i \in 1..Len(acts), NEW r,
         Went(r, l0, acts, i - 1),
         NEW x \in (IF Failed(r.outcomes) THEN {r}
                   ELSE {[link |-> c.link, outcomes |-> Append(r.outcomes, c.outcome)] :
                           c \in apply(r.link, acts[i], 1)})
  PROVE  Went(x, l0, acts, i)
<1> DEFINE p == SubSeq(acts, 1, i - 1)
           q == SubSeq(acts, 1, i)
           b == acts[i]
           os == r.outcomes
<1>1. p \in Seq(Action) /\ b \in Action /\ q = Append(p, b)
  BY LongerPrefix
<1>2. /\ r.link \in Link /\ os \in Seq(Outcomes) /\ Len(os) <= i - 1
      /\ ~Failed(os) => Len(os) = i - 1 /\ Everything(r.link) = Everything(l0) \o ActionMsgs(p)
      /\ \A m, a : a \in Nat /\ Fits(l0, m, a)
           => Fits(r.link, m, a + Applies(SubSeq(acts, 1, Len(os)), m))
  BY DEF Went
<1>3. i \in Nat /\ Len(os) \in Nat
  BY <1>2
<1>4. CASE Failed(os)
  <2>1. x = r
    BY <1>4
  <2>2. Len(os) <= i
    BY <1>2, <1>3
  <2> HIDE DEF p, q, b
  <2> QED
    BY <1>2, <1>4, <2>1, <2>2 DEF Went
<1>5. CASE ~Failed(os)
  <2>1. PICK c \in apply(r.link, b, 1) : x = [link |-> c.link, outcomes |-> Append(os, c.outcome)]
    BY <1>5
  <2>2. Applied(c, r.link, b, 1)
    BY <1>1, <1>2, ApplyFacts
  <2>3. x.link = c.link /\ x.outcomes = Append(os, c.outcome)
    BY <2>1
  <2>4. c.link \in Link /\ c.outcome \in Outcomes
    BY <2>2 DEF Applied
  <2>5. /\ x.outcomes \in Seq(Outcomes) /\ Len(x.outcomes) = i
        /\ Failed(x.outcomes) <=> ~c.outcome.landed
    <3>1. /\ Len(Append(os, c.outcome)) = Len(os) + 1 /\ Append(os, c.outcome) \in Seq(Outcomes)
          /\ Failed(Append(os, c.outcome)) <=> Failed(os) \/ ~c.outcome.landed
      BY <1>2, <2>4, FailedFacts
    <3>2. Len(os) + 1 = i
      BY <1>2, <1>3, <1>5
    <3> QED
      BY <1>5, <2>3, <3>1, <3>2
  <2>6. Len(os) = i - 1
    BY <1>2, <1>5
  <2> HIDE DEF p, q, b, os
  <2>7. ASSUME ~Failed(x.outcomes)
        PROVE  Everything(x.link) = Everything(l0) \o ActionMsgs(q)
    <3>1. Everything(c.link) = Everything(r.link) \o Msgs(b)
      BY <2>2, <2>5, <2>7 DEF Applied
    <3>2. ActionMsgs(q) = ActionMsgs(p) \o Msgs(b) /\ ActionMsgs(p) \in Seq(Message)
      BY <1>1, ActionMsgsFacts
    <3>3. Msgs(b) \in Seq(Message) /\ Everything(l0) \in Seq(Message)
      BY <1>1, MsgsFacts DEF Everything, Link
    <3>4. \A u, v, w \in Seq(Message) : Assoc(u, v, w)
      BY ConcatAssocAll
    <3>5. (Everything(l0) \o ActionMsgs(p)) \o Msgs(b) = Everything(l0) \o (ActionMsgs(p) \o Msgs(b))
      BY <3>2, <3>3, <3>4, Zenon DEF Assoc
    <3> QED
      BY <1>2, <1>5, <2>3, <3>1, <3>2, <3>5, Zenon
  <2>8. ASSUME NEW m, NEW a \in Nat, Fits(l0, m, a)
        PROVE  Fits(x.link, m, a + Applies(q, m))
    <3> DEFINE d == Applies(p, m)
               u == Uses(b, m)
    <3>1. d \in Nat /\ Applies(q, m) = d + u
      BY <1>1, AppliesFacts
    <3>2. u \in Nat
      BY DEF Uses
    <3>3. Fits(r.link, m, a + d)
      BY <1>2, <2>6, <2>8 DEF p
    <3>4. Fits(c.link, m, (a + d) + u)
      <4>1. a + d \in Nat
        BY <3>1
      <4> QED
        BY <2>2, <3>3, <4>1 DEF Applied
    <3> HIDE DEF d, u
    <3>5. (a + d) + u = a + Applies(q, m)
      BY <3>1, <3>2
    <3> QED
      BY <2>3, <3>4, <3>5
  <2>9. i <= i
    BY <1>3
  <2> QED
    BY <2>3, <2>4, <2>5, <2>7, <2>8, <2>9 DEF Went, q
<1> QED
  BY <1>4, <1>5

\* And so it holds of every run of a whole batch.
LEMMA RunsWent ==
  ASSUME NEW l0 \in Link, NEW acts \in Seq(Action),
         NEW r \in ApplyRuns(l0, acts)[Len(acts)]
  PROVE  Went(r, l0, acts, Len(acts))
<1> DEFINE f == ApplyRuns(l0, acts)
           n == Len(acts)
           S == {i \in Nat : i <= n => \A x \in f[i] : Went(x, l0, acts, i)}
<1>1. /\ n \in Nat /\ f[0] = {[link |-> l0, outcomes |-> <<>>]}
      /\ \A i \in 1..n : f[i] = ApplyNext(f[i - 1], acts[i])
  BY ApplyRunsSteps
<1> HIDE DEF f, n
<1>2. 0 \in S
  <2> DEFINE x == [link |-> l0, outcomes |-> <<>>]
  <2>1. x.link = l0 /\ x.outcomes = <<>>
    OBVIOUS
  <2>2. <<>> \in Seq(Outcomes) /\ Len(<<>>) = 0 /\ 0 <= 0
    OBVIOUS
  <2> HIDE DEF x
  <2>3. SubSeq(acts, 1, 0) = <<>>
    BY SubSeqEmpty
  <2>4. Everything(l0) = Everything(l0) \o ActionMsgs(SubSeq(acts, 1, 0))
    <3>1. Everything(l0) \in Seq(Message)
      BY DEF Everything, Link
    <3>2. Everything(l0) \o <<>> = Everything(l0)
      BY <3>1, ConcatEmpty
    <3> QED
      BY <2>3, <3>2, NoActionMsgs, Zenon
  <2>5. ASSUME NEW m, NEW a \in Nat, Fits(l0, m, a)
        PROVE  Fits(l0, m, a + Applies(SubSeq(acts, 1, 0), m))
    <3>1. Applies(<<>>, m) = 0
      BY OnlyEmpty DEF Applies
    <3>2. a + 0 = a
      OBVIOUS
    <3> QED
      BY <2>3, <2>5, <3>1, <3>2
  <2>6. Went(x, l0, acts, 0)
    BY <2>1, <2>2, <2>4, <2>5 DEF Went
  <2> QED
    BY <1>1, <2>6 DEF x
<1>3. ASSUME NEW i \in Nat, i \in S
      PROVE  i + 1 \in S
  <2> SUFFICES ASSUME i + 1 <= n, NEW x \in f[i + 1]
               PROVE  Went(x, l0, acts, i + 1)
    OBVIOUS
  <2> DEFINE j == i + 1
  <2>1. j \in 1..n /\ j - 1 = i /\ i <= n /\ j \in 1..Len(acts)
    BY <1>1 DEF n
  <2> HIDE DEF j
  <2>2. x \in ApplyNext(f[i], acts[j])
    BY <1>1, <2>1 DEF j
  <2>3. PICK r0 \in f[i] :
          x \in IF Failed(r0.outcomes) THEN {r0}
                ELSE {[link |-> c.link, outcomes |-> Append(r0.outcomes, c.outcome)] :
                        c \in apply(r0.link, acts[j], 1)}
    BY <2>2 DEF ApplyNext
  <2>4. Went(r0, l0, acts, j - 1)
    BY <1>3, <2>1, <2>3
  <2>5. Went(x, l0, acts, j)
    BY <2>1, <2>3, <2>4, WentStep
  <2> QED
    BY <2>5 DEF j
<1>4. Nat \subseteq S
  <2> HIDE DEF S
  <2> QED
    BY <1>2, <1>3, NatSetInduction
<1>5. n \in S /\ n <= n
  BY <1>1, <1>4
<1> QED
  BY <1>5 DEF f, n

\* The longest prefix is the sequence.
LEMMA WholePrefix ==
  ASSUME NEW A, NEW s \in Seq(A)
  PROVE  SubSeq(s, 1, Len(s)) = s
  OBVIOUS

\* apply_many, its terminal flush included.
LEMMA ApplyManyFacts ==
  ASSUME NEW l0 \in Link, NEW acts \in Seq(Action), NEW x \in apply_many(l0, acts)
  PROVE  /\ x.link \in Link /\ x.outcomes \in Seq(Outcomes)
         /\ ~Failed(x.outcomes) =>
              x.link.buf = <<>> /\ x.link.wire = Everything(l0) \o ActionMsgs(acts)
         /\ Tried(acts, x.outcomes) \in 0..Len(acts)
         /\ \A m, a : a \in Nat /\ Fits(l0, m, a)
              => Fits(x.link, m, a + Applies(SubSeq(acts, 1, Tried(acts, x.outcomes)), m))
<1> DEFINE n == Len(acts)
<1>1. PICK r \in ApplyRuns(l0, acts)[n] : x \in TerminalFlush(r)
  BY DEF apply_many
<1>2. Went(r, l0, acts, n)
  BY <1>1, RunsWent
<1>3. PICK f \in flush_now(r.link) :
        x = [link |-> f,
             outcomes |-> IF ~f.ok /\ ~Failed(r.outcomes)
                          THEN Append(r.outcomes, Rejected("KernelError"))
                          ELSE r.outcomes]
  BY <1>1 DEF TerminalFlush
<1> DEFINE os == r.outcomes
           o == Rejected("KernelError")
<1>4. /\ r.link \in Link /\ os \in Seq(Outcomes) /\ Len(os) <= n
      /\ ~Failed(os) =>
           Len(os) = n /\ Everything(r.link) = Everything(l0) \o ActionMsgs(SubSeq(acts, 1, n))
      /\ \A m, a : a \in Nat /\ Fits(l0, m, a)
           => Fits(r.link, m, a + Applies(SubSeq(acts, 1, Len(os)), m))
  BY <1>2 DEF Went
<1>5. /\ f \in Link /\ (f.ok => f.buf = <<>> /\ f.wire = Everything(r.link))
      /\ \A m, a : a \in Nat /\ Fits(r.link, m, a) => Fits(f, m, a)
  BY <1>3, <1>4, FlushFacts
<1>6. o \in Outcomes /\ o.landed = FALSE
  BY OutcomeFacts DEF Codes
<1> HIDE DEF o
<1>7. /\ Len(Append(os, o)) = Len(os) + 1 /\ Append(os, o) \in Seq(Outcomes)
      /\ Failed(Append(os, o))
  BY <1>4, <1>6, FailedFacts
<1>8. x.link = f /\ x.outcomes = IF ~f.ok /\ ~Failed(os) THEN Append(os, o) ELSE os
  BY <1>3 DEF o
<1> HIDE DEF os
<1>9. x.outcomes \in Seq(Outcomes)
  BY <1>4, <1>7, <1>8
<1>10. n \in Nat /\ Len(os) \in Nat
  BY <1>4
<1>11. Tried(acts, x.outcomes) = Len(os) /\ Len(os) \in 0..n
  <2>1. CASE ~f.ok /\ ~Failed(os)
    <3>1. x.outcomes = Append(os, o) /\ Len(os) = n /\ Len(x.outcomes) = n + 1
      BY <1>4, <1>7, <1>8, <2>1
    <3> QED
      BY <1>10, <3>1 DEF Tried
  <2>2. CASE ~(~f.ok /\ ~Failed(os))
    <3>1. x.outcomes = os
      BY <1>8, <2>2
    <3> QED
      BY <1>4, <1>10, <3>1 DEF Tried
  <2> QED
    BY <2>1, <2>2
<1>12. ASSUME ~Failed(x.outcomes)
       PROVE  x.link.buf = <<>> /\ x.link.wire = Everything(l0) \o ActionMsgs(acts)
  <2>1. f.ok /\ ~Failed(os)
    BY <1>7, <1>8, <1>12
  <2>2. SubSeq(acts, 1, n) = acts
    BY WholePrefix
  <2> QED
    BY <1>4, <1>5, <1>8, <2>1, <2>2, Zenon
<1>13. ASSUME NEW m, NEW a \in Nat, Fits(l0, m, a)
       PROVE  Fits(x.link, m, a + Applies(SubSeq(acts, 1, Len(os)), m))
  <2> DEFINE p == SubSeq(acts, 1, Len(os))
  <2>1. p \in Seq(Action)
    BY <1>11, CutSequence
  <2> HIDE DEF p
  <2>2. Applies(p, m) \in Nat
    <3>1. Only(p, {b \in Action : b.name = m.name}) \in Seq(Action)
      BY <2>1, OnlyType
    <3> QED
      BY <3>1 DEF Applies
  <2>3. Fits(r.link, m, a + Applies(p, m)) /\ a + Applies(p, m) \in Nat
    BY <1>4, <1>13, <2>2 DEF p
  <2> QED
    BY <1>5, <1>8, <2>3 DEF p
<1> QED
  BY <1>5, <1>8, <1>9, <1>11, <1>12, <1>13

-----------------------------------------------------------------------------
(* The stream.                                                             *)

Attempts == UNION {[D -> Nat] : D \in SUBSET STRING}
Observed == [seq : Nat, events : SUBSET (Facts \cup {"PlanCompleted"}), after : Attempts]
Subscribers == [last_seq : Int, queue : Seq(Observed), filter : SUBSET Facts,
                dropped : Nat, live : BOOLEAN, since : Nat, from : Nat, taken : Nat]

\* One more element, or one less.
LEMMA LastOfLonger ==
  ASSUME NEW S, NEW s \in Seq(S), NEW x \in S, NEW n \in Nat, n <= Len(s)
  PROVE  Append(LastOf(s, n), x) = LastOf(Append(s, x), n + 1)
<1> DEFINE t == Append(s, x)
           q == LastOf(s, n)
           p == Append(q, x)
           r == LastOf(t, n + 1)
<1>1. /\ Len(s) \in Nat /\ t \in Seq(S) /\ Len(t) = Len(s) + 1
      /\ \A i \in 1..Len(s) : t[i] = s[i]
      /\ t[Len(s) + 1] = x
  BY LenProperties, AppendProperties
<1>2. /\ q \in Seq(S) /\ Len(q) = n /\ \A i \in 1..n : q[i] = s[(Len(s) - n) + i]
  BY LastOfFacts
<1> HIDE DEF t, q
<1>3. /\ r \in Seq(S) /\ Len(r) = n + 1
      /\ \A i \in 1..(n + 1) : r[i] = t[(Len(t) - (n + 1)) + i]
  <2> DEFINE k == n + 1
  <2>1. k \in Nat /\ k <= Len(t) /\ t \in Seq(S)
    BY <1>1
  <2> HIDE DEF k
  <2>2. /\ LastOf(t, k) \in Seq(S) /\ Len(LastOf(t, k)) = k
        /\ \A i \in 1..k : LastOf(t, k)[i] = t[(Len(t) - k) + i]
    BY <2>1, LastOfFacts, Zenon
  <2> QED
    BY <2>2 DEF k
<1>4. /\ p \in Seq(S) /\ Len(p) = n + 1 /\ \A i \in 1..n : p[i] = q[i]
      /\ p[n + 1] = x
  BY <1>2, AppendProperties
<1> HIDE DEF p, r
<1>5. ASSUME NEW i \in 1..(n + 1) PROVE p[i] = r[i]
  <2> DEFINE j == (Len(t) - (n + 1)) + i
  <2>1. CASE i = n + 1
    <3>1. j = Len(s) + 1
      BY <1>1, <2>1
    <3> QED
      BY <1>1, <1>3, <1>4, <2>1, <3>1
  <2>2. CASE i # n + 1
    <3>1. i \in 1..n
      BY <2>2
    <3>2. j = (Len(s) - n) + i /\ j \in 1..Len(s)
      BY <1>1, <3>1
    <3>3. r[i] = t[j] /\ t[j] = s[j]
      BY <1>1, <1>3, <3>2
    <3>4. p[i] = s[(Len(s) - n) + i]
      BY <1>2, <1>4, <3>1
    <3> QED
      BY <3>2, <3>3, <3>4
  <2> QED
    BY <2>1, <2>2
<1>6. p = r
  BY <1>3, <1>4, <1>5, SeqEqual
<1> QED
  BY <1>6 DEF p, r, q, t

\* Without its oldest element it is the tail of the same history.
LEMMA LastOfShorter ==
  ASSUME NEW S, NEW s \in Seq(S), NEW n \in Nat \ {0}, n <= Len(s)
  PROVE  Tail(LastOf(s, n)) = LastOf(s, n - 1)
<1> DEFINE q == LastOf(s, n)
           p == Tail(q)
           k == n - 1
           r == LastOf(s, k)
<1>1. Len(s) \in Nat /\ k \in Nat /\ k <= Len(s) /\ n = k + 1
  BY LenProperties
<1>2. /\ q \in Seq(S) /\ Len(q) = n /\ \A i \in 1..n : q[i] = s[(Len(s) - n) + i]
  BY LastOfFacts
<1> HIDE DEF q, k
<1>3. /\ r \in Seq(S) /\ Len(r) = k /\ \A i \in 1..k : r[i] = s[(Len(s) - k) + i]
  BY <1>1, LastOfFacts
<1>4. q # <<>>
  BY <1>2
<1>5. /\ p \in Seq(S) /\ Len(p) = Len(q) - 1 /\ \A i \in 1..Len(p) : p[i] = q[i + 1]
  BY <1>2, <1>4, HeadTailProperties
<1> HIDE DEF p, r
<1>6. ASSUME NEW i \in 1..k PROVE p[i] = r[i]
  <2>1. i \in 1..Len(p) /\ i + 1 \in 1..n /\ (Len(s) - n) + (i + 1) = (Len(s) - k) + i
    BY <1>1, <1>2, <1>5
  <2>2. p[i] = q[i + 1] /\ q[i + 1] = s[(Len(s) - n) + (i + 1)]
    BY <1>2, <1>5, <2>1
  <2>3. r[i] = s[(Len(s) - k) + i]
    BY <1>3
  <2> QED
    BY <2>1, <2>2, <2>3, Zenon
<1>7. Len(p) = k
  BY <1>1, <1>2, <1>5
<1>8. p = r
  BY <1>3, <1>5, <1>6, <1>7, SeqEqual
<1> QED
  BY <1>8 DEF p, r, q, k

\* The subscriber's books agree with what it was offered.
Counted(sub, all) ==
  /\ sub \in Subscribers /\ all \in Seq(Observed) /\ Len(sub.queue) <= QueueCap
  /\ sub.queue = LastOf(all, Len(sub.queue))
  /\ Len(all) = sub.taken + sub.dropped + Len(sub.queue)

SameView(x, sub) ==
  x.filter = sub.filter /\ x.since = sub.since /\ x.from = sub.from /\ x.live = sub.live

\* push keeps the count: taken, dropped and queued are what was accepted.
LEMMA PushCounts ==
  ASSUME NEW sub, NEW all, Counted(sub, all), NEW obs \in Observed
  PROVE  /\ Counted(push(sub, obs), IF accepts(sub, obs) THEN Append(all, obs) ELSE all)
         /\ SameView(push(sub, obs), sub)
<1>1. CASE ~accepts(sub, obs)
  <2>1. push(sub, obs) = sub
    BY <1>1 DEF push
  <2> QED
    BY <1>1, <2>1 DEF SameView
<1>2. CASE accepts(sub, obs)
  <2> DEFINE q == sub.queue
             n == Len(q)
             x == push(sub, obs)
             q2 == PushBounded(q, obs, QueueCap)
             d2 == IF n >= QueueCap THEN sub.dropped + 1 ELSE sub.dropped
             l2 == Append(all, obs)
  <2>1. /\ sub \in Subscribers /\ all \in Seq(Observed) /\ n <= QueueCap
        /\ q = LastOf(all, n) /\ Len(all) = sub.taken + sub.dropped + n
    BY DEF Counted
  <2>2. /\ q \in Seq(Observed) /\ sub.dropped \in Nat /\ sub.taken \in Nat
        /\ n \in Nat /\ QueueCap \in Nat \ {0} /\ Len(all) \in Nat /\ n <= Len(all)
    BY <2>1, CapsPositive DEF Subscribers
  <2>3. d2 \in Nat
    BY <2>2
  <2>4. x = [sub EXCEPT !.queue = q2, !.dropped = d2]
    BY <1>2 DEF push
  <2>5. l2 \in Seq(Observed) /\ Len(l2) = Len(all) + 1
    BY <2>1, AppendProperties
  <2>6. /\ q2 \in Seq(Observed) /\ Len(q2) <= QueueCap /\ q2 = LastOf(l2, Len(q2))
        /\ Len(l2) = sub.taken + d2 + Len(q2)
    <3>1. CASE n >= QueueCap
      <4>1. n = QueueCap
        BY <2>1, <2>2, <3>1
      <4>2. q2 = LastOf(l2, QueueCap)
        BY <2>1, <2>2, <4>1, PushKeepsLastOf
      <4>3. QueueCap \in Nat /\ QueueCap <= Len(l2)
        BY <2>2, <2>5, <4>1
      <4> HIDE DEF l2, q2
      <4>4. /\ LastOf(l2, QueueCap) \in Seq(Observed) /\ Len(LastOf(l2, QueueCap)) = QueueCap
        BY <2>5, <4>3, LastOfFacts
      <4>5. Len(q2) = QueueCap /\ q2 \in Seq(Observed)
        BY <4>2, <4>4
      <4>6. d2 = sub.dropped + 1
        BY <3>1
      <4> HIDE DEF d2, n
      <4>7. Len(l2) = sub.taken + d2 + Len(q2)
        <5>1. \A a, b, c, d \in Nat : a = b + c + d => a + 1 = b + (c + 1) + d
          OBVIOUS
        <5>2. Len(all) + 1 = sub.taken + (sub.dropped + 1) + n
          BY <2>1, <2>2, <5>1
        <5> QED
          BY <2>5, <4>1, <4>5, <4>6, <5>2, Zenon
      <4> QED
        BY <2>2, <4>2, <4>3, <4>5, <4>7
    <3>2. CASE ~(n >= QueueCap)
      <4>1. q2 = Append(q, obs)
        BY <3>2 DEF PushBounded
      <4>2. q2 \in Seq(Observed) /\ Len(q2) = n + 1
        <5> HIDE DEF q2
        <5> QED
          BY <2>2, <4>1, AppendProperties
      <4>3. Append(LastOf(all, n), obs) = LastOf(l2, n + 1)
        BY <2>1, <2>2, LastOfLonger
      <4>4. d2 = sub.dropped
        BY <3>2
      <4> HIDE DEF l2, q2, d2, n, q
      <4>5. q2 = LastOf(l2, Len(q2))
        BY <2>1, <4>1, <4>2, <4>3
      <4>6. Len(l2) = sub.taken + d2 + Len(q2)
        BY <2>1, <2>2, <2>5, <4>2, <4>4
      <4> QED
        BY <2>2, <3>2, <4>2, <4>5, <4>6
    <3> QED
      BY <3>1, <3>2
  <2> HIDE DEF x, q2, d2, l2
  <2>7. x \in Subscribers /\ x.queue = q2 /\ x.dropped = d2 /\ x.taken = sub.taken
    BY <2>1, <2>3, <2>4, <2>6 DEF Subscribers
  <2>8. SameView(x, sub)
    BY <2>1, <2>4 DEF SameView, Subscribers
  <2>9. Counted(x, l2)
    BY <2>5, <2>6, <2>7, Zenon DEF Counted
  <2> QED
    BY <1>2, <2>8, <2>9 DEF x, l2
<1> QED
  BY <1>1, <1>2

\* push gives a subscriber.
LEMMA PushType ==
  ASSUME NEW sub \in Subscribers, NEW obs \in Observed
  PROVE  push(sub, obs) \in Subscribers
<1>1. CASE ~accepts(sub, obs)
  BY <1>1 DEF push
<1>2. CASE accepts(sub, obs)
  <2> DEFINE q == sub.queue
             r == IF Len(q) >= QueueCap THEN Tail(q) ELSE q
             q2 == PushBounded(q, obs, QueueCap)
             d2 == IF Len(q) >= QueueCap THEN sub.dropped + 1 ELSE sub.dropped
  <2>1. q \in Seq(Observed) /\ sub.dropped \in Nat /\ QueueCap \in Nat \ {0}
    BY CapsPositive DEF Subscribers
  <2>2. r \in Seq(Observed)
    <3>1. CASE Len(q) >= QueueCap
      <4>1. q # <<>>
        BY <2>1, <3>1
      <4> QED
        BY <2>1, <3>1, <4>1, HeadTailProperties
    <3> QED
      BY <2>1, <3>1
  <2>3. q2 \in Seq(Observed)
    <3>1. q2 = Append(r, obs)
      BY DEF PushBounded
    <3> HIDE DEF r, q2
    <3> QED
      BY <2>2, <3>1, AppendProperties
  <2>4. d2 \in Nat
    BY <2>1
  <2>5. push(sub, obs) = [sub EXCEPT !.queue = q2, !.dropped = d2]
    BY <1>2 DEF push
  <2> HIDE DEF q2, d2
  <2> QED
    BY <2>3, <2>4, <2>5 DEF Subscribers
<1> QED
  BY <1>1, <1>2

\* The recursive function Pushes, one observation after another.
LEMMA PushesSteps ==
  ASSUME NEW sub \in Subscribers, NEW obss \in Seq(Observed)
  PROVE  /\ Pushes(sub, obss)[0] = sub
         /\ \A i \in 1..Len(obss) : Pushes(sub, obss)[i] = push(Pushes(sub, obss)[i - 1], obss[i])
<1> DEFINE n == Len(obss)
           T == Subscribers
           Body(g) == [i \in 0..n |-> IF i = 0 THEN sub ELSE push(g[i - 1], obss[i])]
           step == [i \in 1..n |-> [t \in T |-> push(t, obss[i])]]
           f == Pushes(sub, obss)
<1>1. n \in Nat /\ \A i \in 1..n : obss[i] \in Observed
  OBVIOUS
<1>2. step \in [1..n -> [T -> T]]
  <2>1. \A i \in 1..n : [t \in T |-> push(t, obss[i])] \in [T -> T]
    BY <1>1, PushType
  <2> QED
    BY <2>1
<1>3. PICK g \in [0..n -> T] : Steps(g, sub, n, step)
  <2> HIDE DEF step, n, T
  <2>1. sub \in T
    BY DEF T
  <2> QED
    BY <1>1, <1>2, <2>1, StepsExist
<1>4. g = Body(g)
  <2>1. \A i \in 0..n : g[i] = Body(g)[i]
    <3> SUFFICES ASSUME NEW i \in 0..n
                 PROVE  g[i] = Body(g)[i]
      OBVIOUS
    <3>1. CASE i = 0
      BY <1>3, <3>1 DEF Steps
    <3>2. CASE i # 0
      <4>1. i \in 1..n /\ i - 1 \in 0..n
        BY <3>2
      <4>2. g[i] = step[i][g[i - 1]]
        BY <1>3, <4>1 DEF Steps
      <4>3. step[i][g[i - 1]] = push(g[i - 1], obss[i])
        BY <4>1
      <4> QED
        BY <3>2, <4>2, <4>3
    <3> QED
      BY <3>1, <3>2
  <2>2. DOMAIN g = 0..n /\ Body(g) = [i \in 0..n |-> Body(g)[i]]
    OBVIOUS
  <2> HIDE DEF Body
  <2> QED
    BY <2>1, <2>2
<1>5. f = Body(f)
  BY <1>4 DEF Pushes
<1> HIDE DEF f
<1>6. f[0] = sub
  <2>1. Body(f)[0] = sub
    OBVIOUS
  <2> HIDE DEF Body
  <2> QED
    BY <1>5, <2>1
<1>7. \A i \in 1..n : f[i] = push(f[i - 1], obss[i])
  <2> SUFFICES ASSUME NEW i \in 1..n
               PROVE  f[i] = push(f[i - 1], obss[i])
    OBVIOUS
  <2>1. Body(f)[i] = push(f[i - 1], obss[i])
    OBVIOUS
  <2> HIDE DEF Body
  <2> QED
    BY <1>5, <2>1
<1> QED
  BY <1>6, <1>7 DEF f

Kept(sub) == {o \in Observed : accepts(sub, o)}

\* The offer grows with each observation the filter accepts.
LEMMA KeptMore ==
  ASSUME NEW sub, NEW s \in Seq(Observed), NEW obs \in Observed
  PROVE  Only(Append(s, obs), Kept(sub)) =
           IF accepts(sub, obs) THEN Append(Only(s, Kept(sub)), obs) ELSE Only(s, Kept(sub))
<1> DEFINE K == Kept(sub)
<1>1. obs \in K <=> accepts(sub, obs)
  BY DEF Kept
<1> HIDE DEF K
<1>2. Only(Append(s, obs), K) = IF obs \in K THEN Append(Only(s, K), obs) ELSE Only(s, K)
  BY OnlyAppend
<1> QED
  BY <1>1, <1>2 DEF K

\* Subscribers with the same view accept the same observations.
LEMMA SameAccepts ==
  ASSUME NEW x, NEW sub, SameView(x, sub)
  PROVE  Kept(x) = Kept(sub) /\ \A obs : accepts(x, obs) <=> accepts(sub, obs)
<1>1. x.filter = sub.filter
  BY DEF SameView
<1>2. \A obs : accepts(x, obs) <=> accepts(sub, obs)
  BY <1>1 DEF accepts
<1> QED
  BY <1>2 DEF Kept

\* Pushing a sequence keeps the count of what was accepted of it.
LEMMA PushesCount ==
  ASSUME NEW sub \in Subscribers, NEW obss \in Seq(Observed), Counted(sub, <<>>)
  PROVE  /\ Counted(Pushes(sub, obss)[Len(obss)], Only(obss, Kept(sub)))
         /\ SameView(Pushes(sub, obss)[Len(obss)], sub)
<1> DEFINE f == Pushes(sub, obss)
           n == Len(obss)
           K == Kept(sub)
           All(i) == Only(SubSeq(obss, 1, i), K)
           S == {i \in Nat : i <= n => Counted(f[i], All(i)) /\ SameView(f[i], sub)}
<1>1. n \in Nat /\ f[0] = sub /\ \A i \in 1..n : f[i] = push(f[i - 1], obss[i])
  BY PushesSteps
<1> HIDE DEF f, n, K
<1>2. 0 \in S
  <2>1. SubSeq(obss, 1, 0) = <<>>
    BY SubSeqEmpty
  <2>2. All(0) = <<>>
    BY <2>1, OnlyEmpty
  <2>3. SameView(sub, sub)
    BY DEF SameView
  <2> HIDE DEF All
  <2> QED
    BY <1>1, <2>2, <2>3
<1>3. ASSUME NEW i \in Nat, i \in S
      PROVE  i + 1 \in S
  <2> SUFFICES ASSUME i + 1 <= n
               PROVE  Counted(f[i + 1], All(i + 1)) /\ SameView(f[i + 1], sub)
    OBVIOUS
  <2> DEFINE j == i + 1
             o == obss[j]
  <2>1. j \in 1..n /\ j - 1 = i /\ i <= n /\ j \in 1..Len(obss)
    BY <1>1 DEF n
  <2>2. Counted(f[i], All(i)) /\ SameView(f[i], sub)
    BY <1>3, <2>1
  <2> HIDE DEF j, o
  <2>3. f[j] = push(f[i], o)
    BY <1>1, <2>1 DEF o
  <2>4. /\ SubSeq(obss, 1, i) \in Seq(Observed) /\ o \in Observed
        /\ SubSeq(obss, 1, j) = Append(SubSeq(obss, 1, i), o)
    BY <2>1, LongerPrefix DEF o
  <2>5. All(j) = IF accepts(sub, o) THEN Append(All(i), o) ELSE All(i)
    BY <2>4, KeptMore DEF K
  <2> HIDE DEF All
  <2>6. /\ Counted(push(f[i], o), IF accepts(f[i], o) THEN Append(All(i), o) ELSE All(i))
        /\ SameView(push(f[i], o), f[i])
    BY <2>2, <2>4, PushCounts
  <2>7. accepts(f[i], o) <=> accepts(sub, o)
    BY <2>2, SameAccepts
  <2>8. Counted(f[j], All(j))
    <3>1. CASE accepts(sub, o)
      BY <2>3, <2>5, <2>6, <2>7, <3>1
    <3>2. CASE ~accepts(sub, o)
      BY <2>3, <2>5, <2>6, <2>7, <3>2
    <3> QED
      BY <3>1, <3>2
  <2>9. SameView(f[j], sub)
    BY <2>2, <2>3, <2>6 DEF SameView
  <2> QED
    BY <2>8, <2>9 DEF j
<1>4. Nat \subseteq S
  <2> HIDE DEF S
  <2> QED
    BY <1>2, <1>3, NatSetInduction
<1>5. Counted(f[n], All(n)) /\ SameView(f[n], sub)
  BY <1>1, <1>4
<1>6. SubSeq(obss, 1, n) = obss
  BY WholePrefix DEF n
<1> QED
  BY <1>5, <1>6, Zenon DEF f, n, K

\* What is appended belongs to the second of two parts.
LEMMA CutAppend ==
  ASSUME NEW A, NEW s \in Seq(A), NEW e \in A, NEW k \in 0..Len(s)
  PROVE  /\ SubSeq(Append(s, e), 1, k) = SubSeq(s, 1, k)
         /\ SubSeq(Append(s, e), k + 1, Len(s) + 1) = Append(SubSeq(s, k + 1, Len(s)), e)
<1> DEFINE t == Append(s, e)
           n == Len(s)
           a1 == SubSeq(t, 1, k)
           b1 == SubSeq(s, 1, k)
           a2 == SubSeq(t, k + 1, n + 1)
           b2 == SubSeq(s, k + 1, n)
           c2 == Append(b2, e)
<1>1. /\ n \in Nat /\ k \in 0..n /\ t \in Seq(A) /\ Len(t) = n + 1
      /\ (\A i \in 1..n : t[i] = s[i]) /\ t[n + 1] = e
  BY AppendProperties, LenProperties
<1>2. (\A i \in 1..n : s[i] \in A) /\ \A i \in 1..(n + 1) : t[i] \in A
  BY <1>1, ElementOfSeq
<1> HIDE DEF t, n
<1>3. \A i \in 1..k : i \in 1..n /\ i \in 1..(n + 1)
  BY <1>1
<1>4. \A i \in (k + 1)..n : i \in 1..n
  BY <1>1
<1>5. \A i \in (k + 1)..(n + 1) : i \in 1..(n + 1)
  BY <1>1
<1>6. a1 \in Seq(A) /\ Len(a1) = k /\ \A i \in 1..k : a1[i] = t[i]
  <2>1. \A i \in 1..k : t[i] \in A
    BY <1>2, <1>3
  <2>2. /\ a1 \in Seq(A) /\ Len(a1) = (IF 1 <= k THEN k - 1 + 1 ELSE 0)
        /\ \A i \in 1..(k - 1 + 1) : a1[i] = t[1 + i - 1]
    BY <1>1, <2>1, SubSeqProperties
  <2> HIDE DEF a1
  <2> QED
    BY <1>1, <2>2
<1>7. b1 \in Seq(A) /\ Len(b1) = k /\ \A i \in 1..k : b1[i] = s[i]
  <2>1. \A i \in 1..k : s[i] \in A
    BY <1>2, <1>3
  <2>2. /\ b1 \in Seq(A) /\ Len(b1) = (IF 1 <= k THEN k - 1 + 1 ELSE 0)
        /\ \A i \in 1..(k - 1 + 1) : b1[i] = s[1 + i - 1]
    BY <1>1, <2>1, SubSeqProperties
  <2> HIDE DEF b1
  <2> QED
    BY <1>1, <2>2
<1>8. a2 \in Seq(A) /\ Len(a2) = (n - k) + 1 /\ \A i \in 1..((n - k) + 1) : a2[i] = t[k + i]
  <2>1. \A i \in (k + 1)..(n + 1) : t[i] \in A
    BY <1>2, <1>5
  <2>2. /\ a2 \in Seq(A)
        /\ Len(a2) = (IF k + 1 <= n + 1 THEN (n + 1) - (k + 1) + 1 ELSE 0)
        /\ \A i \in 1..((n + 1) - (k + 1) + 1) : a2[i] = t[(k + 1) + i - 1]
    <3> DEFINE x == k + 1
               y == n + 1
    <3>1. x \in Int /\ y \in Int /\ \A i \in x..y : t[i] \in A
      BY <1>1, <2>1
    <3> HIDE DEF x, y
    <3>2. /\ SubSeq(t, x, y) \in Seq(A)
          /\ Len(SubSeq(t, x, y)) = (IF x <= y THEN y - x + 1 ELSE 0)
          /\ \A i \in 1..(y - x + 1) : SubSeq(t, x, y)[i] = t[x + i - 1]
      BY <3>1, SubSeqProperties
    <3> QED
      BY <3>2 DEF x, y
  <2> HIDE DEF a2
  <2>3. (n + 1) - (k + 1) + 1 = (n - k) + 1 /\ k + 1 <= n + 1
    BY <1>1
  <2>4. \A i \in 1..((n - k) + 1) : (k + 1) + i - 1 = k + i
    BY <1>1
  <2> QED
    BY <2>2, <2>3, <2>4
<1>9. b2 \in Seq(A) /\ Len(b2) = n - k /\ \A i \in 1..(n - k) : b2[i] = s[k + i]
  <2>1. \A i \in (k + 1)..n : s[i] \in A
    BY <1>2, <1>4
  <2>2. /\ b2 \in Seq(A)
        /\ Len(b2) = (IF k + 1 <= n THEN n - (k + 1) + 1 ELSE 0)
        /\ \A i \in 1..(n - (k + 1) + 1) : b2[i] = s[(k + 1) + i - 1]
    <3> DEFINE x == k + 1
    <3>1. x \in Int /\ n \in Int /\ \A i \in x..n : s[i] \in A
      BY <1>1, <2>1
    <3> HIDE DEF x
    <3>2. /\ SubSeq(s, x, n) \in Seq(A)
          /\ Len(SubSeq(s, x, n)) = (IF x <= n THEN n - x + 1 ELSE 0)
          /\ \A i \in 1..(n - x + 1) : SubSeq(s, x, n)[i] = s[x + i - 1]
      BY <3>1, SubSeqProperties
    <3> QED
      BY <3>2 DEF x
  <2> HIDE DEF b2
  <2>3. n - (k + 1) + 1 = n - k /\ (k + 1 <= n \/ n - k = 0)
    BY <1>1
  <2>4. \A i \in 1..(n - k) : (k + 1) + i - 1 = k + i
    BY <1>1
  <2> QED
    BY <1>1, <2>2, <2>3, <2>4
<1> HIDE DEF a1, b1, a2, b2
<1>10. a1 = b1
  <2>1. \A i \in 1..k : a1[i] = b1[i]
    BY <1>1, <1>3, <1>6, <1>7
  <2> QED
    BY <1>6, <1>7, <2>1, SeqEqual
<1>11. /\ c2 \in Seq(A) /\ Len(c2) = (n - k) + 1 /\ c2[(n - k) + 1] = e
       /\ \A i \in 1..(n - k) : c2[i] = b2[i]
  BY <1>9, AppendProperties
<1> HIDE DEF c2
<1>12. a2 = c2
  <2>1. ASSUME NEW i \in 1..((n - k) + 1) PROVE a2[i] = c2[i]
    <3>1. CASE i = (n - k) + 1
      <4>1. k + i = n + 1
        BY <1>1, <3>1
      <4> QED
        BY <1>1, <1>8, <1>11, <3>1, <4>1
    <3>2. CASE i # (n - k) + 1
      <4>1. i \in 1..(n - k) /\ k + i \in 1..n
        BY <1>1, <3>2
      <4> QED
        BY <1>1, <1>8, <1>9, <1>11, <4>1
    <3> QED
      BY <3>1, <3>2
  <2> QED
    BY <1>8, <1>11, <2>1, SeqEqual
<1> QED
  BY <1>10, <1>12 DEF a1, b1, a2, b2, c2, t, n

\* The tail of a history consists of its elements.
LEMMA LastOfType ==
  ASSUME NEW S, NEW s \in Seq(S), NEW n \in Nat
  PROVE  LastOf(s, n) \in Seq(S)
<1>1. CASE n <= Len(s)
  BY <1>1, LastOfFacts
<1>2. CASE ~(n <= Len(s))
  <2>1. Len(s) <= n
    BY <1>2, LenProperties
  <2> QED
    BY <2>1 DEF LastOf
<1> QED
  BY <1>1, <1>2

\* What the gap-fill replays, what came afterwards, and what of it is wanted.
Old(sub, past) == since_seq(LastOf(SubSeq(past, 1, sub.from), HistoryCap), sub.since)
New(sub, past) == SubSeq(past, sub.from + 1, Len(past))
Offer(sub, past) == Only(Old(sub, past) \o New(sub, past), Kept(sub))

\* What is offered consists of observations.
LEMMA OfferType ==
  ASSUME NEW A, NEW past \in Seq(A), NEW sub, sub.from \in 0..Len(past)
  PROVE  Old(sub, past) \in Seq(A) /\ New(sub, past) \in Seq(A)
<1> DEFINE s == SubSeq(past, 1, sub.from)
           h == LastOf(s, HistoryCap)
<1>1. s \in Seq(A) /\ New(sub, past) \in Seq(A)
  BY CutSequence DEF New
<1> HIDE DEF s
<1>2. h \in Seq(A)
  BY <1>1, CapsPositive, LastOfType
<1> HIDE DEF h
<1>3. Old(sub, past) = Only(h, {o \in Range(h) : o.seq > sub.since})
  BY DEF Old, since_seq, h, s
<1>4. Only(h, {o \in Range(h) : o.seq > sub.since}) \in Seq(A)
  BY <1>2, OnlyType
<1> QED
  BY <1>1, <1>3, <1>4

\* Offer is what the property SubscribersAccounted counts.
LEMMA OfferIsOffered ==
  ASSUME NEW past \in Seq(Observed), NEW sub, sub.from \in 0..Len(past)
  PROVE  Offered(sub, past) = Offer(sub, past) /\ Offer(sub, past) \in Seq(Observed)
<1> DEFINE R == Range(past)
           T == {o \in R : accepts(sub, o)}
           K == Kept(sub)
           c == Old(sub, past) \o New(sub, past)
<1>1. past \in Seq(R) /\ R \subseteq Observed
  BY SeqOfRange, RangeOfSeq
<1> HIDE DEF R
<1>2. c \in Seq(R) /\ c \in Seq(Observed)
  <2>1. Old(sub, past) \in Seq(R) /\ New(sub, past) \in Seq(R)
    BY <1>1, OfferType
  <2>2. Old(sub, past) \in Seq(Observed) /\ New(sub, past) \in Seq(Observed)
    BY OfferType
  <2> QED
    BY <2>1, <2>2, ConcatProperties
<1> HIDE DEF c
<1>3. \A i \in 1..Len(c) : c[i] \in R /\ c[i] \in Observed
  BY <1>2, ElementOfSeq
<1>4. \A i \in 1..Len(c) : c[i] \in T <=> c[i] \in K
  BY <1>3 DEF Kept
<1> HIDE DEF T, K
<1>5. Only(c, T) = Only(c, K)
  BY <1>2, <1>4, OnlySame
<1>6. Only(c, K) \in Seq(Observed)
  BY <1>2, OnlyType
<1> QED
  BY <1>5, <1>6 DEF Offered, Offer, Old, New, c, T, K, R

\* One more observation is offered to those who accept it, after the rest.
LEMMA OfferMore ==
  ASSUME NEW past \in Seq(Observed), NEW sub, sub.from \in 0..Len(past),
         NEW obs \in Observed
  PROVE  Offer(sub, Append(past, obs)) =
           IF accepts(sub, obs) THEN Append(Offer(sub, past), obs) ELSE Offer(sub, past)
<1> DEFINE l2 == Append(past, obs)
           o == Old(sub, past)
           n == New(sub, past)
<1>1. o \in Seq(Observed) /\ n \in Seq(Observed)
  BY OfferType
<1>2. /\ SubSeq(l2, 1, sub.from) = SubSeq(past, 1, sub.from)
      /\ SubSeq(l2, sub.from + 1, Len(past) + 1) = Append(SubSeq(past, sub.from + 1, Len(past)), obs)
  BY CutAppend
<1>3. Len(l2) = Len(past) + 1
  BY AppendProperties
<1> HIDE DEF l2
<1>4. Old(sub, l2) = o
  BY <1>2, Zenon DEF Old
<1>5. New(sub, l2) = Append(n, obs)
  BY <1>2, <1>3, Zenon DEF New
<1> HIDE DEF o, n
<1>6. o \o Append(n, obs) = Append(o \o n, obs) /\ o \o n \in Seq(Observed)
  BY <1>1, ConcatAppend
<1> DEFINE c == o \o n
<1>7. c \in Seq(Observed) /\ Old(sub, l2) \o New(sub, l2) = Append(c, obs)
  BY <1>4, <1>5, <1>6, Zenon
<1>8. Offer(sub, past) = Only(c, Kept(sub)) /\ Offer(sub, l2) = Only(Append(c, obs), Kept(sub))
  BY <1>7, Zenon DEF Offer, o, n
<1> HIDE DEF c
<1>9. Only(Append(c, obs), Kept(sub)) =
        IF accepts(sub, obs) THEN Append(Only(c, Kept(sub)), obs) ELSE Only(c, Kept(sub))
  BY <1>7, KeptMore
<1> QED
  BY <1>8, <1>9 DEF l2

\* The engine after this past: every subscriber has a count of its own offer.
Engine == [next_seq : Nat, history : Seq(Observed), subscribers : Seq(Subscribers)]

SubscriberOK(sub, past) ==
  /\ sub \in Subscribers /\ sub.from \in 0..Len(past)
  /\ sub.live => Counted(sub, Offer(sub, past))

EngineOK(e, past) ==
  /\ past \in Seq(Observed) /\ e \in Engine
  /\ e.next_seq = Len(past) /\ e.history = LastOf(past, HistoryCap)
  /\ \A i \in 1..Len(e.subscribers) : SubscriberOK(e.subscribers[i], past)

\* Subscribers with the same view are offered the same.
LEMMA SameOffer ==
  ASSUME NEW x, NEW sub, SameView(x, sub), NEW past
  PROVE  Offer(x, past) = Offer(sub, past)
<1>1. x.from = sub.from /\ x.since = sub.since
  BY DEF SameView
<1>2. Kept(x) = Kept(sub)
  BY SameAccepts
<1> QED
  BY <1>1, <1>2, Zenon DEF Offer, Old, New

\* produce, for one subscriber.
LEMMA SubscriberProduce ==
  ASSUME NEW past \in Seq(Observed), NEW sub, SubscriberOK(sub, past), NEW obs \in Observed
  PROVE  SubscriberOK(IF sub.live THEN push(sub, obs) ELSE sub, Append(past, obs))
<1> DEFINE l2 == Append(past, obs)
<1>1. /\ sub \in Subscribers /\ sub.from \in 0..Len(past)
      /\ sub.live => Counted(sub, Offer(sub, past))
  BY DEF SubscriberOK
<1>2. Len(past) \in Nat /\ l2 \in Seq(Observed) /\ Len(l2) = Len(past) + 1
  BY AppendProperties, LenProperties
<1>3. Offer(sub, l2) = IF accepts(sub, obs) THEN Append(Offer(sub, past), obs) ELSE Offer(sub, past)
  BY <1>1, OfferMore
<1> HIDE DEF l2
<1>4. sub.from \in 0..Len(l2)
  BY <1>1, <1>2
<1>5. CASE ~sub.live
  BY <1>1, <1>4, <1>5 DEF SubscriberOK, l2
<1>6. CASE sub.live
  <2> DEFINE x == push(sub, obs)
  <2>1. /\ Counted(x, IF accepts(sub, obs) THEN Append(Offer(sub, past), obs) ELSE Offer(sub, past))
        /\ SameView(x, sub)
    BY <1>1, <1>6, PushCounts
  <2>2. Offer(x, l2) = Offer(sub, l2)
    BY <2>1, SameOffer
  <2> HIDE DEF x
  <2>3. Counted(x, Offer(x, l2))
    BY <1>3, <2>1, <2>2
  <2>4. x \in Subscribers /\ x.from = sub.from
    BY <2>1 DEF Counted, SameView
  <2> QED
    BY <1>4, <1>6, <2>3, <2>4 DEF SubscriberOK, l2, x
<1> QED
  BY <1>5, <1>6

\* produce, for the engine: one observation more of the past.
LEMMA ProduceOK ==
  ASSUME NEW e, NEW past, EngineOK(e, past), NEW obs \in Observed
  PROVE  EngineOK(produce(e, obs), Append(past, obs))
<1> DEFINE l2 == Append(past, obs)
           subs == e.subscribers
           n == Len(subs)
           h2 == PushBounded(e.history, obs, HistoryCap)
           s2 == [i \in DOMAIN subs |-> IF subs[i].live THEN push(subs[i], obs) ELSE subs[i]]
           x == produce(e, obs)
<1>1. /\ past \in Seq(Observed) /\ e \in Engine
      /\ e.next_seq = Len(past) /\ e.history = LastOf(past, HistoryCap)
      /\ \A i \in 1..n : SubscriberOK(subs[i], past)
  BY DEF EngineOK
<1>2. subs \in Seq(Subscribers) /\ n \in Nat /\ DOMAIN subs = 1..n
  BY <1>1 DEF Engine
<1>3. l2 \in Seq(Observed) /\ Len(l2) = Len(past) + 1 /\ Len(past) \in Nat
  BY <1>1, AppendProperties, LenProperties
<1>4. h2 = LastOf(l2, HistoryCap)
  BY <1>1, CapsPositive, PushKeepsLastOf
<1>5. h2 \in Seq(Observed)
  <2> HIDE DEF h2, l2
  <2>1. LastOf(l2, HistoryCap) \in Seq(Observed)
    BY <1>3, CapsPositive, LastOfType
  <2> QED
    BY <1>4, <2>1
<1>6. \A i \in 1..n : SubscriberOK(IF subs[i].live THEN push(subs[i], obs) ELSE subs[i], l2)
  BY <1>1, SubscriberProduce
<1> HIDE DEF l2, h2, subs, n
<1>7. \A i \in 1..n : (IF subs[i].live THEN push(subs[i], obs) ELSE subs[i]) \in Subscribers
  BY <1>6 DEF SubscriberOK
<1>8. s2 \in Seq(Subscribers) /\ Len(s2) = n /\ \A i \in 1..n : SubscriberOK(s2[i], l2)
  <2>1. s2 = [i \in 1..n |-> IF subs[i].live THEN push(subs[i], obs) ELSE subs[i]]
    BY <1>2
  <2> HIDE DEF s2
  <2>2. s2 \in Seq(Subscribers) /\ Len(s2) = n
    BY <1>2, <1>7, <2>1
  <2>3. \A i \in 1..n : s2[i] = IF subs[i].live THEN push(subs[i], obs) ELSE subs[i]
    BY <2>1
  <2> QED
    BY <1>6, <2>2, <2>3
<1>9. x = [next_seq |-> e.next_seq + 1, history |-> h2, subscribers |-> s2]
  BY DEF produce, h2, subs
<1> HIDE DEF x, s2
<1>10. /\ x \in Engine /\ x.next_seq = Len(l2) /\ x.history = h2 /\ x.subscribers = s2
  BY <1>1, <1>3, <1>5, <1>8, <1>9 DEF Engine
<1>11. EngineOK(x, l2)
  BY <1>3, <1>4, <1>8, <1>10 DEF EngineOK
<1> QED
  BY <1>11 DEF x, l2

\* At most one observation.
LEMMA ProducedOK ==
  ASSUME NEW e, NEW past, EngineOK(e, past), NEW obss,
         obss = <<>> \/ \E obs \in Observed : obss = <<obs>>
  PROVE  EngineOK(Produced(e, obss), past \o obss)
<1>1. past \in Seq(Observed)
  BY DEF EngineOK
<1>2. CASE obss = <<>>
  <2>1. past \o <<>> = past
    BY <1>1, ConcatEmpty
  <2>2. Produced(e, obss) = e
    BY <1>2 DEF Produced
  <2> QED
    BY <1>2, <2>1, <2>2, Zenon
<1>3. ASSUME NEW obs \in Observed, obss = <<obs>>
      PROVE  EngineOK(Produced(e, obss), past \o obss)
  <2>1. <<obs>> # <<>> /\ Head(<<obs>>) = obs
    OBVIOUS
  <2>2. past \o <<obs>> = Append(past, obs)
    BY <1>1
  <2>3. Produced(e, obss) = produce(e, obs)
    BY <1>3, <2>1 DEF Produced
  <2>4. EngineOK(produce(e, obs), Append(past, obs))
    BY ProduceOK
  <2> QED
    BY <1>3, <2>2, <2>3, <2>4, Zenon
<1> QED
  BY <1>2, <1>3

\* subscribe: the gap-fill counts what the history still has.
LEMMA SubscribeOK ==
  ASSUME NEW e, NEW past, EngineOK(e, past), NEW since \in Nat, NEW filter \in SUBSET Facts
  PROVE  EngineOK(subscribe(e, since, filter), past)
<1> DEFINE sub == Subscriber(filter, since, e.next_seq)
           fresh == since_seq(e.history, since)
           new == replay_from_history(sub, e.history, since)
           subs == e.subscribers
           n == Len(subs)
           s2 == Append(subs, new)
           x == subscribe(e, since, filter)
<1>1. /\ past \in Seq(Observed) /\ e \in Engine
      /\ e.next_seq = Len(past) /\ e.history = LastOf(past, HistoryCap)
      /\ \A i \in 1..n : SubscriberOK(subs[i], past)
  BY DEF EngineOK
<1>2. subs \in Seq(Subscribers) /\ n \in Nat /\ e.history \in Seq(Observed) /\ e.next_seq \in Nat
  BY <1>1 DEF Engine
<1>3. <<>> \in Seq(Observed) /\ Len(<<>>) = 0
  OBVIOUS
<1>4. /\ sub \in Subscribers /\ sub.queue = <<>> /\ sub.taken = 0 /\ sub.dropped = 0
      /\ sub.from = Len(past) /\ sub.since = since
  <2> DEFINE q == <<>>
             m == -1
             k == e.next_seq
  <2>1. m \in Int /\ k \in Nat /\ k = Len(past) /\ q \in Seq(Observed)
    BY <1>1, <1>2, <1>3
  <2>2. sub = [last_seq |-> m, queue |-> q, filter |-> filter, dropped |-> 0,
               live |-> TRUE, since |-> since, from |-> k, taken |-> 0]
    BY DEF Subscriber, Unseen
  <2> HIDE DEF q, m, k, sub
  <2>3. /\ sub \in Subscribers /\ sub.queue = q /\ sub.taken = 0 /\ sub.dropped = 0
        /\ sub.from = k /\ sub.since = since
    BY <2>1, <2>2 DEF Subscribers
  <2> QED
    BY <2>1, <2>3 DEF q
<1> HIDE DEF sub
<1>5. Counted(sub, <<>>)
  <2>1. LastOf(<<>>, 0) = <<>>
    BY <1>3 DEF LastOf
  <2>2. 0 <= QueueCap /\ 0 = 0 + 0 + 0
    BY CapsPositive
  <2> QED
    BY <1>3, <1>4, <2>1, <2>2 DEF Counted
<1>6. fresh \in Seq(Observed)
  BY <1>2, OnlyType DEF since_seq
<1>7. new = Pushes(sub, fresh)[Len(fresh)]
  BY DEF replay_from_history
<1> HIDE DEF fresh, new
<1>8. Counted(new, Only(fresh, Kept(sub))) /\ SameView(new, sub)
  BY <1>4, <1>5, <1>6, <1>7, PushesCount
<1>9. Offer(new, past) = Only(fresh, Kept(sub))
  <2>1. Offer(new, past) = Offer(sub, past)
    BY <1>8, SameOffer
  <2>2. SubSeq(past, 1, sub.from) = past
    BY <1>1, <1>4, WholePrefix
  <2>3. Old(sub, past) = fresh
    BY <1>1, <1>4, <2>2, Zenon DEF Old, fresh
  <2>4. New(sub, past) = <<>>
    <3> DEFINE k == Len(past)
    <3>1. k \in Nat
      BY <1>1, LenProperties
    <3> HIDE DEF k
    <3>2. k + 1 \in Int /\ k \in Int /\ k < k + 1
      BY <3>1
    <3>3. SubSeq(past, k + 1, k) = <<>>
      BY <3>2, SubSeqEmpty
    <3> QED
      BY <1>4, <3>3, Zenon DEF New, k
  <2>5. fresh \o <<>> = fresh
    BY <1>6, ConcatEmpty
  <2> QED
    BY <2>1, <2>3, <2>4, <2>5, Zenon DEF Offer
<1>10. SubscriberOK(new, past) /\ new \in Subscribers
  <2>1. Counted(new, Offer(new, past))
    BY <1>8, <1>9
  <2>2. new \in Subscribers /\ new.from = Len(past)
    BY <1>4, <1>8 DEF Counted, SameView
  <2>3. Len(past) \in 0..Len(past)
    BY <1>1, LenProperties
  <2> QED
    BY <2>1, <2>2, <2>3 DEF SubscriberOK
<1> HIDE DEF subs, n
<1>11. /\ s2 \in Seq(Subscribers) /\ Len(s2) = n + 1 /\ s2[n + 1] = new
       /\ \A i \in 1..n : s2[i] = subs[i]
  BY <1>2, <1>10, AppendProperties DEF n
<1>12. x = [e EXCEPT !.subscribers = s2]
  BY DEF subscribe, s2, subs, new, sub
<1> HIDE DEF x, s2
<1>13. /\ x \in Engine /\ x.next_seq = e.next_seq /\ x.history = e.history
       /\ x.subscribers = s2
  BY <1>1, <1>11, <1>12 DEF Engine
<1>14. \A i \in 1..(n + 1) : SubscriberOK(s2[i], past)
  <2>1. \A i \in 1..(n + 1) : i \in 1..n \/ i = n + 1
    BY <1>2
  <2> QED
    BY <1>1, <1>10, <1>11, <2>1
<1>15. EngineOK(x, past)
  BY <1>1, <1>11, <1>13, <1>14 DEF EngineOK
<1> QED
  BY <1>15 DEF x

\* A call on one subscriber.
LEMMA OneSubscriber ==
  ASSUME NEW e, NEW past, EngineOK(e, past), NEW id \in 1..Len(e.subscribers), NEW y,
         SubscriberOK(y, past)
  PROVE  EngineOK([e EXCEPT !.subscribers[id] = y], past)
<1> DEFINE subs == e.subscribers
           n == Len(subs)
           s2 == [subs EXCEPT ![id] = y]
           x == [e EXCEPT !.subscribers[id] = y]
<1>1. /\ past \in Seq(Observed) /\ e \in Engine
      /\ e.next_seq = Len(past) /\ e.history = LastOf(past, HistoryCap)
      /\ \A i \in 1..n : SubscriberOK(subs[i], past)
  BY DEF EngineOK
<1>2. subs \in Seq(Subscribers) /\ n \in Nat
  BY <1>1 DEF Engine
<1>3. y \in Subscribers
  BY DEF SubscriberOK
<1>4. /\ s2 \in Seq(Subscribers) /\ Len(s2) = n
      /\ \A i \in 1..n : s2[i] = IF i = id THEN y ELSE subs[i]
  BY <1>2, <1>3, ExceptSeq
<1>5. x = [e EXCEPT !.subscribers = s2]
  BY <1>1 DEF Engine
<1> HIDE DEF x, s2
<1>6. /\ x \in Engine /\ x.next_seq = e.next_seq /\ x.history = e.history
      /\ x.subscribers = s2
  BY <1>1, <1>4, <1>5 DEF Engine
<1>7. \A i \in 1..n : SubscriberOK(s2[i], past)
  BY <1>1, <1>4
<1> HIDE DEF n, subs
<1>8. EngineOK(x, past)
  BY <1>1, <1>4, <1>6, <1>7 DEF EngineOK
<1> QED
  BY <1>8 DEF x

\* poll: one from the queue to the taken ones.
LEMMA PollOK ==
  ASSUME NEW past \in Seq(Observed), NEW sub, SubscriberOK(sub, past), sub.queue # <<>>
  PROVE  SubscriberOK(poll(sub), past)
<1> DEFINE q == sub.queue
           q2 == Tail(q)
           n == Len(q)
           t2 == sub.taken + 1
           h == Head(q).seq
           x == poll(sub)
<1>1. /\ sub \in Subscribers /\ sub.from \in 0..Len(past)
      /\ sub.live => Counted(sub, Offer(sub, past))
  BY DEF SubscriberOK
<1>2. q \in Seq(Observed) /\ sub.taken \in Nat /\ sub.dropped \in Nat
  BY <1>1 DEF Subscribers
<1>3. n \in Nat \ {0}
  BY <1>2
<1>4. Head(q) \in Observed /\ q2 \in Seq(Observed) /\ Len(q2) = n - 1
  BY <1>2, HeadTailProperties
<1>5. h \in Int /\ t2 \in Nat
  <2>1. h \in Nat
    BY <1>4 DEF Observed
  <2> QED
    BY <1>2, <2>1
<1>6. x = [sub EXCEPT !.queue = q2, !.last_seq = h, !.taken = t2]
  BY DEF poll
<1> HIDE DEF x, q2, h, t2
<1>7. /\ x \in Subscribers /\ x.queue = q2 /\ x.taken = t2 /\ x.dropped = sub.dropped
      /\ x.from = sub.from /\ x.live = sub.live /\ x.since = sub.since /\ x.filter = sub.filter
  BY <1>1, <1>4, <1>5, <1>6 DEF Subscribers
<1>8. ASSUME x.live PROVE Counted(x, Offer(x, past))
  <2> DEFINE all == Offer(sub, past)
  <2>1. Offer(x, past) = all
    BY <1>7, SameOffer DEF SameView
  <2>2. /\ all \in Seq(Observed) /\ n <= QueueCap /\ q = LastOf(all, n)
        /\ Len(all) = sub.taken + sub.dropped + n
    BY <1>1, <1>7, <1>8 DEF Counted
  <2> HIDE DEF all, q, n
  <2>3. Len(all) \in Nat /\ n <= Len(all) /\ QueueCap \in Nat
    BY <1>2, <1>3, <2>2, CapsPositive, LenProperties
  <2>4. q2 = LastOf(all, n - 1)
    <3>1. Tail(LastOf(all, n)) = LastOf(all, n - 1)
      BY <1>3, <2>2, <2>3, LastOfShorter
    <3> QED
      BY <2>2, <3>1 DEF q2
  <2>5. n - 1 <= QueueCap
    BY <1>3, <2>2, <2>3
  <2>6. Len(all) = t2 + sub.dropped + (n - 1)
    <3>1. \A a, b, c, d \in Nat : a = b + c + d => a = (b + 1) + c + (d - 1)
      OBVIOUS
    <3> QED
      BY <1>2, <1>3, <2>2, <2>3, <3>1 DEF t2
  <2>7. Counted(x, all)
    BY <1>4, <1>7, <2>2, <2>4, <2>5, <2>6, Zenon DEF Counted
  <2> QED
    BY <2>1, <2>7
<1>9. SubscriberOK(x, past)
  BY <1>1, <1>7, <1>8 DEF SubscriberOK
<1> QED
  BY <1>9 DEF x

\* unsubscribe: the others keep their counts.
LEMMA UnsubscribeOK ==
  ASSUME NEW e, NEW past, EngineOK(e, past), NEW id \in 1..Len(e.subscribers)
  PROVE  EngineOK(unsubscribe(e, id), past)
<1> DEFINE sub == e.subscribers[id]
           q2 == <<>>
           y == [sub EXCEPT !.queue = q2, !.live = FALSE]
           x == unsubscribe(e, id)
<1>1. e \in Engine /\ SubscriberOK(sub, past)
  BY DEF EngineOK
<1>2. sub \in Subscribers /\ sub.from \in 0..Len(past)
  BY <1>1 DEF SubscriberOK
<1>3. q2 \in Seq(Observed)
  OBVIOUS
<1> HIDE DEF q2
<1>4. y \in Subscribers /\ y.from = sub.from /\ y.live = FALSE
  BY <1>2, <1>3 DEF Subscribers
<1>5. SubscriberOK(y, past)
  <2> HIDE DEF y
  <2> QED
    BY <1>2, <1>4 DEF SubscriberOK
<1>6. x = [e EXCEPT !.subscribers[id] = y]
  <2>1. e.subscribers \in Seq(Subscribers)
    BY <1>1 DEF Engine
  <2> QED
    BY <1>1, <1>2, <2>1 DEF unsubscribe, Engine, Subscribers, q2
<1>7. EngineOK([e EXCEPT !.subscribers[id] = y], past)
  <2> HIDE DEF y
  <2> QED
    BY <1>5, OneSubscriber
<1> QED
  BY <1>6, <1>7

-----------------------------------------------------------------------------
(* Suffixes.                                                               *)

\* The reverse of a sequence, by its elements.
LEMMA ReverseFacts ==
  ASSUME NEW A, NEW s \in Seq(A)
  PROVE  /\ Reverse(s) \in Seq(A) /\ Len(Reverse(s)) = Len(s)
         /\ \A i \in 1..Len(s) : Reverse(s)[i] = s[(Len(s) - i) + 1]
<1> DEFINE n == Len(s)
           r == Reverse(s)
<1>1. n \in Nat /\ \A i \in 1..n : s[i] \in A
  BY LenProperties, ElementOfSeq
<1>2. r = [i \in 1..n |-> s[(n - i) + 1]]
  BY DEF Reverse
<1> HIDE DEF n, r
<1>3. \A i \in 1..n : (n - i) + 1 \in 1..n
  BY <1>1
<1>4. \A i \in 1..n : s[(n - i) + 1] \in A
  BY <1>1, <1>3
<1>5. r \in Seq(A) /\ Len(r) = n
  BY <1>1, <1>2, <1>4
<1>6. \A i \in 1..n : r[i] = s[(n - i) + 1]
  BY <1>2
<1> QED
  BY <1>5, <1>6 DEF n, r

\* The second part of a concatenation is a suffix of it.
LEMMA SuffixOfConcat ==
  ASSUME NEW A, NEW u \in Seq(A), NEW v \in Seq(A)
  PROVE  IsSuffix(v, u \o v)
<1> DEFINE w == u \o v
           k == Len(u)
           n == Len(v)
           r == Reverse(v)
           q == Reverse(w)
           p == SubSeq(q, 1, n)
<1>1. /\ k \in Nat /\ n \in Nat /\ w \in Seq(A) /\ Len(w) = k + n
      /\ \A i \in 1..n : w[k + i] = v[i]
  <2>1. k \in Nat /\ n \in Nat
    BY LenProperties
  <2>2. w \in Seq(A) /\ Len(w) = k + n
        /\ \A i \in 1..(k + n) : w[i] = IF i <= k THEN u[i] ELSE v[i - k]
    BY ConcatProperties
  <2> HIDE DEF w, k, n
  <2>3. \A i \in 1..n : k + i \in 1..(k + n) /\ ~(k + i <= k) /\ (k + i) - k = i
    BY <2>1
  <2> QED
    BY <2>1, <2>2, <2>3
<1>2. r \in Seq(A) /\ Len(r) = n /\ \A i \in 1..n : r[i] = v[(n - i) + 1]
  BY ReverseFacts
<1> HIDE DEF w, k, n, r
<1>3. q \in Seq(A) /\ Len(q) = k + n /\ \A i \in 1..(k + n) : q[i] = w[((k + n) - i) + 1]
  <2>1. q \in Seq(A) /\ Len(q) = Len(w) /\ \A i \in 1..Len(w) : q[i] = w[(Len(w) - i) + 1]
    BY <1>1, ReverseFacts
  <2> HIDE DEF q
  <2> QED
    BY <1>1, <2>1
<1> HIDE DEF q
<1>4. p \in Seq(A) /\ Len(p) = n /\ \A i \in 1..n : p[i] = q[i]
  <2>1. \A i \in 1..n : i \in 1..(k + n)
    BY <1>1
  <2>2. \A i \in 1..n : q[i] \in A
    BY <1>3, <2>1, ElementOfSeq
  <2>3. /\ p \in Seq(A) /\ Len(p) = (IF 1 <= n THEN n - 1 + 1 ELSE 0)
        /\ \A i \in 1..(n - 1 + 1) : p[i] = q[1 + i - 1]
    BY <1>1, <2>2, SubSeqProperties
  <2> HIDE DEF p
  <2> QED
    BY <1>1, <2>3
<1> HIDE DEF p
<1>5. ASSUME NEW i \in 1..n PROVE p[i] = r[i]
  <2> DEFINE j == (n - i) + 1
  <2>1. i \in 1..(k + n) /\ j \in 1..n /\ ((k + n) - i) + 1 = k + j
    BY <1>1
  <2>2. p[i] = w[k + j]
    BY <1>3, <1>4, <2>1
  <2>3. w[k + j] = v[j]
    BY <1>1, <2>1
  <2> QED
    BY <1>2, <2>2, <2>3
<1>6. p = r
  BY <1>2, <1>4, <1>5, SeqEqual
<1>7. SubSeq(r, 1, n) = r
  BY <1>2, SubSeqFull
<1>8. n <= k + n
  BY <1>1
<1>9. IsPrefix(r, q)
  <2>1. Len(r) <= Len(q)
    BY <1>2, <1>3, <1>8
  <2>2. SubSeq(r, 1, Len(r)) = SubSeq(q, 1, Len(r))
    BY <1>2, <1>6, <1>7, Zenon DEF p
  <2> QED
    BY <2>1, <2>2, Zenon DEF IsPrefix
<1> QED
  BY <1>9, Zenon DEF IsSuffix, r, q, w

-----------------------------------------------------------------------------
(* Counting the applies.                                                   *)

AppliesOf(att, n) == IF n \in DOMAIN att THEN att[n] ELSE 0

\* att and, for the names of N, more[n] on top.
WithMore(att, N, more) == [n \in DOMAIN att \cup N |-> AppliesOf(att, n) + more[n]]

\* The attempts after a batch, name by name.
LEMMA MoreApplies ==
  ASSUME NEW att \in Attempts, NEW N \in SUBSET STRING, NEW more \in [STRING -> Nat],
         \A n \in STRING \ N : more[n] = 0
  PROVE  /\ WithMore(att, N, more) \in Attempts
         /\ \A n \in STRING :
              /\ AppliesOf(att, n) \in Nat
              /\ AppliesOf(WithMore(att, N, more), n) = AppliesOf(att, n) + more[n]
<1> DEFINE att2 == WithMore(att, N, more)
<1>1. PICK D \in SUBSET STRING : att \in [D -> Nat]
  BY DEF Attempts
<1>2. \A n \in STRING : AppliesOf(att, n) \in Nat
  BY <1>1 DEF AppliesOf
<1>3. att2 \in [D \cup N -> Nat] /\ D \cup N \in SUBSET STRING
  <2>1. DOMAIN att = D
    BY <1>1
  <2>2. D \cup N \subseteq STRING
    OBVIOUS
  <2>3. ASSUME NEW n \in D \cup N PROVE AppliesOf(att, n) + more[n] \in Nat
    <3>1. n \in STRING
      BY <2>2
    <3>2. AppliesOf(att, n) \in Nat /\ more[n] \in Nat
      BY <1>2, <3>1
    <3>3. \A x, y \in Nat : x + y \in Nat
      OBVIOUS
    <3> QED
      BY <3>2, <3>3, Zenon
  <2>4. att2 = [n \in D \cup N |-> AppliesOf(att, n) + more[n]]
    BY <2>1 DEF WithMore
  <2> HIDE DEF att2
  <2> QED
    BY <2>2, <2>3, <2>4
<1>4. att2 \in Attempts
  BY <1>3 DEF Attempts
<1>5. ASSUME NEW n \in STRING
      PROVE  AppliesOf(att2, n) = AppliesOf(att, n) + more[n]
  <2>1. CASE n \in D \cup N
    <3>1. n \in DOMAIN att2 /\ att2[n] = AppliesOf(att, n) + more[n]
      BY <1>1, <2>1 DEF WithMore
    <3> QED
      BY <3>1 DEF AppliesOf
  <2>2. CASE n \notin D \cup N
    <3>1. n \notin DOMAIN att2 /\ n \notin DOMAIN att /\ more[n] = 0
      BY <1>1, <2>2 DEF WithMore
    <3> QED
      BY <3>1 DEF AppliesOf
  <2> QED
    BY <2>1, <2>2
<1> QED
  BY <1>2, <1>4, <1>5

\* Count adds one apply to the name of one action.
LEMMA CountFacts ==
  ASSUME attempts \in Attempts, NEW b \in Action, Count(b)
  PROVE  /\ attempts' \in Attempts
         /\ \A m \in Message :
              /\ AppliesOf(attempts, m.name) \in Nat
              /\ AppliesOf(attempts', m.name) = AppliesOf(attempts, m.name) + Uses(b, m)
<1> DEFINE more == [n \in STRING |-> IF n = b.name THEN 1 ELSE 0]
           N == {b.name}
<1>1. b.name \in STRING
  BY DEF Action
<1>2. N \in SUBSET STRING /\ more \in [STRING -> Nat] /\ \A n \in STRING \ N : more[n] = 0
  BY <1>1
<1>3. PICK D \in SUBSET STRING : attempts \in [D -> Nat]
  BY DEF Attempts
<1>4. attempts' = WithMore(attempts, N, more)
  <2>1. \A n \in DOMAIN attempts \cup N : more[n] = IF n = b.name THEN 1 ELSE 0
    BY <1>1, <1>3
  <2> HIDE DEF more
  <2> QED
    BY <2>1 DEF Count, AppliesOf, WithMore
<1>5. \A m \in Message : m.name \in STRING /\ more[m.name] = Uses(b, m)
  BY DEF Message, Uses
<1> HIDE DEF more, N
<1>6. /\ attempts' \in Attempts
      /\ \A n \in STRING : /\ AppliesOf(attempts, n) \in Nat
                           /\ AppliesOf(attempts', n) = AppliesOf(attempts, n) + more[n]
  BY <1>2, <1>4, MoreApplies
<1> QED
  BY <1>5, <1>6

\* ApplyMany adds one for each action that has an outcome.
LEMMA CountManyFacts ==
  ASSUME attempts \in Attempts, NEW acts \in Seq(Action), NEW k \in 0..Len(acts),
         attempts' = [n \in DOMAIN attempts \cup {a.name : a \in Range(acts)} |->
            (IF n \in DOMAIN attempts THEN attempts[n] ELSE 0)
              + Len(Only(SubSeq(acts, 1, k), {a \in Range(acts) : a.name = n}))]
  PROVE  /\ attempts' \in Attempts
         /\ \A m \in Message :
              /\ AppliesOf(attempts, m.name) \in Nat
              /\ AppliesOf(attempts', m.name) =
                   AppliesOf(attempts, m.name) + Applies(SubSeq(acts, 1, k), m)
<1> DEFINE R == Range(acts)
           N == {a.name : a \in R}
           p == SubSeq(acts, 1, k)
           Of(n) == {a \in R : a.name = n}
           more == [n \in STRING |-> Len(Only(p, Of(n)))]
<1>1. acts \in Seq(R) /\ R \subseteq Action
  BY SeqOfRange, RangeOfSeq
<1> HIDE DEF R
<1>2. N \in SUBSET STRING
  BY <1>1 DEF Action
<1>3. p \in Seq(R) /\ p \in Seq(Action)
  BY <1>1, CutSequence
<1>4. \A i \in 1..Len(p) : p[i] \in R
  BY <1>3, ElementOfSeq
<1> HIDE DEF p
<1>5. ASSUME NEW n \in STRING
      PROVE  /\ Len(Only(p, Of(n))) \in Nat
             /\ n \notin N => Len(Only(p, Of(n))) = 0
             /\ Only(p, Of(n)) = Only(p, {b \in Action : b.name = n})
  <2>1. Only(p, Of(n)) \in Seq(Action)
    BY <1>3, OnlyType
  <2>2. Len(Only(p, Of(n))) \in Nat
    BY <2>1, LenProperties
  <2>3. ASSUME n \notin N PROVE Len(Only(p, Of(n))) = 0
    <3>1. \A i \in 1..Len(p) : p[i] \notin Of(n)
      BY <1>4, <2>3
    <3> HIDE DEF Of
    <3>2. Only(p, Of(n)) = <<>>
      BY <1>3, <3>1, OnlyKeeps
    <3> QED
      BY <3>2
  <2>4. \A i \in 1..Len(p) : p[i] \in Of(n) <=> p[i] \in {b \in Action : b.name = n}
    BY <1>1, <1>4
  <2>5. Only(p, Of(n)) = Only(p, {b \in Action : b.name = n})
    BY <1>3, <2>4, OnlySame
  <2> QED
    BY <2>2, <2>3, <2>5
<1>6. more \in [STRING -> Nat] /\ \A n \in STRING \ N : more[n] = 0
  <2> HIDE DEF Of, N
  <2> QED
    BY <1>5
<1>7. PICK D \in SUBSET STRING : attempts \in [D -> Nat]
  BY DEF Attempts
<1>8. attempts' = WithMore(attempts, N, more)
  <2>1. attempts' = [n \in DOMAIN attempts \cup N |-> AppliesOf(attempts, n) + Len(Only(p, Of(n)))]
    BY DEF AppliesOf, R, p
  <2> HIDE DEF N, Of
  <2>2. \A n \in DOMAIN attempts \cup N : more[n] = Len(Only(p, Of(n)))
    BY <1>2, <1>7
  <2> HIDE DEF more
  <2> QED
    BY <2>1, <2>2 DEF WithMore
<1>9. \A m \in Message : m.name \in STRING /\ more[m.name] = Applies(p, m)
  <2> HIDE DEF Of, N
  <2>1. \A m \in Message : m.name \in STRING
    BY DEF Message
  <2> QED
    BY <1>5, <2>1 DEF Applies
<1> HIDE DEF more, N, Of
<1> DEFINE w == WithMore(attempts, N, more)
<1>10. /\ w \in Attempts
       /\ \A n \in STRING : /\ AppliesOf(attempts, n) \in Nat
                            /\ AppliesOf(w, n) = AppliesOf(attempts, n) + more[n]
  BY <1>2, <1>6, MoreApplies, Zenon
<1> QED
  BY <1>8, <1>9, <1>10 DEF p

-----------------------------------------------------------------------------
(* The invariant.                                                          *)

Outs == {"none", "WaitBeforeTimeout", "ActionRefused", "VerifyAfterMismatch",
         "Cancelled", "Ok", "Matched", "Timeout", "StreamClosed"}
RunRecord == [plan : Plan, results : Seq(BOOLEAN), landed : Nat, final_obs : Observed,
              handle : Nat, p : Waits \cup {NoPredicate}, expired : BOOLEAN, late : Nat,
              outcome : Outs]
Calls == [acts : Seq(Action), outcomes : Seq(Outcomes)]

\* The types that the other parts rest on.
PlanTyped ==
  /\ link \in Link /\ attempts \in Attempts /\ last \in Calls /\ run \in RunRecord
  /\ feed \in Seq(Observed) /\ captures \in Nat /\ next_handle \in Nat

\* The phone has no message more often than the applies of its action allow.
AllFit == \A m \in Message : Fits(link, m, AppliesOf(attempts, m.name))

\* A plan is running.
InPlan == pc \in {"register", "wait", "execute", "verify", "final"}

\* Where the plan stands.
PlanAt ==
  /\ InPlan => Len(run.results) <= Len(run.plan.steps)
  /\ pc = "final" <=> InPlan /\ Len(run.results) = Len(run.plan.steps)
  /\ pc = "verify" => last.acts = <<CurrentStep.action>> /\ Len(last.outcomes) = 1

\* The actions of the first k steps.
FirstActions(plan, k) == [i \in 1..k |-> plan.steps[i].action]

\* w ends with v.
Ends(w, v) == \E u \in Seq(Message) : w = u \o v

\* k steps have been played, one after the other, and nothing is left over.
Played(l, plan, k) ==
  /\ Ends(Everything(l), ActionMsgs(FirstActions(plan, k)))
  /\ k > 0 => l.buf = <<>>

\* What the steps so far have put on the wire.
PlanPlayed ==
  /\ (InPlan /\ pc # "verify" /\ AllLanded(run)) => Played(link, run.plan, Len(run.results))
  /\ (pc = "verify" /\ AllLanded(run) /\ ~Failed(last.outcomes))
       => Played(link, run.plan, Len(run.results) + 1)

(***************************************************************************)
(* The argument.  AllFit is CopiesBounded for the buffer as well: what a   *)
(* failed write repeats is in the buffer, and there only once per apply.   *)
(* PlanAt and PlanPlayed say where a running plan is and that its steps so *)
(* far, if all of them landed, end what the phone has received or will;    *)
(* after the first step they leave nothing in the buffer, because a step   *)
(* lands only with its flush.  EngineOK ties every queue to what was       *)
(* produced.                                                               *)
(***************************************************************************)
PlanInv ==
  /\ PlanTyped
  /\ EngineOK(obs_stream, produced)
  /\ WaitEndsAtDeadline
  /\ CleanCallDelivered
  /\ AllFit
  /\ PlanAt
  /\ PlanPlayed

\* One step more of a plan.
LEMMA FirstActionsFacts ==
  ASSUME NEW plan \in Plan, NEW k \in Nat, k < Len(plan.steps)
  PROVE  /\ FirstActions(plan, k) \in Seq(Action) /\ Len(FirstActions(plan, k)) = k
         /\ plan.steps[k + 1] \in PlanStep /\ plan.steps[k + 1].action \in Action
         /\ FirstActions(plan, k + 1) = Append(FirstActions(plan, k), plan.steps[k + 1].action)
         /\ FirstActions(plan, 0) = <<>>
<1> DEFINE n == Len(plan.steps)
           b == plan.steps[k + 1].action
           q == FirstActions(plan, k)
           r == FirstActions(plan, k + 1)
           v == Append(q, b)
<1>1. n \in Nat /\ \A i \in 1..n : plan.steps[i] \in PlanStep
  BY DEF Plan
<1>2. \A i \in 1..n : plan.steps[i].action \in Action
  BY <1>1 DEF PlanStep
<1>3. k + 1 \in 1..n /\ \A i \in 1..(k + 1) : i \in 1..n /\ (i \in 1..k \/ i = k + 1)
  BY <1>1
<1>4. b \in Action /\ plan.steps[k + 1] \in PlanStep
  BY <1>1, <1>2, <1>3
<1>5. q \in Seq(Action) /\ Len(q) = k /\ \A i \in 1..k : q[i] = plan.steps[i].action
  <2>1. \A i \in 1..k : i \in 1..n
    BY <1>1
  <2>2. \A i \in 1..k : plan.steps[i].action \in Action
    BY <1>2, <2>1
  <2>3. q = [i \in 1..k |-> plan.steps[i].action]
    BY DEF FirstActions
  <2> HIDE DEF q
  <2> QED
    BY <2>2, <2>3
<1>6. r \in Seq(Action) /\ Len(r) = k + 1 /\ \A i \in 1..(k + 1) : r[i] = plan.steps[i].action
  <2>1. \A i \in 1..(k + 1) : plan.steps[i].action \in Action
    BY <1>2, <1>3
  <2>2. r = [i \in 1..(k + 1) |-> plan.steps[i].action]
    BY DEF FirstActions
  <2> HIDE DEF r
  <2> QED
    BY <2>1, <2>2
<1> HIDE DEF q, r, b
<1>7. v \in Seq(Action) /\ Len(v) = k + 1 /\ v[k + 1] = b /\ \A i \in 1..k : v[i] = q[i]
  BY <1>4, <1>5, AppendProperties
<1> HIDE DEF v
<1>8. \A i \in 1..(k + 1) : r[i] = v[i]
  BY <1>3, <1>5, <1>6, <1>7 DEF b
<1>9. r = v
  BY <1>6, <1>7, <1>8, SeqEqual
<1>10. FirstActions(plan, 0) = <<>>
  BY DEF FirstActions
<1> QED
  BY <1>4, <1>5, <1>9, <1>10 DEF b, q, r, v

\* A plan that starts has played its first zero steps.
LEMMA NothingPlayed ==
  ASSUME NEW l \in Link, NEW plan \in Plan
  PROVE  Played(l, plan, 0)
<1>1. FirstActions(plan, 0) = <<>>
  BY DEF FirstActions
<1>2. ActionMsgs(<<>>) = <<>>
  BY NoActionMsgs
<1>3. Everything(l) \in Seq(Message)
  BY DEF Everything, Link
<1>4. Everything(l) = Everything(l) \o <<>>
  BY <1>3, ConcatEmpty
<1>5. Ends(Everything(l), ActionMsgs(FirstActions(plan, 0)))
  BY <1>1, <1>2, <1>3, <1>4, Zenon DEF Ends
<1>6. ~(0 > 0)
  OBVIOUS
<1> QED
  BY <1>5, <1>6, Zenon DEF Played

\* A step more.
LEMMA PlayedMore ==
  ASSUME NEW l \in Link, NEW plan \in Plan, NEW k \in Nat, k < Len(plan.steps),
         Played(l, plan, k), NEW x \in Link, x.buf = <<>>,
         Everything(x) = Everything(l) \o Msgs(plan.steps[k + 1].action)
  PROVE  Played(x, plan, k + 1)
<1> DEFINE b == plan.steps[k + 1].action
           f == FirstActions(plan, k)
           e == Msgs(b)
           a == ActionMsgs(f)
<1>1. /\ f \in Seq(Action) /\ b \in Action
      /\ FirstActions(plan, k + 1) = Append(f, b)
  BY FirstActionsFacts
<1> HIDE DEF f, b
<1>2. a \in Seq(Message) /\ ActionMsgs(Append(f, b)) = a \o e /\ e \in Seq(Message)
  BY <1>1, ActionMsgsFacts, MsgsFacts
<1> HIDE DEF a, e
<1>3. PICK u \in Seq(Message) : Everything(l) = u \o a
  BY DEF Played, Ends, a, f
<1>4. (u \o a) \o e = u \o (a \o e)
  <2>1. \A x1, x2, x3 \in Seq(Message) : Assoc(x1, x2, x3)
    BY ConcatAssocAll
  <2>2. Assoc(u, a, e)
    BY <1>2, <1>3, <2>1, Zenon
  <2> QED
    BY <2>2, Zenon DEF Assoc
<1>5. Everything(x) = u \o ActionMsgs(FirstActions(plan, k + 1))
  BY <1>1, <1>2, <1>3, <1>4, Zenon DEF e, b
<1>6. Ends(Everything(x), ActionMsgs(FirstActions(plan, k + 1)))
  BY <1>5, Zenon DEF Ends
<1> QED
  BY <1>6, Zenon DEF Played

\* The head of the loop goes to final, to a wait or to the action.
LEMMA LoopFacts ==
  ASSUME NEW r, NEW n \in Nat, NEW k \in Nat, n = Len(r.plan.steps), k = Len(r.results), k <= n
  PROVE  /\ Loop(r) \in {"register", "execute", "final"}
         /\ Loop(r) = "final" <=> k = n
<1>1. CASE k = n
  BY <1>1 DEF Loop
<1>2. CASE k < n
  BY <1>2 DEF Loop
<1> QED
  BY <1>1, <1>2

\* All of the steps landed if the last and all before it did.
LEMMA LandedMore ==
  ASSUME NEW rs \in Seq(BOOLEAN), NEW b \in BOOLEAN
  PROVE  /\ Append(rs, b) \in Seq(BOOLEAN) /\ Len(Append(rs, b)) = Len(rs) + 1
         /\ (\A i \in DOMAIN Append(rs, b) : Append(rs, b)[i]) => b /\ \A i \in DOMAIN rs : rs[i]
<1> DEFINE t == Append(rs, b)
           n == Len(rs)
<1>1. /\ n \in Nat /\ DOMAIN rs = 1..n /\ t \in Seq(BOOLEAN) /\ Len(t) = n + 1
      /\ DOMAIN t = 1..(n + 1) /\ t[n + 1] = b /\ \A i \in 1..n : t[i] = rs[i]
  BY AppendProperties, LenProperties
<1>2. n + 1 \in 1..(n + 1) /\ \A i \in 1..n : i \in 1..(n + 1)
  BY <1>1
<1> HIDE DEF t, n
<1>3. (\A i \in DOMAIN t : t[i]) => b /\ \A i \in DOMAIN rs : rs[i]
  BY <1>1, <1>2, Zenon
<1> QED
  BY <1>1, <1>3 DEF t, n

-----------------------------------------------------------------------------
(* It holds at first.                                                      *)

\* Before the first apply.
LEMMA NoAttemptsFacts ==
  /\ NoAttempts \in Attempts /\ \A n : AppliesOf(NoAttempts, n) = 0
  /\ Blank \in Observed
<1>1. NoAttempts \in [{} -> Nat] /\ DOMAIN NoAttempts = {}
  BY DEF NoAttempts
<1>2. NoAttempts \in Attempts
  BY <1>1 DEF Attempts
<1>3. \A n : AppliesOf(NoAttempts, n) = 0
  BY <1>1 DEF AppliesOf
<1> QED
  BY <1>2, <1>3 DEF Blank, Observed

\* Before the first plan.
LEMMA NoRunFacts ==
  /\ NoRun \in RunRecord /\ NoRun.results = <<>> /\ NoRun.late = 0
<1> DEFINE e == <<>>
           pl == [steps |-> e, abort_on_error |-> FALSE, checkpoint_every |-> 0]
<1>1. e \in Seq(PlanStep) /\ e \in Seq(BOOLEAN) /\ e = <<>>
  OBVIOUS
<1>2. "none" \in Outs
  BY DEF Outs
<1>3. NoPredicate \in Waits \cup {NoPredicate}
  OBVIOUS
<1>4. NoRun = [plan |-> pl, results |-> e, landed |-> 0, final_obs |-> Blank, handle |-> 0,
               p |-> NoPredicate, expired |-> FALSE, late |-> 0, outcome |-> "none"]
  BY DEF NoRun
<1> HIDE DEF e
<1>5. pl \in Plan
  BY <1>1 DEF Plan
<1> HIDE DEF pl
<1> QED
  BY <1>1, <1>2, <1>3, <1>4, <1>5, NoAttemptsFacts DEF RunRecord

\* The executor as it is created.
LEMMA PlanInitInv == PlanInit => PlanInv
<1> SUFFICES ASSUME PlanInit PROVE PlanInv
  OBVIOUS
<1> DEFINE e == <<>>
<1>1. /\ e \in Seq(Message) /\ e \in Seq(Observed) /\ e \in Seq(Action)
      /\ e \in Seq(Outcomes) /\ e \in Seq(Subscribers) /\ Len(e) = 0 /\ e = <<>>
  OBVIOUS
<1>2. /\ link = [buf |-> e, wire |-> e, faults |-> 0, ok |-> TRUE]
      /\ last = [acts |-> e, outcomes |-> e] /\ last = NoCall
      /\ obs_stream = [next_seq |-> 0, history |-> e, subscribers |-> e]
      /\ produced = e /\ feed = e /\ attempts = NoAttempts /\ run = NoRun /\ pc = "idle"
      /\ captures = 0 /\ next_handle = 0
  BY DEF PlanInit, NewLink, NoCall, NewStreamEngine
<1> HIDE DEF e
<1>3. link \in Link /\ link.buf = e /\ link.wire = e
  BY <1>1, <1>2 DEF Link
<1>4. PlanTyped
  BY <1>1, <1>2, <1>3, NoAttemptsFacts, NoRunFacts DEF PlanTyped, Calls
<1>5. EngineOK(obs_stream, produced)
  <2>1. LastOf(e, HistoryCap) = e
    BY <1>1, CapsPositive DEF LastOf
  <2>2. obs_stream \in Engine
    BY <1>1, <1>2 DEF Engine
  <2> QED
    BY <1>1, <1>2, <2>1, <2>2 DEF EngineOK
<1>6. WaitEndsAtDeadline
  BY <1>2, NoRunFacts DEF WaitEndsAtDeadline
<1>7. CleanCallDelivered
  BY <1>2 DEF CleanCallDelivered
<1>8. AllFit
  <2> SUFFICES ASSUME NEW m \in Message PROVE Fits(link, m, AppliesOf(attempts, m.name))
    BY DEF AllFit
  <2>1. AppliesOf(attempts, m.name) = 0
    BY <1>2, NoAttemptsFacts
  <2>2. Copies(link.buf, m) = 0 /\ Copies(link.wire, m) = 0
    BY <1>1, <1>3, CopiesOfNone
  <2>3. 0 <= 0 * (1 + link.faults) /\ 0 + 0 = 0
    BY <1>3 DEF Link
  <2> QED
    BY <2>1, <2>2, <2>3 DEF Fits
<1>9. PlanAt /\ PlanPlayed
  BY <1>2 DEF PlanAt, PlanPlayed, InPlan
<1> QED
  BY <1>4, <1>5, <1>6, <1>7, <1>8, <1>9 DEF PlanInv

-----------------------------------------------------------------------------
(* What a step leaves alone.                                               *)

\* What does not touch the bridge keeps what is said of it.
LEMMA BridgeFrame ==
  ASSUME CleanCallDelivered, AllFit, UNCHANGED bridge
  PROVE  CleanCallDelivered' /\ AllFit'
  BY DEF CleanCallDelivered, AllFit, bridge

\* The same for the stream.
LEMMA StreamFrame ==
  ASSUME EngineOK(obs_stream, produced), UNCHANGED <<obs_stream, produced>>
  PROVE  EngineOK(obs_stream, produced)'
  BY DEF EngineOK

\* The same for the plan.
LEMMA PlanFrame ==
  ASSUME PlanAt, PlanPlayed, UNCHANGED <<link, last, pc, run>>
  PROVE  PlanAt' /\ PlanPlayed'
  BY DEF PlanAt, PlanPlayed, InPlan, AllLanded, CurrentStep, Index

\* No plan runs.
LEMMA IdleFrame ==
  ASSUME pc' \in {"idle", "wait_for"}
  PROVE  PlanAt' /\ PlanPlayed'
  BY DEF PlanAt, PlanPlayed, InPlan

\* The plan waits.
LEMMA WaitFrame ==
  ASSUME PlanAt, PlanPlayed, link' = link,
         pc \in {"register", "wait"}, pc' \in {"wait", "execute"},
         run'.plan = run.plan, run'.results = run.results
  PROVE  PlanAt' /\ PlanPlayed'
<1>1. InPlan /\ InPlan' /\ pc # "verify" /\ pc # "final" /\ pc' # "verify" /\ pc' # "final"
  BY DEF InPlan
<1>2. AllLanded(run)' <=> AllLanded(run)
  BY DEF AllLanded
<1>3. PlanAt'
  BY <1>1 DEF PlanAt
<1>4. AllLanded(run) => Played(link, run.plan, Len(run.results))
  BY <1>1 DEF PlanPlayed
<1>5. PlanPlayed'
  BY <1>1, <1>2, <1>4 DEF PlanPlayed
<1> QED
  BY <1>3, <1>5

\* What is at the head of the feed is an observation.
LEMMA HeadTyped ==
  ASSUME feed \in Seq(Observed), feed # <<>>
  PROVE  Head(feed) \in Observed /\ Tail(feed) \in Seq(Observed)
  BY HeadTailProperties

-----------------------------------------------------------------------------
(* The actions.                                                            *)

\* The phone is observed.
LEMMA CaptureInv ==
  ASSUME PlanInv, Capture
  PROVE  PlanInv'
<1>1. PlanTyped'
  <2>1. PICK f \in Facts :
          feed' = Append(feed, [seq |-> captures', events |-> {f}, after |-> attempts])
    BY DEF Capture
  <2> DEFINE o == [seq |-> captures', events |-> {f}, after |-> attempts]
  <2>2. captures' \in Nat /\ attempts \in Attempts /\ feed \in Seq(Observed)
    BY DEF PlanInv, PlanTyped, Capture
  <2>3. o \in Observed
    BY <2>2 DEF Observed
  <2> HIDE DEF o
  <2>4. feed' \in Seq(Observed)
    <3>1. feed' = Append(feed, o)
      BY <2>1 DEF o
    <3> QED
      BY <2>2, <2>3, <3>1, AppendProperties
  <2> QED
    BY <2>2, <2>4 DEF PlanInv, PlanTyped, Capture, engines
<1>2. EngineOK(obs_stream, produced)'
  BY StreamFrame DEF PlanInv, Capture, engines
<1>3. WaitEndsAtDeadline'
  BY DEF PlanInv, WaitEndsAtDeadline, Capture
<1>4. CleanCallDelivered' /\ AllFit'
  BY BridgeFrame DEF PlanInv, Capture, bridge
<1>5. PlanAt' /\ PlanPlayed'
  BY PlanFrame DEF PlanInv, Capture
<1> QED
  BY <1>1, <1>2, <1>3, <1>4, <1>5 DEF PlanInv

\* A plan is handed over between two calls: nothing of it is played.
LEMMA StartPlanInv ==
  ASSUME PlanInv, NEW plan \in Plans, StartPlan(plan)
  PROVE  PlanInv'
<1>1. plan \in Plan
  BY HostAssumption
<1>2. /\ run' = [NoRun EXCEPT !.plan = plan] /\ pc' = Loop(run')
      /\ UNCHANGED <<bridge, engines, feed, captures>>
  BY DEF StartPlan
<1>3. /\ run' \in RunRecord /\ run'.plan = plan /\ run'.results = <<>> /\ run'.late = 0
  <2> DEFINE x == NoRun
  <2>1. x \in RunRecord /\ x.results = <<>> /\ x.late = 0
    BY NoRunFacts
  <2>2. run' = [x EXCEPT !.plan = plan]
    BY <1>2
  <2> HIDE DEF x
  <2> QED
    BY <1>1, <2>1, <2>2 DEF RunRecord
<1>4. /\ pc' \in {"register", "execute", "final"}
      /\ pc' = "final" <=> 0 = Len(plan.steps)
      /\ Len(plan.steps) \in Nat
  <2>1. Len(plan.steps) \in Nat /\ 0 \in Nat /\ 0 <= Len(plan.steps) /\ 0 = Len(run'.results)
    BY <1>1, <1>3 DEF Plan
  <2> DEFINE r == run'
             n == Len(plan.steps)
             k == Len(r.results)
  <2>2. n \in Nat /\ k \in Nat /\ n = Len(r.plan.steps) /\ k = Len(r.results) /\ k <= n /\ k = 0
    BY <1>3, <2>1
  <2> HIDE DEF r, n, k
  <2>3. /\ Loop(r) \in {"register", "execute", "final"}
        /\ Loop(r) = "final" <=> k = n
    BY <2>2, LoopFacts
  <2> QED
    BY <1>2, <2>1, <2>2, <2>3 DEF r, n
<1>5. PlanTyped'
  BY <1>2, <1>3 DEF PlanInv, PlanTyped, bridge, engines
<1>6. EngineOK(obs_stream, produced)'
  BY <1>2, StreamFrame DEF PlanInv, engines
<1>7. WaitEndsAtDeadline'
  BY <1>3, <1>4 DEF WaitEndsAtDeadline
<1>8. CleanCallDelivered' /\ AllFit'
  BY <1>2, BridgeFrame DEF PlanInv
<1>9. PlanAt'
  <2>1. Len(run'.results) = 0 /\ Len(run'.plan.steps) = Len(plan.steps)
    BY <1>3
  <2> QED
    BY <1>4, <2>1 DEF PlanAt, InPlan
<1>10. PlanPlayed'
  <2>1. Played(link, plan, 0)
    BY <1>1, NothingPlayed DEF PlanInv, PlanTyped
  <2>2. link' = link /\ Len(run'.results) = 0
    BY <1>2, <1>3 DEF bridge
  <2>3. pc' # "verify"
    BY <1>4
  <2>4. Played(link', run'.plan, Len(run'.results))
    BY <1>3, <2>1, <2>2
  <2> QED
    BY <2>3, <2>4 DEF PlanPlayed
<1> QED
  BY <1>5, <1>6, <1>7, <1>8, <1>9, <1>10 DEF PlanInv

\* The predicate of wait_before is registered; nothing is sent.
LEMMA WaitBeforeInv ==
  ASSUME PlanInv, WaitBefore
  PROVE  PlanInv'
<1>1. /\ pc = "register" /\ pc' = "wait" /\ run' = [run EXCEPT !.handle = next_handle]
      /\ next_handle' = next_handle + 1
      /\ UNCHANGED <<bridge, obs_stream, produced, feed, captures>>
  BY DEF WaitBefore, register
<1>2. run \in RunRecord /\ next_handle \in Nat /\ next_handle' \in Nat
  BY <1>1 DEF PlanInv, PlanTyped
<1>3. /\ run' \in RunRecord /\ run'.plan = run.plan /\ run'.results = run.results
      /\ run'.late = run.late
  BY <1>1, <1>2 DEF RunRecord
<1>4. PlanTyped'
  BY <1>1, <1>2, <1>3 DEF PlanInv, PlanTyped, bridge
<1>5. EngineOK(obs_stream, produced)'
  BY <1>1, StreamFrame DEF PlanInv
<1>6. WaitEndsAtDeadline'
  BY <1>1, <1>3 DEF PlanInv, WaitEndsAtDeadline
<1>7. CleanCallDelivered' /\ AllFit'
  BY <1>1, BridgeFrame DEF PlanInv
<1>8. PlanAt' /\ PlanPlayed'
  BY <1>1, <1>3, WaitFrame DEF PlanInv, bridge
<1> QED
  BY <1>4, <1>5, <1>6, <1>7, <1>8 DEF PlanInv

\* An observation of the wait: the step goes on or the plan ends.
LEMMA WaitingInv ==
  ASSUME PlanInv, Waiting
  PROVE  PlanInv'
<1>1. /\ pc = "wait" /\ pc' \in {"wait", "execute"} /\ feed # <<>> /\ feed' = Tail(feed)
      /\ obs_stream' = produce(obs_stream, Head(feed)) /\ produced' = Append(produced, Head(feed))
      /\ next_handle' = next_handle
      /\ UNCHANGED <<bridge, run, captures>>
  BY DEF Waiting, ProduceObs, cancel
<1>2. Head(feed) \in Observed /\ Tail(feed) \in Seq(Observed)
  BY <1>1, HeadTyped DEF PlanInv, PlanTyped
<1>3. PlanTyped'
  BY <1>1, <1>2 DEF PlanInv, PlanTyped, bridge
<1>4. EngineOK(obs_stream, produced)'
  <2>1. EngineOK(produce(obs_stream, Head(feed)), Append(produced, Head(feed)))
    BY <1>2, ProduceOK DEF PlanInv
  <2> QED
    BY <1>1, <2>1
<1>5. WaitEndsAtDeadline'
  BY <1>1 DEF PlanInv, WaitEndsAtDeadline
<1>6. CleanCallDelivered' /\ AllFit'
  BY <1>1, BridgeFrame DEF PlanInv
<1>7. PlanAt' /\ PlanPlayed'
  BY <1>1, WaitFrame DEF PlanInv, bridge
<1> QED
  BY <1>3, <1>4, <1>5, <1>6, <1>7 DEF PlanInv

\* A call that ends without having produced anything.
LEMMA ReturnInv ==
  ASSUME PlanInv, NEW out \in Outs, Return(out), next_handle' = next_handle,
         UNCHANGED <<bridge, obs_stream, produced, feed, captures>>
  PROVE  PlanInv'
<1>1. pc' = "idle" /\ run' = [run EXCEPT !.outcome = out]
  BY DEF Return
<1>2. run \in RunRecord
  BY DEF PlanInv, PlanTyped
<1>3. run' \in RunRecord /\ run'.late = run.late
  BY <1>1, <1>2 DEF RunRecord
<1>4. PlanTyped'
  BY <1>3 DEF PlanInv, PlanTyped, bridge
<1>5. EngineOK(obs_stream, produced)'
  BY StreamFrame DEF PlanInv
<1>6. WaitEndsAtDeadline'
  BY <1>1, <1>3 DEF PlanInv, WaitEndsAtDeadline
<1>7. CleanCallDelivered' /\ AllFit'
  BY BridgeFrame DEF PlanInv
<1>8. PlanAt' /\ PlanPlayed'
  BY <1>1, IdleFrame
<1> QED
  BY <1>4, <1>5, <1>6, <1>7, <1>8 DEF PlanInv

\* The feed ends during the wait.
LEMMA WaitClosedInv ==
  ASSUME PlanInv, WaitClosed
  PROVE  PlanInv'
<1>1. "WaitBeforeTimeout" \in Outs
  BY DEF Outs
<1> QED
  BY <1>1, ReturnInv DEF WaitClosed, cancel

\* And during a wait_for.
LEMMA WaitForClosedInv ==
  ASSUME PlanInv, WaitForClosed
  PROVE  PlanInv'
<1>1. "StreamClosed" \in Outs
  BY DEF Outs
<1> QED
  BY <1>1, ReturnInv DEF WaitForClosed, cancel

\* The messages of a batch of one.
LEMMA OneAction ==
  ASSUME NEW b \in Action
  PROVE  /\ <<b>> \in Seq(Action) /\ ActionMsgs(<<b>>) = Msgs(b) /\ Msgs(b) \in Seq(Message)
<1>1. <<>> \in Seq(Action) /\ Append(<<>>, b) = <<b>> /\ <<b>> \in Seq(Action)
  OBVIOUS
<1>2. Msgs(b) \in Seq(Message)
  BY MsgsFacts
<1>3. ActionMsgs(<<>>) = <<>> /\ ActionMsgs(Append(<<>>, b)) = ActionMsgs(<<>>) \o Msgs(b)
  BY <1>1, ActionMsgsFacts, NoActionMsgs
<1>4. <<>> \o Msgs(b) = Msgs(b)
  BY <1>2, ConcatEmpty
<1>5. ActionMsgs(<<b>>) = Msgs(b)
  BY <1>1, <1>3, <1>4, Zenon
<1> QED
  BY <1>1, <1>2, <1>5

\* The outcome of a batch of one.
LEMMA OneOutcome ==
  ASSUME NEW o \in Outcomes
  PROVE  /\ <<o>> \in Seq(Outcomes) /\ Len(<<o>>) = 1 /\ <<o>>[1] = o
         /\ Failed(<<o>>) <=> ~o.landed
<1>1. <<o>> \in Seq(Outcomes) /\ Len(<<o>>) = 1 /\ <<o>>[1] = o /\ DOMAIN <<o>> = {1}
  OBVIOUS
<1> QED
  BY <1>1 DEF Failed

\* A call of the bridge, as the history variable keeps it.
LEMMA CallRecord ==
  ASSUME NEW c \in Seq(Action), NEW os \in Seq(Outcomes)
  PROVE  /\ [acts |-> c, outcomes |-> os].acts = c /\ [acts |-> c, outcomes |-> os].outcomes = os
         /\ [acts |-> c, outcomes |-> os] \in Calls
  BY DEF Calls

\* The bridge applies one action.
LEMMA BridgeCall ==
  ASSUME PlanTyped, AllFit, NEW b \in Action, NEW r \in apply(link, b, 0),
         link' = r.link, last' = [acts |-> <<b>>, outcomes |-> <<r.outcome>>], Count(b)
  PROVE  /\ link' \in Link /\ attempts' \in Attempts /\ last' \in Calls
         /\ CleanCallDelivered' /\ AllFit'
         /\ last'.acts = <<b>> /\ Len(last'.outcomes) = 1
         /\ ~Failed(last'.outcomes)
              => link'.buf = <<>> /\ Everything(link') = Everything(link) \o Msgs(b)
<1> DEFINE o == r.outcome
           e == Msgs(b)
           os == <<o>>
           c == <<b>>
<1>1. link \in Link /\ attempts \in Attempts
  BY DEF PlanTyped
<1>2. Applied(r, link, b, 0)
  BY <1>1, ApplyFacts
<1>3. o \in Outcomes /\ link' \in Link
  BY <1>2 DEF Applied
<1>4. os \in Seq(Outcomes) /\ Len(os) = 1 /\ (Failed(os) <=> ~o.landed)
  BY <1>3, OneOutcome
<1>5. c \in Seq(Action) /\ ActionMsgs(c) = e /\ e \in Seq(Message)
  BY OneAction
<1>6. last' = [acts |-> c, outcomes |-> os]
  OBVIOUS
<1> HIDE DEF os, c
<1>7. last'.acts = c /\ last'.outcomes = os /\ last' \in Calls
  <2> DEFINE w == [acts |-> c, outcomes |-> os]
  <2>1. w.acts = c /\ w.outcomes = os /\ w \in Calls
    BY <1>4, <1>5, CallRecord
  <2>2. last' = w
    BY <1>6
  <2> HIDE DEF w
  <2> QED
    BY <2>1, <2>2, Zenon
<1>8. ASSUME ~Failed(os)
      PROVE  link'.buf = <<>> /\ Everything(link') = Everything(link) \o e
  <2>1. o.landed
    BY <1>4, <1>8
  <2> QED
    BY <1>2, <2>1 DEF Applied
<1>9. CleanCallDelivered'
  <2> SUFFICES ASSUME ~Failed(os)
               PROVE  link'.buf = <<>> /\ IsSuffix(ActionMsgs(c), link'.wire)
    BY <1>7 DEF CleanCallDelivered
  <2>1. link'.buf = <<>> /\ Everything(link') = Everything(link) \o e
    BY <1>8
  <2>2. link'.wire \o <<>> = link'.wire /\ Everything(link) \in Seq(Message)
    <3>1. link'.wire \in Seq(Message) /\ link.wire \in Seq(Message) /\ link.buf \in Seq(Message)
      BY <1>1, <1>3 DEF Link
    <3> QED
      BY <3>1, ConcatEmpty, ConcatProperties DEF Everything
  <2>3. link'.wire = Everything(link) \o e
    BY <2>1, <2>2, Zenon DEF Everything
  <2>4. IsSuffix(e, Everything(link) \o e)
    BY <1>5, <2>2, SuffixOfConcat
  <2> QED
    BY <1>5, <2>1, <2>3, <2>4, Zenon
<1>10. attempts' \in Attempts
       /\ \A m \in Message :
            /\ AppliesOf(attempts, m.name) \in Nat
            /\ AppliesOf(attempts', m.name) = AppliesOf(attempts, m.name) + Uses(b, m)
  BY <1>1, CountFacts
<1>11. AllFit'
  <2> SUFFICES ASSUME NEW m \in Message
               PROVE  Fits(link', m, AppliesOf(attempts', m.name))
    BY DEF AllFit
  <2>1. Fits(link, m, AppliesOf(attempts, m.name))
    BY DEF AllFit
  <2>2. Fits(link', m, AppliesOf(attempts, m.name) + Uses(b, m))
    BY <1>2, <1>10, <2>1 DEF Applied
  <2> QED
    BY <1>10, <2>2
<1> QED
  BY <1>3, <1>4, <1>7, <1>8, <1>9, <1>10, <1>11 DEF c

\* The action of a step: clean, it follows the steps before it.
LEMMA ExecuteStepInv ==
  ASSUME PlanInv, ExecuteStep
  PROVE  PlanInv'
<1> DEFINE k == Len(run.results)
           n == Len(run.plan.steps)
           b == CurrentStep.action
<1>1. /\ pc = "execute" /\ pc' = "verify" /\ Count(b)
      /\ UNCHANGED <<engines, feed, captures, run>>
  BY DEF ExecuteStep
<1>2. PICK r \in apply(link, b, 0) :
        link' = r.link /\ last' = [acts |-> <<b>>, outcomes |-> <<r.outcome>>]
  BY DEF ExecuteStep
<1>3. PlanTyped /\ AllFit /\ run \in RunRecord /\ run.plan \in Plan /\ run.results \in Seq(BOOLEAN)
  BY DEF PlanInv, PlanTyped, RunRecord
<1>4. k \in Nat /\ n \in Nat /\ k < n
  <2>1. k \in Nat /\ n \in Nat
    BY <1>3 DEF Plan
  <2>2. k <= n /\ k # n
    BY <1>1 DEF PlanInv, PlanAt, InPlan
  <2> HIDE DEF k, n
  <2> QED
    BY <2>1, <2>2
<1>5. b = run.plan.steps[k + 1].action /\ b \in Action
  BY <1>3, <1>4, FirstActionsFacts DEF CurrentStep, Index
<1> HIDE DEF b
<1>6. /\ link' \in Link /\ attempts' \in Attempts /\ last' \in Calls
      /\ CleanCallDelivered' /\ AllFit'
      /\ last'.acts = <<b>> /\ Len(last'.outcomes) = 1
      /\ ~Failed(last'.outcomes)
           => link'.buf = <<>> /\ Everything(link') = Everything(link) \o Msgs(b)
  BY <1>1, <1>2, <1>3, <1>5, BridgeCall
<1>7. PlanTyped'
  BY <1>1, <1>3, <1>6 DEF PlanTyped, engines
<1>8. EngineOK(obs_stream, produced)'
  BY <1>1, StreamFrame DEF PlanInv, engines
<1>9. WaitEndsAtDeadline'
  BY <1>1 DEF PlanInv, WaitEndsAtDeadline
<1>10. PlanAt'
  <2>1. run' = run /\ last'.acts = <<CurrentStep'.action>>
    BY <1>1, <1>6 DEF CurrentStep, Index, b
  <2>2. k <= n /\ k # n
    BY <1>4
  <2> QED
    BY <1>1, <1>6, <2>1, <2>2 DEF PlanAt, InPlan
<1>11. PlanPlayed'
  <2> SUFFICES ASSUME AllLanded(run'), ~Failed(last'.outcomes)
               PROVE  Played(link', run'.plan, Len(run'.results) + 1)
    BY <1>1 DEF PlanPlayed
  <2>1. run' = run /\ link \in Link
    BY <1>1, <1>3 DEF PlanTyped
  <2>2. Played(link, run.plan, k)
    BY <1>1, <2>1 DEF PlanInv, PlanPlayed, InPlan
  <2>3. link'.buf = <<>> /\ Everything(link') = Everything(link) \o Msgs(run.plan.steps[k + 1].action)
    BY <1>5, <1>6
  <2>4. Played(link', run.plan, k + 1)
    BY <1>3, <1>4, <1>6, <2>1, <2>2, <2>3, PlayedMore
  <2> QED
    BY <2>1, <2>4
<1> QED
  BY <1>6, <1>7, <1>8, <1>9, <1>10, <1>11 DEF PlanInv

\* An action the policy refuses never reaches the bridge.
LEMMA RefuseStepInv ==
  ASSUME PlanInv, RefuseStep
  PROVE  PlanInv'
<1>1. /\ pc = "execute" /\ UNCHANGED <<bridge, engines, feed, captures>>
  BY DEF RefuseStep
<1>2. CASE run.plan.abort_on_error
  <2>1. Return("ActionRefused") /\ "ActionRefused" \in Outs
    BY <1>2 DEF RefuseStep, Outs
  <2> QED
    BY <1>1, <2>1, ReturnInv DEF engines
<1>3. CASE ~run.plan.abort_on_error
  <2> DEFINE rs == run.results
             r2 == Append(rs, FALSE)
             k == Len(rs)
             n == Len(run.plan.steps)
  <2>1. run' = [run EXCEPT !.results = r2] /\ pc' = Loop(run')
    BY <1>3 DEF RefuseStep
  <2>2. run \in RunRecord /\ rs \in Seq(BOOLEAN) /\ run.plan \in Plan
    BY DEF PlanInv, PlanTyped, RunRecord
  <2>3. k \in Nat /\ n \in Nat /\ k < n
    <3>1. k \in Nat /\ n \in Nat
      BY <2>2 DEF Plan
    <3>2. k <= n /\ k # n
      BY <1>1 DEF PlanInv, PlanAt, InPlan
    <3> HIDE DEF k, n
    <3> QED
      BY <3>1, <3>2
  <2>4. /\ r2 \in Seq(BOOLEAN) /\ Len(r2) = k + 1 /\ ~(\A i \in DOMAIN r2 : r2[i])
    BY <2>2, LandedMore
  <2> HIDE DEF r2
  <2>5. /\ run' \in RunRecord /\ run'.plan = run.plan /\ run'.results = r2 /\ run'.late = run.late
    BY <2>1, <2>2, <2>4 DEF RunRecord
  <2> DEFINE x == run'
             j == k + 1
  <2>6. x.plan = run.plan /\ x.results = r2 /\ pc' = Loop(x)
    BY <2>1, <2>5
  <2>7. j \in Nat /\ j <= n
    BY <2>3
  <2> HIDE DEF x, k
  <2>8. Len(x.plan.steps) = n /\ Len(x.results) = j
    BY <2>4, <2>6
  <2>9. pc' \in {"register", "execute", "final"} /\ (pc' = "final" <=> j = n)
    <3> HIDE DEF j, n
    <3> QED
      BY <2>3, <2>6, <2>7, <2>8, LoopFacts
  <2>10. PlanTyped'
    BY <1>1, <2>5 DEF PlanInv, PlanTyped, bridge, engines
  <2>11. EngineOK(obs_stream, produced)'
    BY <1>1, StreamFrame DEF PlanInv, engines
  <2>12. WaitEndsAtDeadline'
    BY <2>5, <2>9 DEF PlanInv, WaitEndsAtDeadline
  <2>13. CleanCallDelivered' /\ AllFit'
    BY <1>1, BridgeFrame DEF PlanInv
  <2>14. PlanAt'
    BY <2>7, <2>8, <2>9 DEF PlanAt, InPlan, x
  <2>15. PlanPlayed'
    <3>1. ~AllLanded(run')
      BY <2>4, <2>5 DEF AllLanded
    <3> QED
      BY <2>9, <3>1 DEF PlanPlayed
  <2> QED
    BY <2>10, <2>11, <2>12, <2>13, <2>14, <2>15 DEF PlanInv
<1> QED
  BY <1>2, <1>3

\* The drained observation and the checkpoint, one after the other.
LEMMA ProduceBothOK ==
  ASSUME EngineOK(obs_stream, produced), feed \in Seq(Observed), NEW checkpoint,
         checkpoint = <<>> \/ \E o \in Observed : checkpoint = <<o>>,
         ProduceBoth(Drained, checkpoint)
  PROVE  EngineOK(obs_stream, produced)'
<1> DEFINE d == Drained
           e == Produced(obs_stream, d)
           l == produced \o d
<1>1. d = <<>> \/ \E o \in Observed : d = <<o>>
  <2>1. CASE feed = <<>>
    BY <2>1 DEF Drained
  <2>2. CASE feed # <<>>
    BY <2>2, HeadTyped DEF Drained
  <2> QED
    BY <2>1, <2>2
<1>2. obs_stream' = Produced(e, checkpoint) /\ produced' = l \o checkpoint
  BY DEF ProduceBoth
<1> HIDE DEF d
<1>3. EngineOK(e, l)
  BY <1>1, ProducedOK
<1> HIDE DEF e, l
<1>4. EngineOK(Produced(e, checkpoint), l \o checkpoint)
  BY <1>3, ProducedOK
<1> QED
  BY <1>2, <1>4

\* What the step drained and what is left of the feed.
LEMMA DrainTyped ==
  ASSUME feed \in Seq(Observed), feed' = IF feed = <<>> THEN feed ELSE Tail(feed)
  PROVE  feed' \in Seq(Observed)
  BY HeadTyped

\* A call that ends after it may have produced something.
LEMMA EndInv ==
  ASSUME PlanInv, EngineOK(obs_stream, produced)', feed' \in Seq(Observed),
         next_handle' \in Nat, run' \in RunRecord, run'.late <= 1, pc' = "idle",
         UNCHANGED <<bridge, captures>>
  PROVE  PlanInv'
<1>1. PlanTyped'
  BY DEF PlanInv, PlanTyped, bridge
<1>2. WaitEndsAtDeadline'
  BY DEF WaitEndsAtDeadline
<1>3. CleanCallDelivered' /\ AllFit'
  BY BridgeFrame DEF PlanInv
<1>4. PlanAt' /\ PlanPlayed'
  BY IdleFrame
<1> QED
  BY <1>1, <1>2, <1>3, <1>4 DEF PlanInv

\* The plan returns; the bridge and the stream stay.
LEMMA PlanDoneInv ==
  ASSUME PlanInv, PlanDone
  PROVE  PlanInv'
<1>1. /\ feed' = IF feed = <<>> THEN feed ELSE Tail(feed)
      /\ ProduceBoth(Drained, <<>>) /\ Return("Ok")
      /\ next_handle' = next_handle /\ UNCHANGED <<bridge, captures>>
  BY DEF PlanDone
<1>2. /\ feed \in Seq(Observed) /\ run \in RunRecord /\ next_handle \in Nat
      /\ EngineOK(obs_stream, produced) /\ run.late <= 1
  BY DEF PlanInv, PlanTyped, WaitEndsAtDeadline
<1>3. EngineOK(obs_stream, produced)'
  BY <1>1, <1>2, ProduceBothOK
<1>4. feed' \in Seq(Observed)
  BY <1>1, <1>2, DrainTyped
<1>5. run' \in RunRecord /\ run'.late = run.late /\ pc' = "idle"
  <2>1. "Ok" \in Outs
    BY DEF Outs
  <2> QED
    BY <1>1, <1>2, <2>1 DEF Return, RunRecord
<1> QED
  BY <1>1, <1>2, <1>3, <1>4, <1>5, EndInv

\* The record of a step, field by field.
LEMMA RecordedFacts ==
  ASSUME NEW r \in RunRecord, NEW landed \in BOOLEAN, NEW obs \in Observed
  PROVE  /\ Recorded(r, landed, obs) \in RunRecord
         /\ Recorded(r, landed, obs).plan = r.plan
         /\ Recorded(r, landed, obs).results = Append(r.results, landed)
         /\ Recorded(r, landed, obs).final_obs = obs
         /\ Recorded(r, landed, obs).late = r.late
<1> DEFINE rs == Append(r.results, landed)
           n == IF landed THEN r.landed + 1 ELSE r.landed
           x == Recorded(r, landed, obs)
<1>1. rs \in Seq(BOOLEAN) /\ n \in Nat
  BY LandedMore DEF RunRecord
<1>2. x = [r EXCEPT !.results = rs, !.landed = n, !.final_obs = obs]
  BY DEF Recorded
<1> HIDE DEF rs, n, x
<1>3. x \in RunRecord /\ x.plan = r.plan /\ x.results = rs /\ x.final_obs = obs /\ x.late = r.late
  BY <1>1, <1>2 DEF RunRecord
<1> QED
  BY <1>3 DEF x, rs

\* A checkpoint is one observation or none.
LEMMA CheckpointFacts ==
  ASSUME NEW r \in RunRecord
  PROVE  Checkpoint(r) = <<>> \/ \E o \in Observed : Checkpoint(r) = <<o>>
<1> DEFINE f == r.final_obs
           ev == f.events \cup {"PlanCompleted"}
           o == [f EXCEPT !.events = ev]
<1>1. f \in Observed
  BY DEF RunRecord
<1>2. ev \in SUBSET (Facts \cup {"PlanCompleted"})
  BY <1>1 DEF Observed
<1> HIDE DEF f, ev
<1>3. o \in Observed
  BY <1>1, <1>2 DEF Observed
<1>4. Checkpoint(r) = IF CheckpointNow(r) THEN <<o>> ELSE <<>>
  BY DEF Checkpoint, o, ev, f
<1> HIDE DEF o
<1> QED
  BY <1>3, <1>4

\* The step is recorded: landed, it is one more of those played.
LEMMA VerifyStepInv ==
  ASSUME PlanInv, VerifyStep
  PROVE  PlanInv'
<1> DEFINE landed == last.outcomes[1].landed
           obs == IF feed = <<>> THEN run.final_obs ELSE Head(feed)
           done == Recorded(run, landed, obs)
           k == Len(run.results)
           n == Len(run.plan.steps)
           good == Verified(CurrentStep.verify_after, obs)
           stop == ~landed /\ run.plan.abort_on_error
<1>1. /\ pc = "verify" /\ feed' = (IF feed = <<>> THEN feed ELSE Tail(feed))
      /\ next_handle' \in {next_handle, next_handle + 1}
      /\ UNCHANGED <<bridge, captures>>
  BY DEF VerifyStep
<1>2. /\ ~good => ProduceBoth(Drained, <<>>) /\ Return("VerifyAfterMismatch")
      /\ good => /\ ProduceBoth(Drained, Checkpoint(done))
                 /\ stop => pc' = "idle" /\ run' = [done EXCEPT !.outcome = "Cancelled"]
                 /\ ~stop => pc' = Loop(done) /\ run' = done
  BY DEF VerifyStep
<1>3. /\ feed \in Seq(Observed) /\ run \in RunRecord /\ next_handle \in Nat
      /\ EngineOK(obs_stream, produced) /\ run.late <= 1 /\ last \in Calls /\ link \in Link
  BY DEF PlanInv, PlanTyped, WaitEndsAtDeadline
<1>4. run.results \in Seq(BOOLEAN) /\ run.plan \in Plan /\ run.final_obs \in Observed
  BY <1>3 DEF RunRecord
<1>5. landed \in BOOLEAN /\ (Failed(last.outcomes) <=> ~landed)
  <2>1. last.outcomes \in Seq(Outcomes) /\ Len(last.outcomes) = 1
    BY <1>1, <1>3 DEF PlanInv, PlanAt, Calls
  <2>2. last.outcomes[1] \in Outcomes /\ DOMAIN last.outcomes = {1}
    BY <2>1
  <2> QED
    BY <2>2 DEF Outcomes, Failed
<1>6. obs \in Observed
  BY <1>3, <1>4, HeadTyped
<1> HIDE DEF landed, obs, good, stop, done
<1>7. /\ done \in RunRecord /\ done.plan = run.plan
      /\ done.results = Append(run.results, landed) /\ done.late = run.late
  BY <1>3, <1>5, <1>6, RecordedFacts DEF done
<1>8. feed' \in Seq(Observed) /\ next_handle' \in Nat
  BY <1>1, <1>3, DrainTyped
<1>9. EngineOK(obs_stream, produced)'
  <2>1. CASE ~good
    BY <1>2, <1>3, <2>1, ProduceBothOK
  <2>2. CASE good
    <3>1. Checkpoint(done) = <<>> \/ \E o \in Observed : Checkpoint(done) = <<o>>
      BY <1>7, CheckpointFacts
    <3> QED
      BY <1>2, <1>3, <2>2, <3>1, ProduceBothOK
  <2> QED
    BY <2>1, <2>2
<1>10. CASE ~good
  <2>1. "VerifyAfterMismatch" \in Outs
    BY DEF Outs
  <2>2. run' \in RunRecord /\ run'.late = run.late /\ pc' = "idle"
    BY <1>2, <1>3, <1>10, <2>1 DEF Return, RunRecord
  <2> QED
    BY <1>1, <1>3, <1>8, <1>9, <2>2, EndInv
<1>11. CASE good /\ stop
  <2>1. "Cancelled" \in Outs
    BY DEF Outs
  <2>2. run' \in RunRecord /\ run'.late = run.late /\ pc' = "idle"
    BY <1>2, <1>7, <1>11, <2>1 DEF RunRecord
  <2> QED
    BY <1>1, <1>3, <1>8, <1>9, <2>2, EndInv
<1>12. CASE good /\ ~stop
  <2> DEFINE j == k + 1
  <2>1. pc' = Loop(done) /\ run' = done
    BY <1>2, <1>12
  <2>2. k \in Nat /\ n \in Nat /\ k < n
    <3>1. k \in Nat /\ n \in Nat
      BY <1>4 DEF Plan
    <3>2. k <= n /\ k # n
      BY <1>1 DEF PlanInv, PlanAt, InPlan
    <3> HIDE DEF k, n
    <3> QED
      BY <3>1, <3>2
  <2>3. /\ done.results \in Seq(BOOLEAN) /\ Len(done.results) = j
        /\ AllLanded(done) => landed /\ AllLanded(run)
    BY <1>4, <1>5, <1>7, LandedMore DEF AllLanded
  <2>4. Len(done.plan.steps) = n
    BY <1>7
  <2> HIDE DEF k, n
  <2>5. j \in Nat /\ j <= n
    BY <2>2
  <2>6. pc' \in {"register", "execute", "final"} /\ (pc' = "final" <=> j = n)
    <3> HIDE DEF j
    <3> QED
      BY <2>1, <2>2, <2>3, <2>4, <2>5, LoopFacts
  <2>7. PlanTyped'
    BY <1>1, <1>7, <1>8, <2>1 DEF PlanInv, PlanTyped, bridge
  <2>8. WaitEndsAtDeadline'
    BY <1>3, <1>7, <2>1, <2>6 DEF WaitEndsAtDeadline
  <2>9. CleanCallDelivered' /\ AllFit'
    BY <1>1, BridgeFrame DEF PlanInv
  <2>10. PlanAt'
    BY <2>1, <2>3, <2>4, <2>5, <2>6 DEF PlanAt, InPlan
  <2>11. PlanPlayed'
    <3> SUFFICES ASSUME AllLanded(done)
                 PROVE  Played(link', done.plan, Len(done.results))
      BY <2>1, <2>6 DEF PlanPlayed
    <3>1. AllLanded(run) /\ ~Failed(last.outcomes)
      BY <1>5, <2>3
    <3>2. Played(link, run.plan, j)
      BY <1>1, <3>1 DEF PlanInv, PlanPlayed, k
    <3> QED
      BY <1>1, <1>7, <2>3, <3>2 DEF bridge
  <2> QED
    BY <1>9, <2>7, <2>8, <2>9, <2>10, <2>11 DEF PlanInv
<1> QED
  BY <1>10, <1>11, <1>12

\* wait_for begins, not late.
LEMMA StartWaitInv ==
  ASSUME PlanInv, NEW p \in Waits, StartWait(p)
  PROVE  PlanInv'
<1>1. /\ run' = [NoRun EXCEPT !.handle = next_handle, !.p = p] /\ pc' = "wait_for"
      /\ next_handle' = next_handle + 1
      /\ UNCHANGED <<bridge, obs_stream, produced, feed, captures>>
  BY DEF StartWait, register
<1>2. next_handle \in Nat
  BY DEF PlanInv, PlanTyped
<1>3. run' \in RunRecord /\ run'.late = 0
  <2> DEFINE x == NoRun
  <2>1. x \in RunRecord /\ x.late = 0 /\ run' = [x EXCEPT !.handle = next_handle, !.p = p]
    BY <1>1, NoRunFacts
  <2> HIDE DEF x
  <2> QED
    BY <1>2, <2>1 DEF RunRecord
<1>4. PlanTyped'
  BY <1>1, <1>2, <1>3 DEF PlanInv, PlanTyped, bridge
<1>5. EngineOK(obs_stream, produced)'
  BY <1>1, StreamFrame DEF PlanInv
<1>6. WaitEndsAtDeadline'
  BY <1>3 DEF WaitEndsAtDeadline
<1>7. CleanCallDelivered' /\ AllFit'
  BY <1>1, BridgeFrame DEF PlanInv
<1>8. PlanAt' /\ PlanPlayed'
  BY <1>1, IdleFrame
<1> QED
  BY <1>4, <1>5, <1>6, <1>7, <1>8 DEF PlanInv

\* The deadline passes; nothing was looked at after it yet.
LEMMA DeadlinePassesInv ==
  ASSUME PlanInv, DeadlinePasses
  PROVE  PlanInv'
<1>1. /\ run' = [run EXCEPT !.expired = TRUE] /\ pc' = "wait_for" /\ pc = "wait_for"
      /\ UNCHANGED <<bridge, engines, feed, captures>>
  BY DEF DeadlinePasses
<1>2. run' \in RunRecord /\ run'.late = run.late
  BY <1>1 DEF PlanInv, PlanTyped, RunRecord
<1>3. PlanTyped'
  BY <1>1, <1>2 DEF PlanInv, PlanTyped, bridge, engines
<1>4. EngineOK(obs_stream, produced)'
  BY <1>1, StreamFrame DEF PlanInv, engines
<1>5. WaitEndsAtDeadline'
  BY <1>1, <1>2 DEF PlanInv, WaitEndsAtDeadline
<1>6. CleanCallDelivered' /\ AllFit'
  BY <1>1, BridgeFrame DEF PlanInv
<1>7. PlanAt' /\ PlanPlayed'
  BY <1>1, IdleFrame
<1> QED
  BY <1>3, <1>4, <1>5, <1>6, <1>7 DEF PlanInv

\* The end of a wait, field by field.
LEMMA WaitOverFacts ==
  ASSUME NEW out \in Outs, run \in RunRecord, run.late = 0, WaitOver(out)
  PROVE  /\ run' \in RunRecord /\ run'.late <= 1 /\ pc' = "idle" /\ next_handle' = next_handle
<1> DEFINE n == IF run.expired THEN run.late + 1 ELSE run.late
           x == Late(run)
<1>1. n \in Nat /\ n <= 1
  OBVIOUS
<1>2. x = [run EXCEPT !.late = n]
  BY DEF Late
<1> HIDE DEF n, x
<1>3. x \in RunRecord /\ x.late = n
  BY <1>1, <1>2 DEF RunRecord
<1>4. run' = [x EXCEPT !.outcome = out] /\ pc' = "idle" /\ next_handle' = next_handle
  BY DEF WaitOver, cancel, x
<1>5. run' \in RunRecord /\ run'.late = n
  BY <1>3, <1>4 DEF RunRecord
<1> QED
  BY <1>1, <1>4, <1>5

\* An observation of a wait_for: the first late one ends it.
LEMMA WaitForInv ==
  ASSUME PlanInv, WaitFor
  PROVE  PlanInv'
<1>1. /\ pc = "wait_for" /\ feed # <<>> /\ feed' = Tail(feed)
      /\ obs_stream' = produce(obs_stream, Head(feed)) /\ produced' = Append(produced, Head(feed))
      /\ UNCHANGED <<bridge, captures>>
      /\ \/ WaitOver("Matched") \/ WaitOver("Timeout")
         \/ UNCHANGED <<run, predicates, next_handle, pc>>
  BY DEF WaitFor, ProduceObs
<1>2. run \in RunRecord /\ run.late = 0 /\ next_handle \in Nat /\ feed \in Seq(Observed)
  BY <1>1 DEF PlanInv, PlanTyped, WaitEndsAtDeadline
<1>3. Head(feed) \in Observed /\ Tail(feed) \in Seq(Observed)
  BY <1>1, <1>2, HeadTyped
<1>4. EngineOK(obs_stream, produced)'
  <2>1. EngineOK(produce(obs_stream, Head(feed)), Append(produced, Head(feed)))
    BY <1>3, ProduceOK DEF PlanInv
  <2> QED
    BY <1>1, <2>1
<1>5. CASE WaitOver("Matched") \/ WaitOver("Timeout")
  <2>1. "Matched" \in Outs /\ "Timeout" \in Outs
    BY DEF Outs
  <2>2. /\ run' \in RunRecord /\ run'.late <= 1 /\ pc' = "idle" /\ next_handle' = next_handle
    BY <1>2, <1>5, <2>1, WaitOverFacts
  <2>3. feed' \in Seq(Observed) /\ next_handle' \in Nat
    BY <1>1, <1>2, <1>3, <2>2
  <2> QED
    BY <1>1, <1>4, <2>2, <2>3, EndInv
<1>6. CASE UNCHANGED <<run, predicates, next_handle, pc>>
  <2>1. PlanTyped'
    BY <1>1, <1>3, <1>6 DEF PlanInv, PlanTyped, bridge
  <2>2. WaitEndsAtDeadline'
    BY <1>6 DEF PlanInv, WaitEndsAtDeadline
  <2>3. CleanCallDelivered' /\ AllFit'
    BY <1>1, BridgeFrame DEF PlanInv
  <2>4. PlanAt' /\ PlanPlayed'
    BY <1>1, <1>6, IdleFrame
  <2> QED
    BY <1>4, <2>1, <2>2, <2>3, <2>4 DEF PlanInv
<1> QED
  BY <1>1, <1>5, <1>6

\* A batch of the host: what is left of it stays in the buffer.
LEMMA ApplyManyInv ==
  ASSUME PlanInv, NEW acts \in Batches, ApplyMany(acts)
  PROVE  PlanInv'
<1>1. acts \in Seq(Action)
  BY HostAssumption
<1>2. pc = "idle" /\ UNCHANGED <<engines, feed, captures, pc, run>>
  BY DEF ApplyMany
<1>3. PICK r \in apply_many(link, acts) :
        /\ link' = r.link
        /\ last' = [acts |-> acts, outcomes |-> r.outcomes]
        /\ attempts' = [n \in DOMAIN attempts \cup {a.name : a \in Range(acts)} |->
             (IF n \in DOMAIN attempts THEN attempts[n] ELSE 0)
               + Len(Only(SubSeq(acts, 1, Tried(acts, r.outcomes)),
                          {a \in Range(acts) : a.name = n}))]
  BY DEF ApplyMany
<1> DEFINE k == Tried(acts, r.outcomes)
<1>4. link \in Link /\ attempts \in Attempts /\ PlanTyped /\ AllFit
  BY DEF PlanInv, PlanTyped
<1>5. /\ r.link \in Link /\ r.outcomes \in Seq(Outcomes)
      /\ ~Failed(r.outcomes) =>
           r.link.buf = <<>> /\ r.link.wire = Everything(link) \o ActionMsgs(acts)
      /\ k \in 0..Len(acts)
      /\ \A m, a : a \in Nat /\ Fits(link, m, a)
           => Fits(r.link, m, a + Applies(SubSeq(acts, 1, k), m))
  BY <1>1, <1>4, ApplyManyFacts
<1> HIDE DEF k
<1>6. /\ attempts' \in Attempts
      /\ \A m \in Message :
           /\ AppliesOf(attempts, m.name) \in Nat
           /\ AppliesOf(attempts', m.name) =
                AppliesOf(attempts, m.name) + Applies(SubSeq(acts, 1, k), m)
  BY <1>1, <1>3, <1>4, <1>5, CountManyFacts DEF k
<1>7. last' \in Calls /\ last'.acts = acts /\ last'.outcomes = r.outcomes
  BY <1>1, <1>3, <1>5, CallRecord
<1>8. PlanTyped'
  BY <1>2, <1>3, <1>4, <1>5, <1>6, <1>7 DEF PlanTyped, engines
<1>9. EngineOK(obs_stream, produced)'
  BY <1>2, StreamFrame DEF PlanInv, engines
<1>10. WaitEndsAtDeadline'
  BY <1>2 DEF PlanInv, WaitEndsAtDeadline
<1>11. CleanCallDelivered'
  <2> SUFFICES ASSUME ~Failed(r.outcomes)
               PROVE  r.link.buf = <<>> /\ IsSuffix(ActionMsgs(acts), r.link.wire)
    BY <1>3, <1>7 DEF CleanCallDelivered
  <2>1. r.link.buf = <<>> /\ r.link.wire = Everything(link) \o ActionMsgs(acts)
    BY <1>5
  <2>2. Everything(link) \in Seq(Message) /\ ActionMsgs(acts) \in Seq(Message)
    <3>1. ActionMsgs(acts) \in Seq(Message)
      BY <1>1, ActionMsgsType
    <3> QED
      BY <1>4, <3>1, ConcatProperties DEF Everything, Link
  <2>3. IsSuffix(ActionMsgs(acts), Everything(link) \o ActionMsgs(acts))
    BY <2>2, SuffixOfConcat
  <2> QED
    BY <2>1, <2>3
<1>12. AllFit'
  <2> SUFFICES ASSUME NEW m \in Message
               PROVE  Fits(link', m, AppliesOf(attempts', m.name))
    BY DEF AllFit
  <2>1. Fits(link, m, AppliesOf(attempts, m.name))
    BY <1>4 DEF AllFit
  <2>2. Fits(link', m, AppliesOf(attempts, m.name) + Applies(SubSeq(acts, 1, k), m))
    BY <1>3, <1>5, <1>6, <2>1
  <2> QED
    BY <1>6, <2>2
<1>13. PlanAt' /\ PlanPlayed'
  BY <1>2, IdleFrame
<1> QED
  BY <1>8, <1>9, <1>10, <1>11, <1>12, <1>13 DEF PlanInv

\* The last action again: one apply more of its name.
LEMMA RetryInv ==
  ASSUME PlanInv, Retry
  PROVE  PlanInv'
<1> DEFINE b == last.acts[1]
<1>1. /\ pc = "idle" /\ Len(last.acts) = 1 /\ Count(b)
      /\ UNCHANGED <<engines, feed, captures, pc, run>>
  BY DEF Retry
<1>2. PICK r \in apply(link, b, 0) :
        link' = r.link /\ last' = [last EXCEPT !.outcomes = <<r.outcome>>]
  BY DEF Retry
<1>3. PlanTyped /\ AllFit /\ last \in Calls /\ last.acts \in Seq(Action)
  BY DEF PlanInv, PlanTyped, Calls
<1>4. b \in Action /\ last.acts = <<b>>
  BY <1>1, <1>3
<1>5. last' = [acts |-> <<b>>, outcomes |-> <<r.outcome>>]
  <2> DEFINE os == <<r.outcome>>
             c == <<b>>
  <2>1. last.acts = c /\ last' = [last EXCEPT !.outcomes = os]
    BY <1>2, <1>4
  <2> HIDE DEF os, c, b
  <2>2. last' = [acts |-> c, outcomes |-> os]
    BY <1>3, <2>1 DEF Calls
  <2> QED
    BY <2>2 DEF os, c
<1> HIDE DEF b
<1>6. /\ link' \in Link /\ attempts' \in Attempts /\ last' \in Calls
      /\ CleanCallDelivered' /\ AllFit'
  BY <1>1, <1>2, <1>3, <1>4, <1>5, BridgeCall
<1>7. PlanTyped'
  BY <1>1, <1>3, <1>6 DEF PlanTyped, engines
<1>8. EngineOK(obs_stream, produced)'
  BY <1>1, StreamFrame DEF PlanInv, engines
<1>9. WaitEndsAtDeadline'
  BY <1>1 DEF PlanInv, WaitEndsAtDeadline
<1>10. PlanAt' /\ PlanPlayed'
  BY <1>1, IdleFrame
<1> QED
  BY <1>6, <1>7, <1>8, <1>9, <1>10 DEF PlanInv

\* The host and its subscribers.
LEMMA StreamCallInv ==
  ASSUME PlanInv, EngineOK(obs_stream', produced), pc = "idle",
         UNCHANGED <<bridge, next_handle, produced, feed, captures, pc, run>>
  PROVE  PlanInv'
<1>1. PlanTyped'
  BY DEF PlanInv, PlanTyped, bridge
<1>2. EngineOK(obs_stream, produced)'
  OBVIOUS
<1>3. WaitEndsAtDeadline'
  BY DEF PlanInv, WaitEndsAtDeadline
<1>4. CleanCallDelivered' /\ AllFit'
  BY BridgeFrame DEF PlanInv
<1>5. PlanAt' /\ PlanPlayed'
  BY IdleFrame
<1> QED
  BY <1>1, <1>2, <1>3, <1>4, <1>5 DEF PlanInv

\* A subscriber joins.
LEMMA HostSubscribeInv ==
  ASSUME PlanInv, NEW f \in Facts, NEW since \in {0, 1}, HostSubscribe({f}, since)
  PROVE  PlanInv'
<1>1. EngineOK(subscribe(obs_stream, since, {f}), produced)
  <2>1. since \in Nat /\ {f} \in SUBSET Facts
    OBVIOUS
  <2> QED
    BY <2>1, SubscribeOK DEF PlanInv
<1>2. /\ obs_stream' = subscribe(obs_stream, since, {f}) /\ pc = "idle"
      /\ UNCHANGED <<bridge, next_handle, produced, feed, captures, pc, run>>
  BY DEF HostSubscribe
<1> QED
  BY <1>1, <1>2, StreamCallInv

\* A subscriber polls.
LEMMA PollInv ==
  ASSUME PlanInv, NEW id \in DOMAIN obs_stream.subscribers, Poll(id)
  PROVE  PlanInv'
<1> DEFINE e == obs_stream
           sub == e.subscribers[id]
           y == poll(sub)
<1>1. /\ pc = "idle" /\ sub.queue # <<>>
      /\ UNCHANGED <<bridge, next_handle, produced, feed, captures, pc, run>>
  BY DEF Poll
<1>2. EngineOK(e, produced) /\ e \in Engine /\ produced \in Seq(Observed)
  BY DEF PlanInv, EngineOK
<1>3. e.subscribers \in Seq(Subscribers) /\ id \in 1..Len(e.subscribers)
  BY <1>2 DEF Engine
<1>4. SubscriberOK(sub, produced)
  BY <1>2, <1>3 DEF EngineOK
<1>5. SubscriberOK(y, produced)
  BY <1>1, <1>2, <1>4, PollOK
<1>6. obs_stream' = [e EXCEPT !.subscribers[id] = y]
  BY <1>2, <1>3 DEF Poll, Engine
<1> HIDE DEF e, y
<1>7. EngineOK([e EXCEPT !.subscribers[id] = y], produced)
  BY <1>2, <1>3, <1>5, OneSubscriber
<1>8. EngineOK(obs_stream', produced)
  BY <1>6, <1>7
<1> QED
  BY <1>1, <1>8, StreamCallInv

\* A subscriber leaves.
LEMMA UnsubscribeInv ==
  ASSUME PlanInv, NEW id \in DOMAIN obs_stream.subscribers, Unsubscribe(id)
  PROVE  PlanInv'
<1>1. /\ pc = "idle" /\ obs_stream' = unsubscribe(obs_stream, id)
      /\ UNCHANGED <<bridge, next_handle, produced, feed, captures, pc, run>>
  BY DEF Unsubscribe
<1>2. EngineOK(obs_stream, produced) /\ obs_stream \in Engine
  BY DEF PlanInv, EngineOK
<1>3. id \in 1..Len(obs_stream.subscribers)
  BY <1>2 DEF Engine
<1>4. EngineOK(unsubscribe(obs_stream, id), produced)
  BY <1>2, <1>3, UnsubscribeOK
<1> QED
  BY <1>1, <1>4, StreamCallInv

\* Every step keeps the invariant.
LEMMA PlanNextInv == PlanInv /\ [PlanNext]_planVars => PlanInv'
<1> SUFFICES ASSUME PlanInv, [PlanNext]_planVars PROVE PlanInv'
  OBVIOUS
<1>1. CASE UNCHANGED planVars
  <2>1. UNCHANGED <<bridge, engines, feed, captures, pc, run>>
    BY <1>1 DEF planVars, bridge, engines
  <2>2. PlanTyped' /\ WaitEndsAtDeadline'
    BY <2>1 DEF PlanInv, PlanTyped, WaitEndsAtDeadline, bridge, engines
  <2>3. EngineOK(obs_stream, produced)'
    BY <2>1, StreamFrame DEF PlanInv, engines
  <2>4. CleanCallDelivered' /\ AllFit'
    BY <2>1, BridgeFrame DEF PlanInv
  <2>5. PlanAt' /\ PlanPlayed'
    BY <2>1, PlanFrame DEF PlanInv, bridge
  <2> QED
    BY <2>2, <2>3, <2>4, <2>5 DEF PlanInv
<1>2. CASE Capture
  BY <1>2, CaptureInv
<1>3. ASSUME NEW plan \in Plans, StartPlan(plan) PROVE PlanInv'
  BY <1>3, StartPlanInv
<1>4. CASE WaitBefore \/ Waiting \/ WaitClosed
  BY <1>4, WaitBeforeInv, WaitingInv, WaitClosedInv
<1>5. CASE ExecuteStep \/ RefuseStep \/ VerifyStep \/ PlanDone
  BY <1>5, ExecuteStepInv, RefuseStepInv, VerifyStepInv, PlanDoneInv
<1>6. ASSUME NEW p \in Waits, StartWait(p) PROVE PlanInv'
  BY <1>6, StartWaitInv
<1>7. CASE DeadlinePasses \/ WaitFor \/ WaitForClosed
  BY <1>7, DeadlinePassesInv, WaitForInv, WaitForClosedInv
<1>8. ASSUME NEW acts \in Batches, ApplyMany(acts) PROVE PlanInv'
  BY <1>8, ApplyManyInv
<1>9. CASE Retry
  BY <1>9, RetryInv
<1>10. ASSUME NEW f \in Facts, NEW since \in {0, 1}, HostSubscribe({f}, since) PROVE PlanInv'
  BY <1>10, HostSubscribeInv
<1>11. ASSUME NEW id \in DOMAIN obs_stream.subscribers, Poll(id) \/ Unsubscribe(id) PROVE PlanInv'
  BY <1>11, PollInv, UnsubscribeInv
<1> QED
  BY <1>1, <1>2, <1>3, <1>4, <1>5, <1>6, <1>7, <1>8, <1>9, <1>10, <1>11 DEF PlanNext

(* The invariant holds in every behaviour of the executor, for any plans,  *)
(* waits, batches and capacities and any number of failed writes.          *)
THEOREM PlanInvariant == PlanSpec => []PlanInv
<1>1. PlanInit => PlanInv
  BY PlanInitInv
<1>2. PlanInv /\ [PlanNext]_planVars => PlanInv'
  BY PlanNextInv
<1> QED
  BY <1>1, <1>2, PTL DEF PlanSpec

-----------------------------------------------------------------------------
(* What it says.                                                           *)

(* wait_for (predicate_wait.rs) looks at one observation after its         *)
(* deadline at most: a backlog does not keep it.                           *)
THEOREM PlanWaitEndsAtDeadline == PlanSpec => []WaitEndsAtDeadline
<1>1. PlanInv => WaitEndsAtDeadline
  BY DEF PlanInv
<1> QED
  BY <1>1, PlanInvariant, PTL

(* A call of the bridge (bridge.rs: apply, apply_many) without a failed    *)
(* outcome leaves nothing in the writer, and its messages are the last     *)
(* thing the phone received, complete and in order.                        *)
THEOREM PlanCleanCallDelivered == PlanSpec => []CleanCallDelivered
<1>1. PlanInv => CleanCallDelivered
  BY DEF PlanInv
<1> QED
  BY <1>1, PlanInvariant, PTL

(* A plan that reports all_landed (plan_executor.rs: execute) has been     *)
(* played: the last thing the phone received are its steps, each once and  *)
(* in order, with nothing in between.                                      *)
THEOREM PlanPlanDelivered == PlanSpec => []PlanDelivered
<1>1. PlanInv => PlanDelivered
  <2> SUFFICES ASSUME PlanInv, pc = "final", AllLanded(run)
               PROVE  IsSuffix(ActionMsgs([i \in DOMAIN run.plan.steps |-> run.plan.steps[i].action]),
                               link.wire)
    BY DEF PlanDelivered
  <2> DEFINE k == Len(run.results)
             f == FirstActions(run.plan, k)
  <2>1. run \in RunRecord /\ run.plan \in Plan /\ run.results \in Seq(BOOLEAN) /\ link \in Link
    BY DEF PlanInv, PlanTyped, RunRecord
  <2>2. k = Len(run.plan.steps) /\ Played(link, run.plan, k)
    BY DEF PlanInv, PlanAt, PlanPlayed, InPlan
  <2>3. DOMAIN run.plan.steps = 1..k
    BY <2>1, <2>2 DEF Plan
  <2>4. [i \in DOMAIN run.plan.steps |-> run.plan.steps[i].action] = f
    BY <2>3 DEF FirstActions
  <2>5. f \in Seq(Action)
    <3>1. run.plan.steps \in Seq(PlanStep)
      BY <2>1 DEF Plan
    <3>2. \A i \in 1..k : run.plan.steps[i].action \in Action
      <4>1. \A i \in 1..k : run.plan.steps[i] \in PlanStep
        BY <2>2, <3>1, ElementOfSeq
      <4> QED
        BY <4>1 DEF PlanStep
    <3>3. k \in Nat /\ f = [i \in 1..k |-> run.plan.steps[i].action]
      BY <2>1 DEF FirstActions
    <3> HIDE DEF f, k
    <3> QED
      BY <3>2, <3>3
  <2>6. k \in Nat
    BY <2>1
  <2> HIDE DEF k, f
  <2>7. ActionMsgs(f) \in Seq(Message)
    BY <2>5, ActionMsgsType
  <2>8. link.wire \in Seq(Message) /\ link.buf \in Seq(Message)
    BY <2>1 DEF Link
  <2>9. CASE k > 0
    <3>1. link.buf = <<>> /\ link.wire \o <<>> = link.wire
      BY <2>2, <2>8, <2>9, ConcatEmpty DEF Played
    <3>2. link.wire = Everything(link)
      BY <3>1, Zenon DEF Everything
    <3>3. PICK u \in Seq(Message) : link.wire = u \o ActionMsgs(f)
      BY <2>2, <3>2 DEF Played, Ends, f
    <3>4. IsSuffix(ActionMsgs(f), u \o ActionMsgs(f))
      BY <2>7, SuffixOfConcat
    <3> QED
      BY <2>4, <3>3, <3>4, Zenon
  <2>10. CASE k = 0
    <3>1. f = <<>>
      BY <2>10 DEF f, FirstActions
    <3>2. ActionMsgs(f) = <<>>
      BY <3>1, NoActionMsgs, Zenon
    <3>3. link.wire \o <<>> = link.wire /\ <<>> \in Seq(Message)
      BY <2>8, ConcatEmpty
    <3>4. IsSuffix(<<>>, link.wire \o <<>>)
      BY <2>8, <3>3, SuffixOfConcat
    <3> QED
      BY <2>4, <3>2, <3>3, <3>4, Zenon
  <2> QED
    BY <2>6, <2>9, <2>10
<1> QED
  BY <1>1, PlanInvariant, PTL

(* No action is on the phone more often than it was applied, times one     *)
(* more than the writes that failed (coalesce.rs: flush_now keeps the      *)
(* buffer of a failed write and repeats it whole).                         *)
THEOREM PlanCopiesBounded == PlanSpec => []CopiesBounded
<1>1. PlanInv => CopiesBounded
  <2> SUFFICES ASSUME PlanInv, NEW n \in DOMAIN attempts, NEW m \in Range(link.wire), m.name = n
               PROVE  Len(Only(link.wire, {m})) <= attempts[n] * (1 + link.faults)
    BY DEF CopiesBounded
  <2>1. link \in Link /\ attempts \in Attempts
    BY DEF PlanInv, PlanTyped
  <2>2. link.wire \in Seq(Message) /\ link.buf \in Seq(Message) /\ link.faults \in Nat
    BY <2>1 DEF Link
  <2>3. m \in Message
    BY <2>2, RangeOfSeq
  <2>4. AppliesOf(attempts, m.name) = attempts[n] /\ attempts[n] \in Nat
    BY <2>1 DEF AppliesOf, Attempts
  <2> DEFINE a == attempts[n]
             w == Copies(link.wire, m)
             b == Copies(link.buf, m)
             y == a * (1 + link.faults)
  <2>5. w + b <= y
    BY <2>3, <2>4 DEF PlanInv, AllFit, Fits
  <2>6. w \in Nat /\ b \in Nat /\ y \in Int
    BY <2>2, <2>4, CopiesType
  <2>7. w <= y
    <3> HIDE DEF w, b, y
    <3> QED
      BY <2>5, <2>6
  <2> QED
    BY <2>7 DEF Copies
<1> QED
  BY <1>1, PlanInvariant, PTL

(* What a subscriber's filter accepted, from the gap-fill on, was polled,  *)
(* is queued in order or is counted in dropped (stream_engine.rs: push).   *)
THEOREM PlanSubscribersAccounted == PlanSpec => []SubscribersAccounted
<1>1. PlanInv => SubscribersAccounted
  <2> SUFFICES ASSUME PlanInv, NEW i \in DOMAIN obs_stream.subscribers,
                      obs_stream.subscribers[i].live
               PROVE  Accounted(obs_stream.subscribers[i], produced)
    BY DEF SubscribersAccounted
  <2> DEFINE sub == obs_stream.subscribers[i]
  <2>1. /\ obs_stream \in Engine /\ produced \in Seq(Observed)
        /\ \A j \in 1..Len(obs_stream.subscribers) :
             SubscriberOK(obs_stream.subscribers[j], produced)
    BY DEF PlanInv, EngineOK
  <2>2. i \in 1..Len(obs_stream.subscribers)
    BY <2>1 DEF Engine
  <2>3. sub.from \in 0..Len(produced) /\ Counted(sub, Offer(sub, produced))
    BY <2>1, <2>2 DEF SubscriberOK
  <2>4. Offered(sub, produced) = Offer(sub, produced)
    BY <2>1, <2>3, OfferIsOffered
  <2> HIDE DEF sub
  <2>5. Accounted(sub, produced)
    BY <2>3, <2>4 DEF Accounted, Counted
  <2> QED
    BY <2>5 DEF sub
<1> QED
  BY <1>1, PlanInvariant, PTL

=============================================================================
