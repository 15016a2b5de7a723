--------------------------- MODULE HidClientProofs ---------------------------
(***************************************************************************)
(* Proofs about the client and its dispatcher, for any number of clones,   *)
(* calls and faults and any bound of the channel: an error waits for the   *)
(* next barrier, and a checked gesture that returned Ok is on the wire.    *)
(*                                                                         *)
(* The argument for the second: the barrier of the gesture found no error, *)
(* so a command of the gesture that failed has had its error taken by an   *)
(* earlier barrier, and that one is not of the same call, which would have *)
(* ended there.  So all its commands succeeded; what a command that        *)
(* succeeded has pushed is in the buffer or on the wire, and the barrier's *)
(* flush has emptied the buffer.                                           *)
(***************************************************************************)
EXTENDS HidClient, SequenceTheorems, FiniteSetTheorems, TLAPS

Cmd     == [by : Producers, n : Nat, kind : DOMAIN Shape]
Packet  == [id : Nat, size : Nat, critical : BOOLEAN, cmd : Cmd \cup {Idle}, part : Nat]
Entry   == [cmd : Cmd, ok : BOOLEAN]
Job     == [call : DOMAIN Program \cup {"none"}, at : Nat, result : {"Ok", "Err"},
            calls : Nat]

Elems(s) == {s[i] : i \in 1..Len(s)}

Active(p) == pc[p] \in {"sending", "waiting"}

-----------------------------------------------------------------------------
(* The invariant.                                                          *)

WriterTypes ==
  /\ wire \in Seq(Packet) /\ pending \in Seq(Packet) /\ accepted \in Seq(Packet)
  /\ pushed \in Nat

ClientTypes ==
  /\ pc \in [Producers -> {"idle", "sending", "waiting", "gone"}]
  /\ job \in [Producers -> Job]
  /\ out \in [Producers -> Cmd \cup {Idle}]
  /\ slot \in [Producers -> {None, "Ok", "Err"}]
  /\ chan \in Seq(Cmd)

DispatcherTypes ==
  /\ disp \in {"recv", "run", "inner", "unwind", "drop", "joined", "panicked"}
  /\ disp = "run" => cur \in Cmd
  /\ disp = "recv" => step = 0
  /\ step \in Nat /\ clean \in BOOLEAN
  /\ log \in Seq(Entry)

Types == WriterTypes /\ ClientTypes /\ DispatcherTypes

\* The command a producer is sending, or whose barrier it waits for, is the
\* one its call is at.
JobOK(p) ==
  /\ Active(p) =>
       /\ job[p].call \in DOMAIN Program
       /\ job[p].at \in 1..Len(Program[job[p].call])
       /\ out[p] \in Cmd /\ out[p].by = p
       /\ out[p].kind = Program[job[p].call][job[p].at]
  /\ slot[p] # None => pc[p] = "waiting"

\* The commands that have been sent and not lost, in three places.
Logged == {log[c].cmd : c \in Ran}
Running == IF disp = "run" THEN {cur} ELSE {}
Known  == Logged \cup Running \cup Elems(chan)

Issue(e) ==
  /\ e.n <= out[e.by].n
  /\ e.n = out[e.by].n => e = out[e.by] /\ pc[e.by] # "sending"

\* The commands of one producer are numbered in the order they are run.
Before(e, f) == e.by = f.by => e.n < f.n

OrderOK ==
  /\ \A e \in Known : Issue(e)
  /\ \A c, d \in Ran : c < d => Before(log[c].cmd, log[d].cmd)
  /\ \A e \in Logged : \A f \in Running \cup Elems(chan) : Before(e, f)
  /\ \A e \in Running : \A f \in Elems(chan) : Before(e, f)
  /\ \A i, j \in 1..Len(chan) : i < j => Before(chan[i], chan[j])

\* A barrier under way has its producer waiting.
WaitsOK ==
  \A e \in Running \cup Elems(chan) : e.kind = "FlushAck" =>
    pc[e.by] = "waiting" /\ out[e.by] = e /\ slot[e.by] = None

\* The commands of p's latest call have numbers above First(p).
First(p) == out[p].n - job[p].at

InLog(p, k) == \E e \in Logged : e.by = p /\ e.n = k
Reached(p, k) == \E e \in Known : e.by = p /\ e.n = k

\* The barriers of p's call below number n found no error.
BarriersOk(p, n) ==
  \A c \in Ran :
    (log[c].cmd.by = p /\ log[c].cmd.n > First(p) /\ log[c].cmd.n < n /\ Barrier(c))
      => log[c].ok

\* All of p's call so far has run, a barrier last.
Complete(p) ==
  /\ out[p].kind = "FlushAck"
  /\ \A k \in (First(p) + 1)..out[p].n : InLog(p, k)
  /\ BarriersOk(p, out[p].n + 1)

ProgressOK(p) ==
  job[p].call \in Checked =>
    /\ Active(p) =>
         /\ job[p].at <= out[p].n
         /\ BarriersOk(p, out[p].n)
         /\ (slot[p] = None /\ Alive) =>
              \A k \in (First(p) + 1)..(out[p].n - 1) : Reached(p, k)
         /\ slot[p] = "Ok" => Complete(p)
    /\ (pc[p] = "idle" /\ job[p].result = "Ok") =>
         job[p].at <= out[p].n /\ job[p].at = Len(Program[job[p].call]) /\ Complete(p)

\* A command that failed for good.
Bad(c) == ~log[c].ok /\ log[c].cmd.kind \notin {"FlushAck", "Close"}

\* Its error is pending, or the first barrier after it took it.
Taken(c) ==
  \E d \in (c + 1)..Len(log) :
    Barrier(d) /\ ~log[d].ok /\ \A x \in (c + 1)..(d - 1) : ~Barrier(x)

Untaken(c) == pendingError # None /\ \A d \in (c + 1)..Len(log) : ~Barrier(d)

MemoryOK ==
  /\ ~clean => pendingError # None
  /\ \A c \in Ran : Bad(c) => Untaken(c) \/ Taken(c)
  /\ \A c \in Ran : log[c].cmd.kind = "Close" => c = Len(log) /\ disp \notin {"recv", "run"}

Accepted(e, i) == \E m \in Elems(accepted) : m.cmd = e /\ m.part = i
Sent(e, i)     == \E m \in Elems(wire) : m.cmd = e /\ m.part = i

\* What a successful command pushed is accepted, and what is accepted is on
\* the wire or in the buffer as long as the dispatcher serves commands.
ServingOK ==
  disp \in {"recv", "run"} =>
    /\ Elems(accepted) \subseteq Elems(wire) \cup Elems(pending)
    /\ \A c \in Ran : log[c].ok =>
         \A i \in 1..Messages(log[c].cmd.kind) : Accepted(log[c].cmd, i)
    /\ (disp = "run" /\ clean) => \A i \in 1..step : Accepted(cur, i)

\* A barrier without error has everything before it on the wire.
DeliveredOK ==
  \A b \in Ran : (Barrier(b) /\ log[b].ok) =>
    \A c \in 1..(b - 1) : log[c].ok =>
      \A i \in 1..Messages(log[c].cmd.kind) : Sent(log[c].cmd, i)

ClientInv ==
  /\ Types /\ OrderOK /\ WaitsOK
  /\ \A p \in Producers : JobOK(p) /\ ProgressOK(p)
  /\ MemoryOK /\ ServingOK /\ DeliveredOK
-----------------------------------------------------------------------------
(* Sequences.                                                              *)

LEMMA ElemsConcat ==
  ASSUME NEW S, NEW s \in Seq(S), NEW t \in Seq(S)
  PROVE  s \o t \in Seq(S) /\ Elems(s \o t) = Elems(s) \cup Elems(t)
<1>1. Len(s) \in Nat /\ Len(t) \in Nat
  BY LenProperties
<1>2. /\ s \o t \in Seq(S) /\ Len(s \o t) = Len(s) + Len(t)
      /\ \A i \in 1..(Len(s) + Len(t)) :
           (s \o t)[i] = IF i <= Len(s) THEN s[i] ELSE t[i - Len(s)]
  BY ConcatProperties
<1>3. \A i \in 1..(Len(s) + Len(t)) : i \in 1..Len(s) \/ i - Len(s) \in 1..Len(t)
  BY <1>1
<1>4. Elems(s \o t) \subseteq Elems(s) \cup Elems(t)
  BY <1>1, <1>2, <1>3 DEF Elems
<1>5. \A i \in 1..Len(s) : i \in 1..(Len(s) + Len(t)) /\ i <= Len(s)
  BY <1>1
<1>6. Elems(s) \subseteq Elems(s \o t)
  BY <1>2, <1>5 DEF Elems
<1>7. \A i \in 1..Len(t) : /\ Len(s) + i \in 1..(Len(s) + Len(t))
                           /\ ~(Len(s) + i <= Len(s)) /\ (Len(s) + i) - Len(s) = i
  BY <1>1
<1>8. \A i \in 1..Len(t) : (s \o t)[Len(s) + i] = t[i]
  BY <1>2, <1>7
<1>9. Elems(t) \subseteq Elems(s \o t)
  BY <1>2, <1>7, <1>8 DEF Elems
<1> QED BY <1>2, <1>4, <1>6, <1>9

LEMMA ElemsAppend ==
  ASSUME NEW S, NEW s \in Seq(S), NEW m \in S
  PROVE  /\ Append(s, m) \in Seq(S) /\ Elems(Append(s, m)) = Elems(s) \cup {m}
         /\ Len(s) \in Nat /\ Len(Append(s, m)) = Len(s) + 1
         /\ \A i \in 1..Len(s) : Append(s, m)[i] = s[i]
         /\ Append(s, m)[Len(s) + 1] = m
<1>1. /\ Append(s, m) \in Seq(S) /\ Len(s) \in Nat /\ Len(Append(s, m)) = Len(s) + 1
      /\ \A i \in 1..Len(s) : Append(s, m)[i] = s[i]
      /\ Append(s, m)[Len(s) + 1] = m
  BY LenProperties, AppendProperties
<1>2. \A i \in 1..(Len(s) + 1) : i \in 1..Len(s) \/ i = Len(s) + 1
  BY <1>1
<1>3. \A i \in 1..Len(s) : i \in 1..(Len(s) + 1)
  BY <1>1
<1>4. Len(s) + 1 \in 1..(Len(s) + 1)
  BY <1>1
<1>5. Elems(Append(s, m)) = Elems(s) \cup {m}
  BY <1>1, <1>2, <1>3, <1>4 DEF Elems
<1> QED BY <1>1, <1>5

LEMMA ElemsTail ==
  ASSUME NEW S, NEW s \in Seq(S), s # <<>>
  PROVE  /\ Head(s) \in S /\ Tail(s) \in Seq(S) /\ Head(s) = s[1]
         /\ Elems(s) = {Head(s)} \cup Elems(Tail(s))
         /\ Len(s) \in Nat \ {0} /\ Len(Tail(s)) = Len(s) - 1
         /\ \A i \in 1..(Len(s) - 1) : Tail(s)[i] = s[i + 1]
<1>1. /\ Len(s) \in Nat \ {0} /\ Head(s) \in S /\ Head(s) = s[1]
      /\ Tail(s) \in Seq(S) /\ Len(Tail(s)) = Len(s) - 1
      /\ \A i \in 1..Len(Tail(s)) : Tail(s)[i] = s[i + 1]
  <2>1. Len(s) \in Nat \ {0} /\ Head(s) = s[1]
    BY EmptySeq
  <2> QED BY <2>1, HeadTailProperties
<1>2. \A i \in 1..Len(s) : i = 1 \/ i - 1 \in 1..Len(Tail(s))
  BY <1>1
<1>3. \A i \in 1..Len(s) : i # 1 => Tail(s)[i - 1] = s[i]
  BY <1>1, <1>2
<1>4. \A i \in 1..Len(Tail(s)) : i + 1 \in 1..Len(s)
  BY <1>1
<1>5. Elems(s) \subseteq {Head(s)} \cup Elems(Tail(s))
  BY <1>1, <1>2, <1>3 DEF Elems
<1>6. Elems(Tail(s)) \subseteq Elems(s)
  BY <1>1, <1>4 DEF Elems
<1>7. Head(s) \in Elems(s)
  BY <1>1 DEF Elems
<1> QED BY <1>1, <1>5, <1>6, <1>7

LEMMA ElemsPart ==
  ASSUME NEW S, NEW b \in Seq(S), NEW k \in 0..Len(b)
  PROVE  SubSeq(b, 1, k) \in Seq(S)
<1>1. Len(b) \in Nat /\ k \in Int /\ 1 \in Int /\ \A i \in 1..k : b[i] \in S
  BY LenProperties, ElementOfSeq
<1> QED BY <1>1, SubSeqProperties

-----------------------------------------------------------------------------
(* The writer, as the dispatcher uses it.                                  *)

\* An accepted message is on the wire or in the buffer.
NothingMissing == Elems(accepted) \subseteq Elems(wire) \cup Elems(pending)

LEMMA FailedWriteKeeps ==
  ASSUME wire \in Seq(Packet), NEW b \in Seq(Packet), W!WriteErr(b)
  PROVE  wire' \in Seq(Packet) /\ Elems(wire) \subseteq Elems(wire')
<1>1. PICK k \in 0..Len(b) : wire' = wire \o SubSeq(b, 1, k)
  BY DEF W!WriteErr, W!Lands
<1>2. SubSeq(b, 1, k) \in Seq(Packet)
  BY ElemsPart
<1>3. /\ wire \o SubSeq(b, 1, k) \in Seq(Packet)
      /\ Elems(wire \o SubSeq(b, 1, k)) = Elems(wire) \cup Elems(SubSeq(b, 1, k))
  BY <1>2, ElemsConcat, ZenonT(30)
<1> QED BY <1>1, <1>3

LEMMA FlushKeeps ==
  ASSUME wire \in Seq(Packet), NEW p \in Seq(Packet), NEW n,
         W!FlushOk(p, n) \/ W!FlushErr(p, n)
  PROVE  /\ wire' \in Seq(Packet) /\ pending' \in Seq(Packet)
         /\ Elems(wire) \subseteq Elems(wire')
         /\ Elems(p) \subseteq Elems(wire') \cup Elems(pending')
         /\ W!FlushOk(p, n) => Elems(p) \subseteq Elems(wire')
<1>1. CASE W!FlushOk(p, n)
  <2>1. wire' = wire \o p /\ pending' = <<>>
    BY <1>1 DEF W!FlushOk, W!WriteOk
  <2>2. wire' \in Seq(Packet) /\ Elems(wire') = Elems(wire) \cup Elems(p)
    BY <2>1, ElemsConcat
  <2> QED BY <2>1, <2>2
<1>2. CASE W!FlushErr(p, n)
  <2>1. W!WriteErr(p) /\ pending' = p /\ p # <<>>
    BY <1>2 DEF W!FlushErr
  <2>2. W!FlushOk(p, n) => pending' = <<>>
    BY DEF W!FlushOk
  <2> QED BY <2>1, <2>2, FailedWriteKeeps
<1> QED BY <1>1, <1>2

LEMMA BufferEffect ==
  ASSUME WriterTypes, NEW m \in Packet, W!BufferMsg(m)
  PROVE  /\ WriterTypes' /\ Elems(wire) \subseteq Elems(wire')
         /\ Elems(accepted') = Elems(accepted) \cup {m}
         /\ NothingMissing => NothingMissing'
<1> DEFINE p == Append(pending, m)
           n == pendingLen + m.size
<1>1. /\ wire \in Seq(Packet) /\ pending \in Seq(Packet) /\ accepted \in Seq(Packet)
      /\ pushed \in Nat
  BY DEF WriterTypes
<1>2. p \in Seq(Packet) /\ Elems(p) = Elems(pending) \cup {m}
  BY <1>1, ElemsAppend
<1>3. pushed' = pushed + 1 /\ accepted' = Append(accepted, m)
  BY DEF W!BufferMsg
<1>4. accepted' \in Seq(Packet) /\ Elems(accepted') = Elems(accepted) \cup {m}
  BY <1>1, <1>3, ElemsAppend
<1>5. \/ W!FlushOk(p, n) \/ W!FlushErr(p, n)
      \/ wire' = wire /\ pending' = p
  BY DEF W!BufferMsg, W!FlushNow, W!Keep
<1> HIDE DEF p, n
<1>6. /\ wire' \in Seq(Packet) /\ pending' \in Seq(Packet)
      /\ Elems(wire) \subseteq Elems(wire')
      /\ Elems(p) \subseteq Elems(wire') \cup Elems(pending')
  BY <1>1, <1>2, <1>5, FlushKeeps
<1>7. WriterTypes'
  BY <1>1, <1>3, <1>4, <1>6 DEF WriterTypes
<1>8. NothingMissing => NothingMissing'
  BY <1>2, <1>4, <1>6 DEF NothingMissing
<1> QED BY <1>4, <1>6, <1>7, <1>8

LEMMA DirectEffect ==
  ASSUME WriterTypes, NEW m \in Packet, W!DirectMsg(m)
  PROVE  /\ WriterTypes' /\ Elems(wire) \subseteq Elems(wire')
         /\ Elems(accepted) \subseteq Elems(accepted')
         /\ last' # "Err" => m \in Elems(accepted')
         /\ NothingMissing => NothingMissing'
<1>1. /\ wire \in Seq(Packet) /\ pending \in Seq(Packet) /\ accepted \in Seq(Packet)
      /\ pushed \in Nat
  BY DEF WriterTypes
<1>2. pushed' = pushed + 1 /\ pending' = pending
  BY DEF W!DirectMsg
<1>3. <<m>> \in Seq(Packet) /\ Elems(<<m>>) = {m}
  BY DEF Elems
<1>4. CASE W!WriteOk(<<m>>) /\ accepted' = Append(accepted, m)
  <2>1. wire' = wire \o <<m>>
    BY <1>4 DEF W!WriteOk
  <2>2. wire' \in Seq(Packet) /\ Elems(wire') = Elems(wire) \cup {m}
    <3>1. wire \o <<m>> \in Seq(Packet) /\ Elems(wire \o <<m>>) = Elems(wire) \cup Elems(<<m>>)
      BY <1>1, <1>3, ElemsConcat, ZenonT(30)
    <3> QED BY <1>3, <2>1, <3>1
  <2>3. accepted' \in Seq(Packet) /\ Elems(accepted') = Elems(accepted) \cup {m}
    BY <1>1, <1>4, ElemsAppend
  <2>4. WriterTypes'
    BY <1>1, <1>2, <2>2, <2>3 DEF WriterTypes
  <2>5. NothingMissing => NothingMissing'
    BY <1>2, <2>2, <2>3 DEF NothingMissing
  <2> QED BY <2>2, <2>3, <2>4, <2>5
<1>5. CASE W!WriteErr(<<m>>) /\ last' = "Err" /\ accepted' = accepted
  <2>1. wire' \in Seq(Packet) /\ Elems(wire) \subseteq Elems(wire')
    BY <1>1, <1>3, <1>5, FailedWriteKeeps
  <2>2. WriterTypes'
    BY <1>1, <1>2, <1>5, <2>1 DEF WriterTypes
  <2>3. NothingMissing => NothingMissing'
    BY <1>2, <1>5, <2>1 DEF NothingMissing
  <2> QED BY <1>5, <2>1, <2>2, <2>3
<1> QED BY <1>4, <1>5 DEF W!DirectMsg

LEMMA CriticalEffect ==
  ASSUME WriterTypes, NEW m \in Packet, W!CriticalMsg(m)
  PROVE  WriterTypes' /\ Elems(wire) \subseteq Elems(wire')
<1> DEFINE p == Append(pending, m)
<1>1. /\ wire \in Seq(Packet) /\ pending \in Seq(Packet) /\ accepted \in Seq(Packet)
      /\ pushed \in Nat
  BY DEF WriterTypes
<1>2. p \in Seq(Packet) /\ Len(p) = Len(pending) + 1 /\ Len(pending) \in Nat
  BY <1>1, ElemsAppend
<1>3. pushed' = pushed + 1 /\ (accepted' = accepted \/ accepted' = Append(accepted, m))
  BY DEF W!CriticalMsg
<1>4. accepted' \in Seq(Packet)
  <2>1. Append(accepted, m) \in Seq(Packet)
    BY <1>1, ElemsAppend
  <2> QED BY <1>1, <1>3, <2>1
<1>5. \/ W!FlushErr(pending, pendingLen)
      \/ wire' = wire \o p /\ pending' = <<>>
      \/ /\ \E k \in {0, 1} : wire' = wire \o SubSeq(p, 1, Len(pending) + k)
         /\ pending' = <<>>
  BY DEF W!CriticalMsg, W!WriteOk, W!Lands
<1> HIDE DEF p
<1>6. CASE W!FlushErr(pending, pendingLen)
  <2>1. /\ wire' \in Seq(Packet) /\ pending' \in Seq(Packet)
        /\ Elems(wire) \subseteq Elems(wire')
    BY <1>1, <1>6, FlushKeeps
  <2> QED BY <1>1, <1>3, <1>4, <2>1 DEF WriterTypes
<1>7. CASE wire' = wire \o p /\ pending' = <<>>
  <2>1. wire' \in Seq(Packet) /\ Elems(wire) \subseteq Elems(wire')
    BY <1>1, <1>2, <1>7, ElemsConcat
  <2> QED BY <1>1, <1>3, <1>4, <1>7, <2>1 DEF WriterTypes
<1>8. CASE /\ \E k \in {0, 1} : wire' = wire \o SubSeq(p, 1, Len(pending) + k)
           /\ pending' = <<>>
  <2>1. PICK k \in {0, 1} : wire' = wire \o SubSeq(p, 1, Len(pending) + k)
    BY <1>8
  <2>2. Len(pending) + k \in 0..Len(p)
    BY <1>2
  <2>3. SubSeq(p, 1, Len(pending) + k) \in Seq(Packet)
    BY <1>2, <2>2, ElemsPart
  <2>4. wire' \in Seq(Packet) /\ Elems(wire) \subseteq Elems(wire')
    <3> DEFINE t == SubSeq(p, 1, Len(pending) + k)
    <3>1. t \in Seq(Packet) /\ wire' = wire \o t
      BY <2>1, <2>3
    <3> HIDE DEF t
    <3>2. wire \o t \in Seq(Packet) /\ Elems(wire \o t) = Elems(wire) \cup Elems(t)
      BY <1>1, <3>1, ElemsConcat
    <3> QED BY <3>1, <3>2
  <2> QED BY <1>1, <1>3, <1>4, <1>8, <2>4 DEF WriterTypes
<1> QED BY <1>5, <1>6, <1>7, <1>8

LEMMA ReportEffect ==
  ASSUME WriterTypes, NEW m \in Packet, ~m.critical, W!Push(m)
  PROVE  /\ WriterTypes' /\ Elems(wire) \subseteq Elems(wire')
         /\ Elems(accepted) \subseteq Elems(accepted')
         /\ last' # "Err" => m \in Elems(accepted')
         /\ NothingMissing => NothingMissing'
BY BufferEffect, DirectEffect DEF W!Push

LEMMA PushEffect ==
  ASSUME WriterTypes, NEW m \in Packet, W!Push(m)
  PROVE  WriterTypes' /\ Elems(wire) \subseteq Elems(wire')
BY BufferEffect, DirectEffect, CriticalEffect DEF W!Push

LEMMA FlushEffect ==
  ASSUME WriterTypes, W!ExplicitFlush
  PROVE  /\ WriterTypes' /\ Elems(wire) \subseteq Elems(wire') /\ accepted' = accepted
         /\ NothingMissing => NothingMissing'
         /\ (NothingMissing /\ last' # "Err") => Elems(accepted) \subseteq Elems(wire')
<1>1. /\ wire \in Seq(Packet) /\ pending \in Seq(Packet) /\ accepted \in Seq(Packet)
      /\ pushed \in Nat
  BY DEF WriterTypes
<1>2. accepted' = accepted /\ pushed' = pushed
  BY DEF W!ExplicitFlush
<1>3. \/ W!FlushOk(pending, pendingLen)
      \/ W!FlushErr(pending, pendingLen) /\ last' = "Err"
  BY DEF W!ExplicitFlush, W!FlushNow
<1>4. /\ wire' \in Seq(Packet) /\ pending' \in Seq(Packet)
      /\ Elems(wire) \subseteq Elems(wire')
      /\ Elems(pending) \subseteq Elems(wire') \cup Elems(pending')
      /\ W!FlushOk(pending, pendingLen) => Elems(pending) \subseteq Elems(wire')
  BY <1>1, <1>3, FlushKeeps
<1>5. WriterTypes'
  BY <1>1, <1>2, <1>4 DEF WriterTypes
<1> QED BY <1>2, <1>3, <1>4, <1>5 DEF NothingMissing

LEMMA EndEffect ==
  ASSUME WriterTypes, W!IntoInner \/ W!DropWriter
  PROVE  WriterTypes' /\ Elems(wire) \subseteq Elems(wire')
<1>1. /\ wire \in Seq(Packet) /\ pending \in Seq(Packet) /\ accepted \in Seq(Packet)
      /\ pushed \in Nat
  BY DEF WriterTypes
<1>2. accepted' = accepted /\ pushed' = pushed
  BY DEF W!IntoInner, W!DropWriter
<1>3. \/ W!FlushOk(pending, pendingLen) \/ W!FlushErr(pending, pendingLen)
      \/ W!WriteErr(pending) /\ pending' = <<>>
  BY DEF W!IntoInner, W!DropWriter
<1>4. /\ wire' \in Seq(Packet) /\ pending' \in Seq(Packet)
      /\ Elems(wire) \subseteq Elems(wire')
  <2>1. CASE W!FlushOk(pending, pendingLen) \/ W!FlushErr(pending, pendingLen)
    BY <1>1, <2>1, FlushKeeps
  <2>2. CASE W!WriteErr(pending) /\ pending' = <<>>
    <3>1. wire' \in Seq(Packet) /\ Elems(wire) \subseteq Elems(wire')
      BY <1>1, <2>2, FailedWriteKeeps
    <3> QED BY <2>2, <3>1
  <2> QED BY <1>3, <2>1, <2>2
<1> QED BY <1>1, <1>2, <1>4 DEF WriterTypes
-----------------------------------------------------------------------------
(* What a step leaves alone.                                               *)

LEMMA NoneFacts == None # "Ok" /\ None # "Err" /\ None \notin Cmd
BY NoneAssumption DEF Cmd

LEMMA NumberType ==
  ASSUME Types, NEW p \in Producers
  PROVE  out[p].n \in Nat /\ job[p].at \in Nat
<1>1. out[p] \in Cmd \cup {Idle} /\ job[p] \in Job
  BY DEF Types, ClientTypes
<1>2. Idle.n = 0
  BY DEF Idle, Command
<1> QED BY <1>1, <1>2 DEF Cmd, Job

LEMMA DispatcherStays ==
  ASSUME MemoryOK, ServingOK, DeliveredOK, UNCHANGED dispatcher
  PROVE  MemoryOK' /\ ServingOK' /\ DeliveredOK'
<1>1. /\ wire' = wire /\ pending' = pending /\ accepted' = accepted /\ disp' = disp
      /\ cur' = cur /\ step' = step /\ clean' = clean
      /\ pendingError' = pendingError /\ log' = log
  BY DEF dispatcher, writer
<1>2. MemoryOK'
  BY <1>1 DEF MemoryOK, Ran, Bad, Untaken, Taken, Barrier
<1>3. ServingOK'
  BY <1>1 DEF ServingOK, Ran, Elems, Accepted
<1>4. DeliveredOK'
  BY <1>1, SMTT(30) DEF DeliveredOK, Ran, Barrier, Sent, Elems
<1> QED BY <1>2, <1>3, <1>4

\* A producer that does not move keeps its progress while commands are only
\* added and no barrier of its own ends.
LEMMA OtherKeeps ==
  ASSUME NEW q \in Producers, JobOK(q), ProgressOK(q),
         pc'[q] = pc[q], job'[q] = job[q], out'[q] = out[q], slot'[q] = slot[q],
         Alive' => Alive /\ Known \subseteq Known',
         Logged \subseteq Logged',
         \A c \in 1..Len(log') :
           \/ c \in Ran /\ log'[c] = log[c]
           \/ log'[c].cmd.by # q \/ log'[c].cmd.kind # "FlushAck"
  PROVE  JobOK(q)' /\ ProgressOK(q)'
<1>1. First(q)' = First(q)
  BY DEF First
<1>2. ASSUME NEW n, BarriersOk(q, n) PROVE BarriersOk(q, n)'
  BY <1>1, <1>2 DEF BarriersOk, Ran, Barrier
<1>3. ASSUME NEW k, InLog(q, k) PROVE InLog(q, k)'
  BY <1>3 DEF InLog
<1>4. ASSUME NEW k, Alive', Reached(q, k) PROVE Reached(q, k)'
  BY <1>4 DEF Reached
<1>5. Complete(q) => Complete(q)'
  BY <1>1, <1>2, <1>3 DEF Complete
<1>6. JobOK(q)'
  BY DEF JobOK, Active
<1>7. ProgressOK(q)'
  BY <1>1, <1>2, <1>4, <1>5 DEF ProgressOK, Active
<1> QED BY <1>6, <1>7

-----------------------------------------------------------------------------
(* A producer moves.                                                       *)

LEMMA SendingEffect ==
  ASSUME Types, NEW p \in Producers, NEW m \in DOMAIN Program,
         NEW i \in 1..Len(Program[m]), NEW r \in {"Ok", "Err"}, Sending(p, m, i, r)
  PROVE  /\ pc' \in [Producers -> {"idle", "sending", "waiting", "gone"}]
         /\ job' \in [Producers -> Job] /\ out' \in [Producers -> Cmd \cup {Idle}]
         /\ pc'[p] = "sending"
         /\ job'[p].call = m /\ job'[p].at = i /\ job'[p].result = r
         /\ out'[p] \in Cmd /\ out'[p].by = p /\ out'[p].n = out[p].n + 1
         /\ out'[p].kind = Program[m][i]
         /\ \A q \in Producers \ {p} :
              pc'[q] = pc[q] /\ job'[q] = job[q] /\ out'[q] = out[q]
<1>1. /\ pc \in [Producers -> {"idle", "sending", "waiting", "gone"}]
      /\ job \in [Producers -> Job] /\ out \in [Producers -> Cmd \cup {Idle}]
  BY DEF Types, ClientTypes
<1>2. out[p].n + 1 \in Nat /\ i \in Nat
  BY NumberType
<1>3. Program[m][i] \in DOMAIN Shape
  BY TablesAgree, ElementOfSeq
<1>4. job[p].calls \in Nat
  BY <1>1 DEF Job
<1>5. pc' = [pc EXCEPT ![p] = "sending"]
  BY DEF Sending
<1> DEFINE e == [by |-> p, n |-> out[p].n + 1, kind |-> Program[m][i]]
           j == [call |-> m, at |-> i, result |-> r,
                 calls |-> IF i = 1 THEN job[p].calls + 1 ELSE job[p].calls]
<1>6. out' = [out EXCEPT ![p] = e] /\ job' = [job EXCEPT ![p] = j]
  BY DEF Sending, Command
<1>7. e \in Cmd /\ e.by = p /\ e.n = out[p].n + 1 /\ e.kind = Program[m][i]
  BY <1>2, <1>3 DEF Cmd
<1>8. j \in Job /\ j.call = m /\ j.at = i /\ j.result = r
  BY <1>2, <1>4 DEF Job
<1> HIDE DEF e, j
<1> QED BY <1>1, <1>5, <1>6, <1>7, <1>8

LEMMA ReturnedEffect ==
  ASSUME Types, NEW p \in Producers, NEW r \in {"Ok", "Err"}, Returned(p, r)
  PROVE  /\ pc' \in [Producers -> {"idle", "sending", "waiting", "gone"}]
         /\ job' \in [Producers -> Job] /\ out' = out
         /\ pc'[p] = "idle"
         /\ job'[p].call = job[p].call /\ job'[p].at = job[p].at /\ job'[p].result = r
         /\ \A q \in Producers \ {p} : pc'[q] = pc[q] /\ job'[q] = job[q]
<1>1. /\ pc \in [Producers -> {"idle", "sending", "waiting", "gone"}]
      /\ job \in [Producers -> Job]
  BY DEF Types, ClientTypes
<1> QED BY <1>1 DEF Returned, Job

\* The command p is sending goes out, if any.
SendsAtMost(p) ==
  \/ chan' = chan
  \/ /\ chan' = Append(chan, out[p]) /\ pc[p] = "sending"
     /\ out[p] \in Cmd /\ out[p].by = p

LEMMA OrderStep ==
  ASSUME Types, OrderOK, NEW p \in Producers, disp' = disp, cur' = cur, log' = log,
         SendsAtMost(p),
         \A q \in Producers \ {p} : pc'[q] = pc[q] /\ out'[q] = out[q],
         \/ out'[p].n = out[p].n + 1
         \/ out'[p] = out[p] /\ pc'[p] # "sending"
  PROVE  OrderOK'
<1>1. Logged' = Logged /\ Running' = Running
  BY DEF Logged, Running, Ran
<1>2. \A e \in Known : e \in Cmd
  <2>1. \A e \in Logged : e \in Cmd
    <3>1. \A c \in Ran : log[c] \in Entry
      BY ElementOfSeq DEF Types, DispatcherTypes, Ran
    <3> QED BY <3>1 DEF Logged, Entry
  <2>2. \A e \in Running : e \in Cmd
    BY DEF Running, Types, DispatcherTypes
  <2>3. \A e \in Elems(chan) : e \in Cmd
    BY ElementOfSeq DEF Types, ClientTypes, Elems
  <2> QED BY <2>1, <2>2, <2>3 DEF Known
<1>3. \A e \in Known : e.by \in Producers /\ e.n \in Nat /\ Issue(e)
  BY <1>2 DEF Cmd, OrderOK
<1>4. out[p].n \in Nat
  BY NumberType
<1>5. \A e \in Known : Issue(e)'
  <2> SUFFICES ASSUME NEW e \in Known PROVE Issue(e)'
    OBVIOUS
  <2>1. CASE e.by # p
    BY <1>3, <2>1 DEF Issue
  <2>2. CASE e.by = p
    BY <1>3, <1>4, <2>2 DEF Issue
  <2> QED BY <2>1, <2>2
<1>6. CASE chan' = chan
  <2>1. Known' = Known
    BY <1>1, <1>6 DEF Known, Elems
  <2> QED BY <1>1, <1>5, <1>6, <2>1 DEF OrderOK, Ran, Before, Elems
<1>7. CASE /\ chan' = Append(chan, out[p]) /\ pc[p] = "sending"
           /\ out[p] \in Cmd /\ out[p].by = p
  <2>1. chan \in Seq(Cmd)
    BY DEF Types, ClientTypes
  <2>2. /\ Elems(chan') = Elems(chan) \cup {out[p]}
        /\ Len(chan) \in Nat /\ Len(chan') = Len(chan) + 1
        /\ \A i \in 1..Len(chan) : chan'[i] = chan[i]
        /\ chan'[Len(chan) + 1] = out[p]
    BY <1>7, <2>1, ElemsAppend
  <2>3. Elems(chan)' = Elems(chan) \cup {out[p]}
    BY <2>2 DEF Elems
  <2>4. Known' = Known \cup {out[p]}
    BY <1>1, <2>3 DEF Known
  <2>5. \A e \in Known : Before(e, out[p])
    BY <1>3, <1>4, <1>7 DEF Issue, Before
  <2>6. \A e : e = out[p] => Issue(e)'
    BY <1>4, <1>7 DEF Issue
  <2>7. \A i \in 1..Len(chan) : chan[i] \in Known
    BY DEF Known, Elems
  <2>8. \A i, j \in 1..Len(chan') : i < j => Before(chan'[i], chan'[j])
    <3> SUFFICES ASSUME NEW i \in 1..Len(chan'), NEW j \in 1..Len(chan'), i < j
                 PROVE  Before(chan'[i], chan'[j])
      OBVIOUS
    <3>1. i \in 1..Len(chan) /\ (j \in 1..Len(chan) \/ j = Len(chan) + 1)
      BY <2>2
    <3>2. chan'[i] = chan[i]
      BY <2>2, <3>1
    <3>3. CASE j \in 1..Len(chan)
      BY <2>2, <3>1, <3>2, <3>3 DEF OrderOK
    <3>4. CASE j = Len(chan) + 1
      BY <2>2, <2>5, <2>7, <3>1, <3>2, <3>4
    <3> QED BY <3>1, <3>3, <3>4
  <2>9. \A e \in Logged : \A f \in Running \cup Elems(chan) \cup {out[p]} : Before(e, f)
    BY <2>5 DEF OrderOK, Known
  <2>10. \A e \in Running : \A f \in Elems(chan) \cup {out[p]} : Before(e, f)
    BY <2>5 DEF OrderOK, Known
  <2>11. \A c, d \in Ran' : c < d => Before(log'[c].cmd, log'[d].cmd)
    BY DEF OrderOK, Ran
  <2>12. \A e \in Known' : Issue(e)'
    BY <1>5, <2>4, <2>6
  <2>13. \A i, j \in 1..Len(chan)' : i < j => Before(chan'[i], chan'[j])
    BY <2>8
  <2> QED BY <1>1, <2>3, <2>9, <2>10, <2>11, <2>12, <2>13 DEF OrderOK, Before
<1> QED BY <1>6, <1>7 DEF SendsAtMost

LEMMA WaitsStep ==
  ASSUME Types, WaitsOK, NEW p \in Producers, disp' = disp, cur' = cur,
         pc[p] # "waiting" \/ slot[p] # None,
         \/ chan' = chan
         \/ /\ chan' = Append(chan, out[p]) /\ out[p] \in Cmd /\ out[p].by = p
            /\ out[p].kind = "FlushAck" =>
                 pc'[p] = "waiting" /\ out'[p] = out[p] /\ slot'[p] = None,
         \A q \in Producers \ {p} :
           pc'[q] = pc[q] /\ out'[q] = out[q] /\ slot'[q] = slot[q]
  PROVE  WaitsOK'
<1>1. Running' = Running
  BY DEF Running
<1>2. \A e \in Running \cup Elems(chan) : e.by \in Producers
  <2>1. \A e \in Running : e \in Cmd
    BY DEF Running, Types, DispatcherTypes
  <2>2. \A e \in Elems(chan) : e \in Cmd
    BY ElementOfSeq DEF Types, ClientTypes, Elems
  <2> QED BY <2>1, <2>2 DEF Cmd
<1>3. \A e \in Running \cup Elems(chan) : e.kind = "FlushAck" =>
        pc'[e.by] = "waiting" /\ out'[e.by] = e /\ slot'[e.by] = None
  BY <1>2 DEF WaitsOK
<1>4. \A e \in Elems(chan)' : e \in Elems(chan) \/
        (e = out[p] /\ e.by = p /\ (e.kind = "FlushAck" =>
                 pc'[p] = "waiting" /\ out'[p] = out[p] /\ slot'[p] = None))
  <2>1. CASE chan' = chan
    BY <2>1 DEF Elems
  <2>2. CASE /\ chan' = Append(chan, out[p]) /\ out[p] \in Cmd /\ out[p].by = p
             /\ out[p].kind = "FlushAck" =>
                  pc'[p] = "waiting" /\ out'[p] = out[p] /\ slot'[p] = None
    <3>1. chan \in Seq(Cmd)
      BY DEF Types, ClientTypes
    <3>2. Elems(chan') = Elems(chan) \cup {out[p]}
      BY <2>2, <3>1, ElemsAppend
    <3>3. Elems(chan)' = Elems(chan')
      BY DEF Elems
    <3> QED BY <2>2, <3>2, <3>3
  <2> QED BY <2>1, <2>2
<1> QED BY <1>1, <1>3, <1>4 DEF WaitsOK
LEMMA ClientMoves ==
  ASSUME ClientInv, NEW p \in Producers, UNCHANGED dispatcher, ClientTypes',
         OrderOK', WaitsOK', JobOK(p)', ProgressOK(p)',
         \A q \in Producers \ {p} :
           pc'[q] = pc[q] /\ job'[q] = job[q] /\ out'[q] = out[q] /\ slot'[q] = slot[q],
         Elems(chan) \subseteq Elems(chan)'
  PROVE  ClientInv'
<1>1. Types /\ MemoryOK /\ ServingOK /\ DeliveredOK
  BY DEF ClientInv
<1>2. /\ wire' = wire /\ pending' = pending /\ accepted' = accepted /\ pushed' = pushed
      /\ disp' = disp /\ cur' = cur /\ step' = step /\ clean' = clean /\ log' = log
  BY DEF dispatcher, writer
<1>3. Types'
  BY <1>1, <1>2 DEF Types, WriterTypes, DispatcherTypes
<1>4. MemoryOK' /\ ServingOK' /\ DeliveredOK'
  BY <1>1, DispatcherStays
<1>5. Alive' = Alive /\ Logged' = Logged /\ Running' = Running
  BY <1>2 DEF Alive, Logged, Ran, Running
<1>6. Known \subseteq Known'
  BY <1>5 DEF Known
<1>7. \A q \in Producers \ {p} : JobOK(q)' /\ ProgressOK(q)'
  <2> SUFFICES ASSUME NEW q \in Producers \ {p} PROVE JobOK(q)' /\ ProgressOK(q)'
    OBVIOUS
  <2>1. /\ JobOK(q) /\ ProgressOK(q)
        /\ pc'[q] = pc[q] /\ job'[q] = job[q] /\ out'[q] = out[q] /\ slot'[q] = slot[q]
    BY DEF ClientInv
  <2>2. \A c \in 1..Len(log') : c \in Ran /\ log'[c] = log[c]
    BY <1>2 DEF Ran
  <2> QED BY <1>5, <1>6, <2>1, <2>2, OtherKeeps
<1>8. \A q \in Producers : JobOK(q)' /\ ProgressOK(q)'
  BY <1>7
<1> QED BY <1>3, <1>4, <1>8 DEF ClientInv

LEMMA CallInv ==
  ASSUME ClientInv, NEW p \in Producers, NEW m \in Uses(p), Call(p, m)
  PROVE  ClientInv'
<1>1. /\ Types /\ OrderOK /\ WaitsOK /\ JobOK(p)
      /\ pc[p] = "idle" /\ Sending(p, m, 1, "Ok")
      /\ chan' = chan /\ slot' = slot /\ UNCHANGED dispatcher
  BY DEF ClientInv, Call
<1>2. m \in DOMAIN Program /\ Len(Program[m]) \in Nat \ {0}
  <2>1. m \in DOMAIN Program
    BY ClientAssumption
  <2>2. Program[m] \in Seq(DOMAIN Shape) /\ Program[m] # <<>>
    BY <2>1, TablesAgree
  <2> QED BY <2>1, <2>2, EmptySeq, LenProperties
<1>3. 1 \in 1..Len(Program[m])
  BY <1>2
<1>4. /\ pc' \in [Producers -> {"idle", "sending", "waiting", "gone"}]
      /\ job' \in [Producers -> Job] /\ out' \in [Producers -> Cmd \cup {Idle}]
      /\ pc'[p] = "sending"
      /\ job'[p].call = m /\ job'[p].at = 1 /\ job'[p].result = "Ok"
      /\ out'[p] \in Cmd /\ out'[p].by = p /\ out'[p].n = out[p].n + 1
      /\ out'[p].kind = Program[m][1]
      /\ \A q \in Producers \ {p} :
           pc'[q] = pc[q] /\ job'[q] = job[q] /\ out'[q] = out[q]
  BY <1>1, <1>2, <1>3, SendingEffect
<1>5. disp' = disp /\ cur' = cur /\ log' = log
  BY <1>1 DEF dispatcher
<1>6. slot[p] = None /\ out[p].n \in Nat
  BY <1>1, NumberType DEF JobOK
<1>7. ClientTypes'
  BY <1>1, <1>4 DEF Types, ClientTypes
<1>8. OrderOK'
  BY <1>1, <1>4, <1>5, OrderStep DEF SendsAtMost
<1>9. WaitsOK'
  BY <1>1, <1>4, <1>5, WaitsStep
<1>10. JobOK(p)'
  BY <1>1, <1>2, <1>3, <1>4, <1>6 DEF JobOK, Active
<1>11. ProgressOK(p)'
  <2>1. First(p)' = out[p].n
    BY <1>4, <1>6 DEF First
  <2>2. \A c \in Ran : log[c].cmd.by = p => log[c].cmd.n <= out[p].n
    BY <1>1 DEF OrderOK, Known, Logged, Issue
  <2>3. \A c \in Ran : log[c].cmd.n \in Nat
    <3>1. \A c \in Ran : log[c] \in Entry
      BY <1>1, ElementOfSeq DEF Types, DispatcherTypes, Ran
    <3> QED BY <3>1 DEF Entry, Cmd
  <2>4. BarriersOk(p, out[p].n)'
    BY <1>5, <1>6, <2>1, <2>2, <2>3 DEF BarriersOk, Ran
  <2>5. \A k \in (First(p)' + 1)..(out'[p].n - 1) : FALSE
    BY <1>4, <1>6, <2>1
  <2>6. slot'[p] # "Ok" /\ job'[p].at <= out'[p].n
    BY <1>1, <1>4, <1>6, NoneFacts
  <2>7. pc'[p] # "idle"
    BY <1>4
  <2> QED BY <2>4, <2>5, <2>6, <2>7 DEF ProgressOK
<1> QED BY <1>1, <1>4, <1>7, <1>8, <1>9, <1>10, <1>11, ClientMoves DEF Elems

LEMMA DropClientInv ==
  ASSUME ClientInv, NEW p \in Producers, DropClient(p)
  PROVE  ClientInv'
<1>1. /\ Types /\ OrderOK /\ WaitsOK /\ JobOK(p)
      /\ pc[p] = "idle" /\ pc' = [pc EXCEPT ![p] = "gone"]
      /\ chan' = chan /\ job' = job /\ out' = out /\ slot' = slot /\ UNCHANGED dispatcher
  BY DEF ClientInv, DropClient
<1>2. /\ pc' \in [Producers -> {"idle", "sending", "waiting", "gone"}]
      /\ pc'[p] = "gone" /\ \A q \in Producers \ {p} : pc'[q] = pc[q]
  BY <1>1 DEF Types, ClientTypes
<1>3. disp' = disp /\ cur' = cur /\ log' = log
  BY <1>1 DEF dispatcher
<1>4. slot[p] = None
  BY <1>1 DEF JobOK
<1>5. ClientTypes'
  BY <1>1, <1>2 DEF Types, ClientTypes
<1>6. OrderOK'
  BY <1>1, <1>2, <1>3, OrderStep DEF SendsAtMost
<1>7. WaitsOK'
  BY <1>1, <1>2, <1>3, WaitsStep
<1>8. JobOK(p)' /\ ProgressOK(p)'
  BY <1>1, <1>2, <1>4 DEF JobOK, ProgressOK, Active
<1> QED BY <1>1, <1>2, <1>5, <1>6, <1>7, <1>8, ClientMoves DEF Elems

LEMMA TryFullInv ==
  ASSUME ClientInv, NEW p \in Producers, TryFull(p)
  PROVE  ClientInv'
<1>1. /\ Types /\ OrderOK /\ WaitsOK /\ JobOK(p)
      /\ pc[p] = "sending" /\ Returned(p, "Err") /\ Len(Program[job[p].call]) = 1
      /\ chan' = chan /\ slot' = slot /\ UNCHANGED dispatcher
  BY DEF ClientInv, TryFull
<1>2. /\ pc' \in [Producers -> {"idle", "sending", "waiting", "gone"}]
      /\ job' \in [Producers -> Job] /\ out' = out /\ pc'[p] = "idle"
      /\ job'[p].call = job[p].call /\ job'[p].result = "Err"
      /\ \A q \in Producers \ {p} : pc'[q] = pc[q] /\ job'[q] = job[q]
  BY <1>1, ReturnedEffect
<1>3. disp' = disp /\ cur' = cur /\ log' = log
  BY <1>1 DEF dispatcher
<1>4. slot[p] = None
  BY <1>1 DEF JobOK
<1>5. ClientTypes'
  BY <1>1, <1>2 DEF Types, ClientTypes
<1>6. OrderOK'
  BY <1>1, <1>2, <1>3, OrderStep DEF SendsAtMost
<1>7. WaitsOK'
  BY <1>1, <1>2, <1>3, WaitsStep
<1>8. JobOK(p)' /\ ProgressOK(p)'
  BY <1>1, <1>2, <1>4 DEF JobOK, ProgressOK, Active
<1> QED BY <1>1, <1>2, <1>5, <1>6, <1>7, <1>8, ClientMoves DEF Elems
\* The call of p sends its next command.
GoesOn(p) ==
  /\ job[p].at < Len(Program[job[p].call])
  /\ pc'[p] = "sending"
  /\ job'[p].call = job[p].call /\ job'[p].at = job[p].at + 1
  /\ out'[p] \in Cmd /\ out'[p].by = p /\ out'[p].n = out[p].n + 1
  /\ out'[p].kind = Program[job[p].call][job[p].at + 1]

\* The call of p returns.
Ends(p) ==
  /\ pc'[p] = "idle" /\ out'[p] = out[p]
  /\ job'[p].call = job[p].call /\ job'[p].at = job[p].at

\* The fields of the producers have their types, and only those of p change.
OnlyMoves(p) ==
  /\ pc' \in [Producers -> {"idle", "sending", "waiting", "gone"}]
  /\ job' \in [Producers -> Job] /\ out' \in [Producers -> Cmd \cup {Idle}]
  /\ \A q \in Producers \ {p} : pc'[q] = pc[q] /\ job'[q] = job[q] /\ out'[q] = out[q]

LEMMA NextCommand ==
  ASSUME Types, NEW p \in Producers, JobOK(p), Active(p), NEW r \in {"Ok", "Err"},
         job[p].at < Len(Program[job[p].call]),
         Sending(p, job[p].call, job[p].at + 1, r)
  PROVE  OnlyMoves(p) /\ GoesOn(p)
<1>1. /\ job[p].call \in DOMAIN Program /\ job[p].at \in 1..Len(Program[job[p].call])
      /\ Program[job[p].call] \in Seq(DOMAIN Shape)
  BY TablesAgree DEF JobOK
<1>2. job[p].at + 1 \in 1..Len(Program[job[p].call])
  BY <1>1, LenProperties
<1> DEFINE m == job[p].call
           i == job[p].at + 1
<1>3. m \in DOMAIN Program /\ i \in 1..Len(Program[m]) /\ Sending(p, m, i, r)
  BY <1>1, <1>2
<1> HIDE DEF m, i
<1>4. /\ OnlyMoves(p) /\ pc'[p] = "sending" /\ job'[p].call = m /\ job'[p].at = i
      /\ out'[p] \in Cmd /\ out'[p].by = p /\ out'[p].n = out[p].n + 1
      /\ out'[p].kind = Program[m][i]
  BY <1>3, SendingEffect DEF OnlyMoves
<1> QED BY <1>4 DEF GoesOn, m, i

LEMMA Return ==
  ASSUME Types, NEW p \in Producers, NEW r \in {"Ok", "Err"}, Returned(p, r)
  PROVE  OnlyMoves(p) /\ Ends(p) /\ job'[p].result = r
<1>1. /\ pc' \in [Producers -> {"idle", "sending", "waiting", "gone"}]
      /\ job' \in [Producers -> Job] /\ out' = out
      /\ pc'[p] = "idle"
      /\ job'[p].call = job[p].call /\ job'[p].at = job[p].at /\ job'[p].result = r
      /\ \A q \in Producers \ {p} : pc'[q] = pc[q] /\ job'[q] = job[q]
  BY ReturnedEffect
<1> QED BY <1>1 DEF OnlyMoves, Ends, Types, ClientTypes

LEMMA AdvanceOk ==
  ASSUME Types, NEW p \in Producers, JobOK(p), Active(p), Advance(p, TRUE)
  PROVE  /\ OnlyMoves(p)
         /\ \/ GoesOn(p)
            \/ /\ Ends(p) /\ job'[p].result = job[p].result
               /\ job[p].at = Len(Program[job[p].call])
<1>1. job[p].result \in {"Ok", "Err"}
  BY DEF Types, ClientTypes, Job
<1>2. /\ job[p].at \in 1..Len(Program[job[p].call])
      /\ Len(Program[job[p].call]) \in Nat
  BY TablesAgree, LenProperties DEF JobOK
<1>3. CASE job[p].at < Len(Program[job[p].call])
  <2>1. Sending(p, job[p].call, job[p].at + 1, job[p].result)
    BY <1>3 DEF Advance
  <2> QED BY <1>1, <1>3, <2>1, NextCommand
<1>4. CASE ~(job[p].at < Len(Program[job[p].call]))
  <2>1. Returned(p, job[p].result)
    BY <1>4 DEF Advance
  <2>2. job[p].at = Len(Program[job[p].call])
    BY <1>2, <1>4
  <2> QED BY <1>1, <2>1, <2>2, Return
<1> QED BY <1>3, <1>4

LEMMA AdvanceErr ==
  ASSUME Types, NEW p \in Producers, JobOK(p), Active(p), Advance(p, FALSE)
  PROVE  /\ OnlyMoves(p)
         /\ \/ GoesOn(p) /\ job[p].call = "close_wait"
            \/ Ends(p) /\ (out[p].kind # "Close" => job'[p].result = "Err")
<1> DEFINE r == IF out[p].kind = "Close" THEN job[p].result ELSE "Err"
<1>1. r \in {"Ok", "Err"}
  BY DEF Types, ClientTypes, Job
<1>2. CASE job[p].at < Len(Program[job[p].call]) /\ job[p].call = "close_wait"
  <2>1. Sending(p, job[p].call, job[p].at + 1, r)
    BY <1>2 DEF Advance
  <2> HIDE DEF r
  <2> QED BY <1>1, <1>2, <2>1, NextCommand
<1>3. CASE ~(job[p].at < Len(Program[job[p].call]) /\ job[p].call = "close_wait")
  <2>1. Returned(p, r)
    BY <1>3 DEF Advance
  <2>2. out[p].kind # "Close" => r = "Err"
    OBVIOUS
  <2> HIDE DEF r
  <2> QED BY <1>1, <2>1, <2>2, Return
<1> QED BY <1>2, <1>3

\* What a checked call sends last is its barrier; it never closes.
LEMMA CheckedCall ==
  ASSUME NEW m \in Checked
  PROVE  /\ m \in DOMAIN Program /\ m # "close_wait" /\ Len(Program[m]) \in Nat
         /\ Len(Program[m]) > 1 /\ Program[m][Len(Program[m])] = "FlushAck"
         /\ \A i \in 1..Len(Program[m]) : Program[m][i] # "Close"
<1>1. m \in DOMAIN Program /\ m # "close_wait" /\ Len(Program[m]) > 1
  BY DEF Checked
<1> QED BY <1>1, TablesAgree, LenProperties

\* The next command of a call finds the barriers before it without error, and
\* the commands before it sent.
LEMMA GoesOnProgress ==
  ASSUME Types, NEW p \in Producers, JobOK(p), Active(p), GoesOn(p), log' = log,
         slot'[p] = None,
         job[p].call \in Checked =>
           /\ job[p].at <= out[p].n
           /\ BarriersOk(p, out[p].n + 1)
           /\ Alive' => \A k \in (First(p) + 1)..out[p].n : Reached(p, k)'
  PROVE  JobOK(p)' /\ ProgressOK(p)'
<1>1. out[p].n \in Nat /\ job[p].at \in Nat
  BY NumberType
<1>2. First(p)' = First(p)
  BY <1>1 DEF First, GoesOn
<1>3. JobOK(p)'
  <2>1. /\ job[p].call \in DOMAIN Program /\ job[p].at \in 1..Len(Program[job[p].call])
        /\ Program[job[p].call] \in Seq(DOMAIN Shape)
    BY TablesAgree DEF JobOK
  <2>2. Len(Program[job[p].call]) \in Nat
    BY <2>1, LenProperties
  <2>3. job[p].at + 1 \in 1..Len(Program[job[p].call])
    BY <2>1, <2>2 DEF GoesOn
  <2> QED BY <2>1, <2>3 DEF JobOK, GoesOn
<1>4. ProgressOK(p)'
  <2> SUFFICES ASSUME job'[p].call \in Checked PROVE ProgressOK(p)'
    BY DEF ProgressOK
  <2>1. job[p].call \in Checked
    BY DEF GoesOn
  <2>2. out'[p].n = out[p].n + 1 /\ job'[p].at = job[p].at + 1
    BY DEF GoesOn
  <2>3. BarriersOk(p, out[p].n)'
    BY <1>2, <2>1, <2>2 DEF BarriersOk, Ran, Barrier
  <2>4. Alive' => \A k \in (First(p)' + 1)..(out'[p].n - 1) : Reached(p, k)'
    BY <1>1, <1>2, <2>1, <2>2
  <2>5. job'[p].at <= out'[p].n
    BY <1>1, <2>1, <2>2
  <2>6. slot'[p] # "Ok" /\ pc'[p] # "idle"
    BY NoneFacts DEF GoesOn
  <2> QED BY <2>3, <2>4, <2>5, <2>6 DEF ProgressOK
<1> QED BY <1>3, <1>4
LEMMA EnqueueInv ==
  ASSUME ClientInv, NEW p \in Producers, Enqueue(p)
  PROVE  ClientInv'
<1>1. /\ Types /\ OrderOK /\ WaitsOK /\ JobOK(p) /\ ProgressOK(p)
      /\ pc[p] = "sending" /\ Alive /\ chan' = Append(chan, out[p])
      /\ slot' = slot /\ UNCHANGED dispatcher
  BY DEF ClientInv, Enqueue
<1>2. disp' = disp /\ cur' = cur /\ log' = log
  BY <1>1 DEF dispatcher
<1>3. /\ Active(p) /\ slot[p] = None /\ out[p] \in Cmd /\ out[p].by = p
      /\ job[p].call \in DOMAIN Program /\ out[p].kind = Program[job[p].call][job[p].at]
  BY <1>1 DEF JobOK, Active
<1>4. /\ chan \in Seq(Cmd) /\ chan' \in Seq(Cmd)
      /\ Elems(chan') = Elems(chan) \cup {out[p]}
  BY <1>1, <1>3, ElemsAppend DEF Types, ClientTypes
<1>5. Elems(chan)' = Elems(chan) \cup {out[p]}
  BY <1>4 DEF Elems
<1>6. CASE out[p].kind = "FlushAck"
  <2>1. pc' = [pc EXCEPT ![p] = "waiting"] /\ job' = job /\ out' = out
    BY <1>6 DEF Enqueue
  <2>2. /\ pc' \in [Producers -> {"idle", "sending", "waiting", "gone"}]
        /\ pc'[p] = "waiting" /\ \A q \in Producers \ {p} : pc'[q] = pc[q]
    BY <1>1, <2>1 DEF Types, ClientTypes
  <2>3. ClientTypes'
    BY <1>1, <1>4, <2>1, <2>2 DEF Types, ClientTypes
  <2>4. OrderOK'
    <3>1. SendsAtMost(p)
      BY <1>1, <1>3 DEF SendsAtMost
    <3>2. /\ \A q \in Producers \ {p} : pc'[q] = pc[q] /\ out'[q] = out[q]
          /\ out'[p] = out[p] /\ pc'[p] # "sending"
      BY <2>1, <2>2
    <3>3. Types /\ OrderOK
      BY <1>1
    <3> QED BY <1>2, <3>1, <3>2, <3>3, OrderStep
  <2>5. WaitsOK'
    BY <1>1, <1>2, <1>3, <2>1, <2>2, WaitsStep
  <2>6. JobOK(p)'
    BY <1>1, <1>3, <2>1, <2>2 DEF JobOK, Active
  <2>7. ProgressOK(p)'
    <3>1. First(p)' = First(p) /\ Alive' = Alive /\ slot'[p] # "Ok" /\ pc'[p] # "idle"
      BY <1>1, <1>2, <1>3, <2>1, <2>2, NoneFacts DEF First, Alive
    <3>2. Known \subseteq Known'
      BY <1>2, <1>5 DEF Known, Logged, Ran, Running
    <3>3. \A k : Reached(p, k) => Reached(p, k)'
      BY <3>2 DEF Reached
    <3>4. BarriersOk(p, out[p].n) => BarriersOk(p, out[p].n)'
      BY <1>2, <2>1, <3>1 DEF BarriersOk, Ran, Barrier
    <3> QED BY <1>1, <1>3, <2>1, <3>1, <3>3, <3>4 DEF ProgressOK
  <2> QED BY <1>1, <1>5, <2>1, <2>2, <2>3, <2>4, <2>5, <2>6, <2>7, ClientMoves
<1>7. CASE out[p].kind # "FlushAck"
  <2>1. Advance(p, TRUE)
    BY <1>7 DEF Enqueue
  <2>2. /\ OnlyMoves(p)
        /\ \/ GoesOn(p)
           \/ /\ Ends(p) /\ job'[p].result = job[p].result
              /\ job[p].at = Len(Program[job[p].call])
    BY <1>1, <1>3, <2>1, AdvanceOk
  <2>3. /\ \A q \in Producers \ {p} : pc'[q] = pc[q] /\ job'[q] = job[q] /\ out'[q] = out[q]
        /\ \/ out'[p].n = out[p].n + 1
           \/ out'[p] = out[p] /\ pc'[p] # "sending"
    BY <2>2 DEF OnlyMoves, GoesOn, Ends
  <2>4. ClientTypes'
    BY <1>1, <1>4, <2>2 DEF Types, ClientTypes, OnlyMoves
  <2>5. OrderOK'
    <3>1. SendsAtMost(p)
      BY <1>1, <1>3 DEF SendsAtMost
    <3>2. Types /\ OrderOK
      BY <1>1
    <3> QED BY <1>2, <2>3, <3>1, <3>2, OrderStep
  <2>6. WaitsOK'
    BY <1>1, <1>2, <1>3, <1>7, <2>3, WaitsStep
  <2>7. JobOK(p)' /\ ProgressOK(p)'
    <3>1. CASE GoesOn(p)
      <4>1. out[p].n \in Nat
        BY <1>1, NumberType
      <4>2. \A c \in Ran : log[c].cmd.by = p => log[c].cmd.n # out[p].n
        BY <1>1 DEF OrderOK, Known, Logged, Issue
      <4>3. \A c \in Ran : log[c].cmd.n \in Nat
        <5>1. \A c \in Ran : log[c] \in Entry
          BY <1>1, ElementOfSeq DEF Types, DispatcherTypes, Ran
        <5> QED BY <5>1 DEF Entry, Cmd
      <4>4. BarriersOk(p, out[p].n) => BarriersOk(p, out[p].n + 1)
        BY <4>1, <4>2, <4>3 DEF BarriersOk
      <4>5. Known \cup {out[p]} \subseteq Known'
        BY <1>2, <1>5 DEF Known, Logged, Ran, Running
      <4>6. \A k : Reached(p, k) => Reached(p, k)'
        BY <4>5 DEF Reached
      <4>7. \A k : k = out[p].n => Reached(p, k)'
        BY <1>3, <4>5 DEF Reached
      <4>8. First(p) \in Int
        BY <1>1, NumberType DEF First
      <4>9. \A k \in (First(p) + 1)..out[p].n :
              k \in (First(p) + 1)..(out[p].n - 1) \/ k = out[p].n
        BY <4>1, <4>8
      <4>10. job[p].call \in Checked =>
               /\ job[p].at <= out[p].n
               /\ BarriersOk(p, out[p].n)
               /\ \A k \in (First(p) + 1)..(out[p].n - 1) : Reached(p, k)
        BY <1>1, <1>3 DEF ProgressOK
      <4>11. job[p].call \in Checked =>
               /\ job[p].at <= out[p].n
               /\ BarriersOk(p, out[p].n + 1)
               /\ Alive' => \A k \in (First(p) + 1)..out[p].n : Reached(p, k)'
        BY <4>4, <4>6, <4>7, <4>9, <4>10
      <4> QED BY <1>1, <1>2, <1>3, <3>1, <4>11, GoesOnProgress
    <3>2. CASE Ends(p) /\ job[p].at = Len(Program[job[p].call])
      <4>1. job[p].call \notin Checked
        BY <1>3, <1>7, <3>2, CheckedCall
      <4> QED BY <1>1, <1>3, <3>2, <4>1 DEF JobOK, ProgressOK, Active, Ends
    <3> QED BY <2>2, <3>1, <3>2
  <2> QED BY <1>1, <1>5, <2>3, <2>4, <2>5, <2>6, <2>7, ClientMoves
<1> QED BY <1>6, <1>7

\* The end of the call of p, with an error that it passes on.
LEMMA FailedCall ==
  ASSUME Types, NEW p \in Producers, JobOK(p), Active(p), slot'[p] = None, log' = log,
         \/ GoesOn(p) /\ job[p].call = "close_wait"
         \/ Ends(p) /\ (out[p].kind # "Close" => job'[p].result = "Err")
  PROVE  JobOK(p)' /\ ProgressOK(p)'
<1>1. job[p].call \in Checked => out[p].kind # "Close"
  BY CheckedCall DEF JobOK
<1>2. CASE GoesOn(p) /\ job[p].call = "close_wait"
  <2>1. job[p].call \notin Checked
    BY <1>2, CheckedCall
  <2> QED BY <1>2, <2>1, GoesOnProgress
<1>3. CASE Ends(p) /\ (out[p].kind # "Close" => job'[p].result = "Err")
  BY <1>1, <1>3 DEF JobOK, ProgressOK, Active, Ends
<1> QED BY <1>2, <1>3

LEMMA SendFailsInv ==
  ASSUME ClientInv, NEW p \in Producers, SendFails(p)
  PROVE  ClientInv'
<1>1. /\ Types /\ OrderOK /\ WaitsOK /\ JobOK(p)
      /\ pc[p] = "sending" /\ chan' = chan /\ slot' = slot
      /\ Advance(p, FALSE) /\ UNCHANGED dispatcher
  BY DEF ClientInv, SendFails
<1>2. disp' = disp /\ cur' = cur /\ log' = log
  BY <1>1 DEF dispatcher
<1>3. Active(p) /\ slot[p] = None
  BY <1>1 DEF JobOK, Active
<1>4. /\ OnlyMoves(p)
      /\ \/ GoesOn(p) /\ job[p].call = "close_wait"
         \/ Ends(p) /\ (out[p].kind # "Close" => job'[p].result = "Err")
  BY <1>1, <1>3, AdvanceErr
<1>5. /\ \A q \in Producers \ {p} : pc'[q] = pc[q] /\ job'[q] = job[q] /\ out'[q] = out[q]
      /\ \/ out'[p].n = out[p].n + 1
         \/ out'[p] = out[p] /\ pc'[p] # "sending"
  BY <1>4 DEF OnlyMoves, GoesOn, Ends
<1>6. ClientTypes'
  BY <1>1, <1>4 DEF Types, ClientTypes, OnlyMoves
<1>7. OrderOK'
  BY <1>1, <1>2, <1>5, OrderStep DEF SendsAtMost
<1>8. WaitsOK'
  BY <1>1, <1>2, <1>5, WaitsStep
<1>9. JobOK(p)' /\ ProgressOK(p)'
  BY <1>1, <1>2, <1>3, <1>4, FailedCall
<1> QED BY <1>1, <1>5, <1>6, <1>7, <1>8, <1>9, ClientMoves DEF Elems

LEMMA WakeInv ==
  ASSUME ClientInv, NEW p \in Producers, Wake(p)
  PROVE  ClientInv'
<1>1. /\ Types /\ OrderOK /\ WaitsOK /\ JobOK(p) /\ ProgressOK(p)
      /\ pc[p] = "waiting" /\ slot[p] # None /\ slot' = [slot EXCEPT ![p] = None]
      /\ chan' = chan /\ UNCHANGED dispatcher
  BY DEF ClientInv, Wake
<1>2. disp' = disp /\ cur' = cur /\ log' = log
  BY <1>1 DEF dispatcher
<1>3. Active(p)
  BY <1>1 DEF Active
<1>4. /\ slot[p] \in {"Ok", "Err"} /\ slot'[p] = None
      /\ slot' \in [Producers -> {None, "Ok", "Err"}]
      /\ \A q \in Producers \ {p} : slot'[q] = slot[q]
  BY <1>1 DEF Types, ClientTypes
<1>5. (slot[p] = "Ok" /\ Advance(p, TRUE)) \/ (slot[p] = "Err" /\ Advance(p, FALSE))
  BY <1>4 DEF Wake, Advance
<1>6. ASSUME slot[p] = "Ok", Advance(p, TRUE) PROVE JobOK(p)' /\ ProgressOK(p)'
  <2>1. /\ OnlyMoves(p)
        /\ \/ GoesOn(p)
           \/ /\ Ends(p) /\ job'[p].result = job[p].result
              /\ job[p].at = Len(Program[job[p].call])
    BY <1>1, <1>3, <1>6, AdvanceOk
  <2>2. job[p].call \in Checked => job[p].at <= out[p].n /\ Complete(p)
    BY <1>1, <1>3, <1>6 DEF ProgressOK
  <2>3. CASE GoesOn(p)
    <3>1. Known' = Known
      BY <1>1, <1>2 DEF Known, Logged, Ran, Running, Elems
    <3>2. \A k : InLog(p, k) => Reached(p, k)'
      BY <3>1 DEF InLog, Reached, Known
    <3>3. job[p].call \in Checked =>
            /\ job[p].at <= out[p].n
            /\ BarriersOk(p, out[p].n + 1)
            /\ Alive' => \A k \in (First(p) + 1)..out[p].n : Reached(p, k)'
      BY <2>2, <3>2 DEF Complete
    <3> QED BY <1>1, <1>2, <1>3, <1>4, <2>1, <2>3, <3>3, GoesOnProgress
  <2>4. CASE Ends(p) /\ job[p].at = Len(Program[job[p].call])
    <3>1. JobOK(p)'
      BY <1>4, <2>4 DEF JobOK, Active, Ends
    <3>2. Complete(p) => Complete(p)'
      BY <1>2, <2>4 DEF Complete, InLog, Logged, Ran, BarriersOk, Barrier, First, Ends
    <3>3. ProgressOK(p)'
      BY <2>2, <2>4, <3>2 DEF ProgressOK, Active, Ends
    <3> QED BY <3>1, <3>3
  <2> QED BY <2>1, <2>3, <2>4
<1>7. ASSUME slot[p] = "Err", Advance(p, FALSE) PROVE JobOK(p)' /\ ProgressOK(p)'
  <2>1. /\ OnlyMoves(p)
        /\ \/ GoesOn(p) /\ job[p].call = "close_wait"
           \/ Ends(p) /\ (out[p].kind # "Close" => job'[p].result = "Err")
    BY <1>1, <1>3, <1>7, AdvanceErr
  <2> QED BY <1>1, <1>2, <1>3, <1>4, <2>1, FailedCall
<1>8. OnlyMoves(p) /\ (GoesOn(p) \/ Ends(p))
  BY <1>1, <1>3, <1>5, AdvanceOk, AdvanceErr
<1>9. /\ \A q \in Producers \ {p} : pc'[q] = pc[q] /\ job'[q] = job[q] /\ out'[q] = out[q]
      /\ \/ out'[p].n = out[p].n + 1
         \/ out'[p] = out[p] /\ pc'[p] # "sending"
  BY <1>8 DEF OnlyMoves, GoesOn, Ends
<1>10. ClientTypes'
  BY <1>1, <1>4, <1>8 DEF Types, ClientTypes, OnlyMoves
<1>11. OrderOK'
  BY <1>1, <1>2, <1>9, OrderStep DEF SendsAtMost
<1>12. WaitsOK'
  BY <1>1, <1>2, <1>4, <1>9, WaitsStep
<1>13. JobOK(p)' /\ ProgressOK(p)'
  BY <1>5, <1>6, <1>7
<1> QED BY <1>1, <1>4, <1>9, <1>10, <1>11, <1>12, <1>13, ClientMoves DEF Elems
-----------------------------------------------------------------------------
(* The dispatcher moves.                                                   *)

LEMMA LogTypes ==
  ASSUME Types
  PROVE  /\ Len(log) \in Nat
         /\ \A c \in Ran : /\ log[c] \in Entry /\ log[c].cmd \in Cmd
                           /\ log[c].cmd.n \in Nat /\ log[c].ok \in BOOLEAN
<1>1. log \in Seq(Entry)
  BY DEF Types, DispatcherTypes
<1>2. \A c \in Ran : log[c] \in Entry
  BY <1>1, ElementOfSeq DEF Ran
<1> QED BY <1>1, <1>2, LenProperties DEF Entry, Cmd

\* What has reached the wire stays there.
LEMMA DeliveredStays ==
  ASSUME DeliveredOK, log' = log, Elems(wire) \subseteq Elems(wire')
  PROVE  DeliveredOK'
<1>1. \A e, i : Sent(e, i) => Sent(e, i)'
  BY DEF Sent, Elems
<1> QED BY <1>1 DEF DeliveredOK, Ran, Barrier

\* What has been accepted stays accepted.
LEMMA AcceptedStays ==
  ASSUME Elems(accepted) \subseteq Elems(accepted'), NEW e, NEW i, Accepted(e, i)
  PROVE  Accepted(e, i)'
BY DEF Accepted, Elems

LEMMA RecvInv ==
  ASSUME ClientInv, Recv
  PROVE  ClientInv'
<1>1. /\ Types /\ OrderOK /\ WaitsOK /\ MemoryOK /\ ServingOK /\ DeliveredOK
      /\ disp = "recv" /\ chan # <<>> /\ cur' = Head(chan) /\ chan' = Tail(chan)
      /\ disp' = "run" /\ UNCHANGED <<writer, clients, step, clean, pendingError, log>>
  BY DEF ClientInv, Recv
<1>2. /\ wire' = wire /\ pending' = pending /\ accepted' = accepted /\ pushed' = pushed
      /\ pc' = pc /\ job' = job /\ out' = out /\ slot' = slot
      /\ step' = step /\ clean' = clean /\ pendingError' = pendingError /\ log' = log
  BY <1>1 DEF writer, clients
<1>3. chan \in Seq(Cmd)
  BY <1>1 DEF Types, ClientTypes
<1>4. /\ Head(chan) \in Cmd /\ Tail(chan) \in Seq(Cmd) /\ Head(chan) = chan[1]
      /\ Elems(chan) = {Head(chan)} \cup Elems(Tail(chan))
      /\ Len(chan) \in Nat \ {0} /\ Len(Tail(chan)) = Len(chan) - 1
      /\ \A i \in 1..(Len(chan) - 1) : Tail(chan)[i] = chan[i + 1]
  BY <1>1, <1>3, ElemsTail
<1>5. /\ Running = {} /\ Running' = {Head(chan)} /\ Logged' = Logged
      /\ Elems(chan)' = Elems(Tail(chan))
  BY <1>1, <1>2 DEF Running, Logged, Ran, Elems
<1>6. /\ Known' = Known /\ Running' \cup Elems(chan)' = Elems(chan)
  BY <1>4, <1>5 DEF Known
<1>7. Types'
  BY <1>1, <1>2, <1>4 DEF Types, WriterTypes, ClientTypes, DispatcherTypes
<1>8. OrderOK'
  <2>1. \A e \in Known : Issue(e)'
    BY <1>1, <1>2 DEF OrderOK, Issue
  <2>2. \A f \in Elems(Tail(chan)) : Before(Head(chan), f)
    <3>1. \A i \in 1..(Len(chan) - 1) :
            1 \in 1..Len(chan) /\ i + 1 \in 1..Len(chan) /\ 1 < i + 1
      BY <1>4
    <3>2. \A i \in 1..(Len(chan) - 1) : Before(chan[1], chan[i + 1])
      BY <1>1, <3>1 DEF OrderOK
    <3> QED BY <1>4, <3>2 DEF Elems
  <2>3. \A i, j \in 1..Len(Tail(chan)) : i < j => Before(Tail(chan)[i], Tail(chan)[j])
    <3> SUFFICES ASSUME NEW i \in 1..Len(Tail(chan)), NEW j \in 1..Len(Tail(chan)), i < j
                 PROVE  Before(Tail(chan)[i], Tail(chan)[j])
      OBVIOUS
    <3>1. i + 1 \in 1..Len(chan) /\ j + 1 \in 1..Len(chan) /\ i + 1 < j + 1
      BY <1>4
    <3>2. Tail(chan)[i] = chan[i + 1] /\ Tail(chan)[j] = chan[j + 1]
      BY <1>4
    <3> QED BY <1>1, <3>1, <3>2 DEF OrderOK
  <2>4. \A c, d \in Ran' : c < d => Before(log'[c].cmd, log'[d].cmd)
    BY <1>1, <1>2 DEF OrderOK, Ran
  <2>5. \A e \in Logged' : \A f \in Running' \cup Elems(chan)' : Before(e, f)
    BY <1>1, <1>5, <1>6 DEF OrderOK
  <2>6. \A e \in Running' : \A f \in Elems(chan)' : Before(e, f)
    BY <1>5, <2>2
  <2>7. \A i, j \in 1..Len(chan)' : i < j => Before(chan'[i], chan'[j])
    BY <1>1, <2>3
  <2> QED BY <1>6, <2>1, <2>4, <2>5, <2>6, <2>7 DEF OrderOK, Before
<1>9. WaitsOK'
  BY <1>1, <1>2, <1>5, <1>6 DEF WaitsOK
<1>10. \A q \in Producers : JobOK(q)' /\ ProgressOK(q)'
  <2> SUFFICES ASSUME NEW q \in Producers PROVE JobOK(q)' /\ ProgressOK(q)'
    OBVIOUS
  <2>1. JobOK(q) /\ ProgressOK(q)
    BY DEF ClientInv
  <2>2. Alive
    BY <1>1 DEF Alive
  <2>3. \A c \in 1..Len(log') : c \in Ran /\ log'[c] = log[c]
    BY <1>2 DEF Ran
  <2> QED BY <1>2, <1>5, <1>6, <2>1, <2>2, <2>3, OtherKeeps
<1>11. MemoryOK'
  BY <1>1, <1>2 DEF MemoryOK, Ran, Bad, Untaken, Taken, Barrier
<1>12. ServingOK'
  <2>1. step = 0 /\ \A i \in 1..0 : FALSE
    BY <1>1 DEF Types, DispatcherTypes
  <2>2. \A c \in Ran' : log'[c].ok =>
          \A i \in 1..Messages(log'[c].cmd.kind) : Accepted(log[c].cmd, i)'
    <3>1. \A e, i : Accepted(e, i) => Accepted(e, i)'
      BY <1>2, AcceptedStays
    <3> QED BY <1>1, <1>2, <3>1 DEF ServingOK, Ran
  <2>3. NothingMissing'
    <3>1. NothingMissing
      BY <1>1 DEF ServingOK, NothingMissing
    <3>2. UNCHANGED <<accepted, wire, pending>>
      BY <1>2
    <3> QED BY <3>1, <3>2, ZenonT(30) DEF NothingMissing, Elems
  <2> QED BY <1>2, <2>1, <2>2, <2>3 DEF ServingOK, NothingMissing
<1>13. DeliveredOK'
  <2>1. DeliveredOK /\ log' = log /\ wire' = wire
    BY <1>1, <1>2
  <2> QED BY <2>1, DeliveredStays
<1> QED BY <1>7, <1>8, <1>9, <1>10, <1>11, <1>12, <1>13 DEF ClientInv
\* The running command ends, with some outcome.
Finishes ==
  /\ disp = "run" /\ disp' # "run"
  /\ chan' = chan /\ pc' = pc /\ job' = job /\ out' = out
  /\ \E o \in BOOLEAN : log' = Append(log, [cmd |-> cur, ok |-> o])

LEMMA FinishesLog ==
  ASSUME Types, Finishes
  PROVE  /\ cur \in Cmd /\ log' \in Seq(Entry)
         /\ Len(log) \in Nat /\ Len(log') = Len(log) + 1
         /\ \A c \in Ran : log'[c] = log[c]
         /\ log'[Len(log) + 1].cmd = cur
         /\ \A o : log' = Append(log, [cmd |-> cur, ok |-> o]) =>
                     log'[Len(log) + 1].ok = o
         /\ \A c \in Ran' : c \in Ran \/ c = Len(log) + 1
         /\ \A c \in Ran : c \in Ran' /\ c # Len(log) + 1
         /\ Logged' = Logged \cup {cur} /\ Running = {cur} /\ Running' = {}
         /\ Elems(chan)' = Elems(chan) /\ Known' = Known
<1>1. PICK o \in BOOLEAN : log' = Append(log, [cmd |-> cur, ok |-> o])
  BY DEF Finishes
<1>2. log \in Seq(Entry) /\ cur \in Cmd
  BY DEF Types, DispatcherTypes, Finishes
<1>3. [cmd |-> cur, ok |-> o] \in Entry
  BY <1>2 DEF Entry
<1>4. /\ log' \in Seq(Entry)
      /\ Len(log) \in Nat /\ Len(log') = Len(log) + 1
      /\ \A i \in 1..Len(log) : log'[i] = log[i]
      /\ log'[Len(log) + 1] = [cmd |-> cur, ok |-> o]
  BY <1>1, <1>2, <1>3, ElemsAppend
<1>5. \A x : log' = Append(log, [cmd |-> cur, ok |-> x]) => x = o
  <2> SUFFICES ASSUME NEW x, log' = Append(log, [cmd |-> cur, ok |-> x]) PROVE x = o
    OBVIOUS
  <2>1. Append(log, [cmd |-> cur, ok |-> x])[Len(log) + 1] = [cmd |-> cur, ok |-> x]
    BY <1>2, AppendProperties
  <2>2. [cmd |-> cur, ok |-> x].ok = x /\ [cmd |-> cur, ok |-> o].ok = o
    OBVIOUS
  <2> QED BY <1>4, <2>1, <2>2
<1>6. /\ \A c \in Ran' : c \in Ran \/ c = Len(log) + 1
      /\ \A c \in Ran : c \in Ran' /\ c # Len(log) + 1
      /\ Len(log) + 1 \in Ran'
  BY <1>4 DEF Ran
<1>7. log'[Len(log) + 1].cmd = cur /\ log'[Len(log) + 1].ok = o
  BY <1>4
<1>8. \A c \in Ran : log'[c] = log[c]
  BY <1>4 DEF Ran
<1>9. Logged' = Logged \cup {cur}
  BY <1>6, <1>7, <1>8 DEF Logged
<1>10. Running = {cur} /\ Running' = {} /\ Elems(chan)' = Elems(chan)
  BY DEF Running, Elems, Finishes
<1>11. Known' = Known
  BY <1>9, <1>10 DEF Known
<1> QED BY <1>2, <1>4, <1>5, <1>6, <1>7, <1>8, <1>9, <1>10, <1>11

LEMMA FinishesOrder ==
  ASSUME Types, OrderOK, Finishes
  PROVE  OrderOK'
<1>1. pc' = pc /\ out' = out /\ chan' = chan
  BY DEF Finishes
<1>2. \A e \in Known' : Issue(e)'
  BY <1>1, FinishesLog DEF OrderOK, Issue
<1>3. \A c, d \in Ran' : c < d => Before(log'[c].cmd, log'[d].cmd)
  <2> SUFFICES ASSUME NEW c \in Ran', NEW d \in Ran', c < d
               PROVE  Before(log'[c].cmd, log'[d].cmd)
    OBVIOUS
  <2>1. c \in Ran /\ (d \in Ran \/ d = Len(log) + 1)
    BY FinishesLog DEF Ran
  <2>2. log'[c] = log[c]
    BY <2>1, FinishesLog
  <2>3. CASE d \in Ran
    BY <2>1, <2>2, <2>3, FinishesLog DEF OrderOK
  <2>4. CASE d = Len(log) + 1
    <3>1. log[c].cmd \in Logged /\ cur \in Running /\ log'[d].cmd = cur
      BY <2>1, <2>4, FinishesLog DEF Logged
    <3> QED BY <2>2, <3>1 DEF OrderOK
  <2> QED BY <2>1, <2>3, <2>4
<1>4. \A e \in Logged' : \A f \in Running' \cup Elems(chan)' : Before(e, f)
  BY FinishesLog DEF OrderOK
<1>5. \A e \in Running' : \A f \in Elems(chan)' : Before(e, f)
  BY FinishesLog
<1>6. \A i, j \in 1..Len(chan)' : i < j => Before(chan'[i], chan'[j])
  BY <1>1 DEF OrderOK
<1> QED BY <1>2, <1>3, <1>4, <1>5, <1>6 DEF OrderOK, Before

LEMMA FinishesProgress ==
  ASSUME ClientInv, Finishes, NEW q \in Producers, slot'[q] = slot[q],
         cur.by # q \/ cur.kind # "FlushAck"
  PROVE  JobOK(q)' /\ ProgressOK(q)'
<1>1. Types /\ JobOK(q) /\ ProgressOK(q)
  BY DEF ClientInv
<1>2. pc' = pc /\ out' = out /\ job' = job /\ Alive
  BY DEF Finishes, Alive
<1>3. Known \subseteq Known' /\ Logged \subseteq Logged'
  BY <1>1, FinishesLog
<1>4. \A c \in 1..Len(log') :
        \/ c \in Ran /\ log'[c] = log[c]
        \/ log'[c].cmd.by # q \/ log'[c].cmd.kind # "FlushAck"
  BY <1>1, FinishesLog DEF Ran
<1> QED BY <1>1, <1>2, <1>3, <1>4, OtherKeeps

\* The memory of the first error, when the command that ends is no barrier.
LEMMA FinishesMemory ==
  ASSUME Types, MemoryOK, Finishes, cur.kind # "FlushAck",
         pendingError # None => pendingError' # None,
         ~log'[Len(log) + 1].ok /\ cur.kind # "Close" => pendingError' # None,
         ~clean' => pendingError' # None,
         cur.kind = "Close" => disp' # "recv"
  PROVE  MemoryOK'
<1> DEFINE n == Len(log) + 1
<1>1. /\ Len(log) \in Nat /\ Len(log') = n /\ \A c \in Ran : log'[c] = log[c]
      /\ log'[n].cmd = cur /\ \A c \in Ran' : c \in Ran \/ c = n
  BY FinishesLog
<1>2. \A c \in Ran : log[c].cmd.kind # "Close"
  BY DEF MemoryOK, Finishes
<1>3. \A c \in Ran' : log'[c].cmd.kind = "Close" =>
        c = Len(log') /\ disp' \notin {"recv", "run"}
  <2>1. disp' # "run"
    BY DEF Finishes
  <2> QED BY <1>1, <1>2, <2>1
<1> HIDE DEF n
<1>4. \A d : d = n => ~Barrier(d)'
  BY <1>1 DEF Barrier, n
<1>5. \A c \in Ran : (Bad(c)' => Bad(c)) /\ (Barrier(c)' <=> Barrier(c))
  BY <1>1 DEF Bad, Barrier
<1>6. ASSUME NEW c \in Ran, Untaken(c) PROVE Untaken(c)'
  <2>1. \A d \in (c + 1)..Len(log') : d \in (c + 1)..Len(log) \/ d = n
    BY <1>1 DEF Ran, n
  <2>2. \A d \in (c + 1)..Len(log) : d \in Ran
    BY <1>1 DEF Ran
  <2>3. \A d \in (c + 1)..Len(log') : ~Barrier(d)'
    BY <1>4, <1>5, <1>6, <2>1, <2>2 DEF Untaken
  <2> QED BY <1>6, <2>3 DEF Untaken
<1>7. ASSUME NEW c \in Ran, Taken(c) PROVE Taken(c)'
  <2>1. PICK d \in (c + 1)..Len(log) :
          Barrier(d) /\ ~log[d].ok /\ \A x \in (c + 1)..(d - 1) : ~Barrier(x)
    BY <1>7 DEF Taken
  <2>2. d \in (c + 1)..Len(log') /\ d \in Ran /\ \A x \in (c + 1)..(d - 1) : x \in Ran
    BY <1>1 DEF Ran, n
  <2>3. Barrier(d)' /\ ~log'[d].ok /\ \A x \in (c + 1)..(d - 1) : ~Barrier(x)'
    BY <1>1, <1>5, <2>1, <2>2
  <2> QED BY <2>2, <2>3 DEF Taken
<1>8. ASSUME NEW c \in Ran', Bad(c)' PROVE Untaken(c)' \/ Taken(c)'
  <2>1. CASE c \in Ran
    BY <1>5, <1>6, <1>7, <1>8, <2>1 DEF MemoryOK
  <2>2. CASE c = n
    <3>1. pendingError' # None
      BY <1>1, <1>8, <2>2 DEF Bad, n
    <3>2. \A d \in (c + 1)..Len(log') : FALSE
      BY <1>1, <2>2 DEF n
    <3> QED BY <3>1, <3>2 DEF Untaken
  <2> QED BY <1>1, <1>8, <2>1, <2>2
<1> QED BY <1>3, <1>8 DEF MemoryOK

LEMMA FinishesServing ==
  ASSUME Types, ServingOK, Finishes, NothingMissing',
         Elems(accepted) \subseteq Elems(accepted'),
         log'[Len(log) + 1].ok =>
           \A i \in 1..Messages(cur.kind) : \E m \in Elems(accepted') : m.cmd = cur /\ m.part = i
  PROVE  ServingOK'
<1> DEFINE n == Len(log) + 1
<1>1. /\ \A c \in Ran : log'[c] = log[c]
      /\ log'[n].cmd = cur /\ \A c \in Ran' : c \in Ran \/ c = n
  BY FinishesLog
<1>2. \A e, i : Accepted(e, i) => Accepted(e, i)'
  BY AcceptedStays
<1>3. ASSUME NEW c \in Ran', log'[c].ok, NEW i \in 1..Messages(log'[c].cmd.kind)
      PROVE  Accepted(log[c].cmd, i)'
  <2>1. CASE c \in Ran
    <3>1. Accepted(log[c].cmd, i)
      BY <1>1, <1>3, <2>1 DEF ServingOK, Finishes
    <3>2. log'[c].cmd = log[c].cmd
      BY <1>1, <2>1
    <3> QED BY <1>2, <3>1, <3>2
  <2>2. CASE c = n
    BY <1>1, <1>3, <2>2 DEF Accepted, Elems
  <2> QED BY <1>1, <1>3, <2>1, <2>2
<1> QED BY <1>3 DEF ServingOK, NothingMissing, Finishes

LEMMA FinishesDelivered ==
  ASSUME Types, DeliveredOK, Finishes, Elems(wire) \subseteq Elems(wire'),
         (cur.kind = "FlushAck" /\ log'[Len(log) + 1].ok) =>
           \A c \in Ran : log[c].ok =>
             \A i \in 1..Messages(log[c].cmd.kind) : Sent(log[c].cmd, i)
               \/ \E m \in Elems(wire') : m.cmd = log[c].cmd /\ m.part = i
  PROVE  DeliveredOK'
<1> DEFINE n == Len(log) + 1
<1>1. /\ Len(log) \in Nat /\ \A c \in Ran : log'[c] = log[c]
      /\ log'[n].cmd = cur /\ \A c \in Ran' : c \in Ran \/ c = n
  BY FinishesLog
<1>2. \A e, i : Sent(e, i) => Sent(e, i)'
  BY DEF Sent, Elems
<1>3. \A e, i : (\E m \in Elems(wire') : m.cmd = e /\ m.part = i) => Sent(e, i)'
  BY DEF Sent, Elems
<1>4. ASSUME NEW b \in Ran', Barrier(b)', log'[b].ok, NEW c \in 1..(b - 1), log'[c].ok,
             NEW i \in 1..Messages(log'[c].cmd.kind)
      PROVE  Sent(log[c].cmd, i)'
  <2>1. c \in Ran /\ log'[c] = log[c]
    BY <1>1, <1>4 DEF Ran
  <2>2. Sent(log[c].cmd, i) \/ \E m \in Elems(wire') : m.cmd = log[c].cmd /\ m.part = i
    <3>1. CASE b \in Ran
      BY <1>1, <1>4, <2>1, <3>1 DEF DeliveredOK, Barrier
    <3>2. CASE b = n
      BY <1>1, <1>4, <2>1, <3>2 DEF Barrier
    <3> QED BY <1>1, <1>4, <3>1, <3>2
  <2> QED BY <1>2, <1>3, <2>1, <2>2
<1> QED BY <1>4 DEF DeliveredOK
\* A command other than a barrier ends.
LEMMA FinishesInv ==
  ASSUME ClientInv, Finishes, cur.kind # "FlushAck", slot' = slot,
         WriterTypes', Elems(wire) \subseteq Elems(wire'),
         step' \in Nat, clean' \in BOOLEAN,
         \/ disp' \in {"inner", "unwind"}
         \/ /\ disp' = "recv" /\ step' = 0 /\ cur.kind # "Close"
            /\ NothingMissing' /\ Elems(accepted) \subseteq Elems(accepted')
            /\ log'[Len(log) + 1].ok => \A i \in 1..Messages(cur.kind) :
                 \E m \in Elems(accepted') : m.cmd = cur /\ m.part = i,
         pendingError # None => pendingError' # None,
         ~log'[Len(log) + 1].ok /\ cur.kind # "Close" => pendingError' # None,
         ~clean' => pendingError' # None
  PROVE  ClientInv'
<1>1. /\ Types /\ OrderOK /\ WaitsOK /\ MemoryOK /\ ServingOK /\ DeliveredOK
      /\ pc' = pc /\ out' = out /\ job' = job /\ chan' = chan
  BY DEF ClientInv, Finishes
<1>2. log' \in Seq(Entry) /\ Running' = {} /\ Elems(chan)' = Elems(chan)
  BY <1>1, FinishesLog
<1>3. Types'
  BY <1>1, <1>2 DEF Types, ClientTypes, DispatcherTypes
<1>4. OrderOK'
  BY <1>1, FinishesOrder
<1>5. WaitsOK'
  BY <1>1, <1>2 DEF WaitsOK
<1>6. \A q \in Producers : JobOK(q)' /\ ProgressOK(q)'
  BY FinishesProgress
<1>7. cur.kind = "Close" => disp' # "recv"
  OBVIOUS
<1>8. MemoryOK'
  BY <1>1, <1>7, FinishesMemory
<1>9. ServingOK'
  <2>1. CASE disp' \in {"inner", "unwind"}
    BY <2>1 DEF ServingOK
  <2>2. CASE disp' = "recv"
    BY <1>1, <2>2, FinishesServing
  <2> QED BY <2>1, <2>2
<1>10. DeliveredOK'
  BY <1>1, FinishesDelivered
<1> QED BY <1>3, <1>4, <1>5, <1>6, <1>8, <1>9, <1>10 DEF ClientInv

LEMMA RefusedKinds ==
  \A k \in Refused \cup {"TypeTextStrict"} : k # "FlushAck" /\ k # "Close"
BY DEF Refused, MouseCommands, GamepadCommands, GamepadBatches

LEMMA DoneFinishes ==
  ASSUME NEW o \in BOOLEAN, disp = "run",
         log' = Append(log, [cmd |-> cur, ok |-> o]), disp' # "run",
         chan' = chan, pc' = pc, job' = job, out' = out, Types
  PROVE  Finishes /\ log'[Len(log) + 1].ok = o
<1>1. Finishes
  BY DEF Finishes
<1> QED BY <1>1, FinishesLog

LEMMA RunRefusedInv ==
  ASSUME ClientInv, RunRefused
  PROVE  ClientInv'
<1>1. /\ Types /\ ServingOK /\ disp = "run" /\ cur.kind \in Refused \cup {"TypeTextStrict"}
      /\ RecordFirstError(TRUE) /\ Done(FALSE) /\ UNCHANGED <<writer, chan, clients>>
  BY DEF ClientInv, RunRefused
<1>2. /\ WriterTypes' /\ wire' = wire /\ pending' = pending /\ accepted' = accepted
      /\ chan' = chan /\ pc' = pc /\ job' = job /\ out' = out /\ slot' = slot
  BY <1>1 DEF writer, clients, Types, WriterTypes
<1>3. /\ log' = Append(log, [cmd |-> cur, ok |-> FALSE])
      /\ disp' = "recv" /\ step' = 0 /\ clean' = TRUE
  BY <1>1 DEF Done
<1>4. Finishes /\ log'[Len(log) + 1].ok = FALSE
  BY <1>1, <1>2, <1>3, DoneFinishes
<1>5. cur \in Cmd
  BY <1>1 DEF Types, DispatcherTypes
<1>6. pendingError' # None
  BY <1>1, <1>5, NoneFacts DEF RecordFirstError
<1>7. cur.kind # "FlushAck" /\ cur.kind # "Close"
  BY <1>1, RefusedKinds
<1>8. NothingMissing'
  BY <1>1, <1>2 DEF ServingOK, NothingMissing, Elems
<1> QED BY <1>2, <1>3, <1>4, <1>6, <1>7, <1>8, FinishesInv

LEMMA RunLocalInv ==
  ASSUME ClientInv, RunLocal
  PROVE  ClientInv'
<1>1. /\ Types /\ ServingOK /\ disp = "run" /\ cur.kind = "SetScreenSize"
      /\ Done(TRUE) /\ UNCHANGED <<writer, chan, clients, pendingError>>
  BY DEF ClientInv, RunLocal
<1>2. /\ WriterTypes' /\ wire' = wire /\ pending' = pending /\ accepted' = accepted
      /\ chan' = chan /\ pc' = pc /\ job' = job /\ out' = out /\ slot' = slot
      /\ pendingError' = pendingError
  BY <1>1 DEF writer, clients, Types, WriterTypes
<1>3. /\ log' = Append(log, [cmd |-> cur, ok |-> TRUE])
      /\ disp' = "recv" /\ step' = 0 /\ clean' = TRUE
  BY <1>1 DEF Done
<1>4. Finishes /\ log'[Len(log) + 1].ok = TRUE
  BY <1>1, <1>2, <1>3, DoneFinishes
<1>5. Messages(cur.kind) = 0 /\ \A i \in 1..0 : FALSE
  BY <1>1, TablesAgree
<1>6. NothingMissing'
  <2>1. NothingMissing
    BY <1>1 DEF ServingOK, NothingMissing
  <2> QED BY <1>2, <2>1 DEF NothingMissing, Elems
<1>7. cur.kind # "FlushAck" /\ cur.kind # "Close"
  BY <1>1
<1> QED BY <1>2, <1>3, <1>4, <1>5, <1>6, <1>7, FinishesInv

LEMMA RunFlushInv ==
  ASSUME ClientInv, RunFlush
  PROVE  ClientInv'
<1>1. /\ Types /\ ServingOK /\ disp = "run" /\ cur.kind = "Flush" /\ W!ExplicitFlush
      /\ RecordFirstError(Failed) /\ Done(~Failed) /\ UNCHANGED <<chan, clients>>
  BY DEF ClientInv, RunFlush
<1>2. chan' = chan /\ pc' = pc /\ job' = job /\ out' = out /\ slot' = slot
  BY <1>1 DEF clients
<1>3. /\ log' = Append(log, [cmd |-> cur, ok |-> ~Failed])
      /\ disp' = "recv" /\ step' = 0 /\ clean' = TRUE
  BY <1>1 DEF Done
<1>4. Finishes /\ (Failed \/ log'[Len(log) + 1].ok) /\ (~Failed \/ ~log'[Len(log) + 1].ok)
  <2>1. disp' # "run" /\ disp = "run" /\ Types
    BY <1>1, <1>3
  <2>2. CASE Failed
    <3>1. log' = Append(log, [cmd |-> cur, ok |-> FALSE])
      BY <1>3, <2>2
    <3> QED BY <1>2, <2>1, <2>2, <3>1, DoneFinishes
  <2>3. CASE ~Failed
    <3>1. log' = Append(log, [cmd |-> cur, ok |-> TRUE])
      BY <1>3, <2>3
    <3> QED BY <1>2, <2>1, <2>3, <3>1, DoneFinishes
  <2> QED BY <2>2, <2>3
<1>5. Messages(cur.kind) = 0 /\ \A i \in 1..0 : FALSE
  BY <1>1, TablesAgree
<1>6. WriterTypes /\ NothingMissing
  BY <1>1 DEF Types, ServingOK, NothingMissing
<1>7. /\ WriterTypes' /\ Elems(wire) \subseteq Elems(wire') /\ accepted' = accepted
      /\ NothingMissing'
  BY <1>1, <1>6, FlushEffect
<1>8. cur \in Cmd
  BY <1>1 DEF Types, DispatcherTypes
<1>9. /\ Failed => pendingError' # None
      /\ pendingError # None => pendingError' # None
  BY <1>1, <1>8, NoneFacts DEF RecordFirstError
<1>10. cur.kind # "FlushAck" /\ cur.kind # "Close"
  BY <1>1
<1> QED BY <1>2, <1>3, <1>4, <1>5, <1>7, <1>9, <1>10, FinishesInv
LEMMA ReportPacket ==
  ASSUME Types, disp = "run", NEW k \in Nat
  PROVE  /\ Report(cur, k) \in Packet /\ ~Report(cur, k).critical
         /\ Report(cur, k).cmd = cur /\ Report(cur, k).part = k
BY DEF Report, Packet, Types, WriterTypes, DispatcherTypes

\* What a message of the running command does to the writer and to the error.
LEMMA MessageEffect ==
  ASSUME ClientInv, RunMessage
  PROVE  /\ WriterTypes' /\ Elems(wire) \subseteq Elems(wire')
         /\ Elems(accepted) \subseteq Elems(accepted') /\ NothingMissing'
         /\ (clean /\ ~Failed) => \A i \in 1..(step + 1) :
              \E m \in Elems(accepted') : m.cmd = cur /\ m.part = i
         /\ Failed => pendingError' # None
         /\ pendingError # None => pendingError' # None
         /\ ~clean => pendingError # None
         /\ cur \in Cmd /\ step \in Nat /\ Messages(cur.kind) \in Nat
         /\ step < Messages(cur.kind)
<1>1. /\ Types /\ ServingOK /\ MemoryOK /\ disp = "run" /\ step < Messages(cur.kind)
      /\ W!Push(Report(cur, step + 1))
  BY DEF ClientInv, RunMessage
<1>2. WriterTypes /\ NothingMissing /\ cur \in Cmd /\ step \in Nat /\ step + 1 \in Nat
  BY <1>1 DEF Types, DispatcherTypes, ServingOK, NothingMissing
<1> DEFINE m == Report(cur, step + 1)
<1>3. m \in Packet /\ ~m.critical /\ m.cmd = cur /\ m.part = step + 1
  BY <1>1, <1>2, ReportPacket
<1>4. W!Push(m)
  BY <1>1
<1> HIDE DEF m
<1>5. /\ WriterTypes' /\ Elems(wire) \subseteq Elems(wire')
      /\ Elems(accepted) \subseteq Elems(accepted')
      /\ last' # "Err" => m \in Elems(accepted')
      /\ NothingMissing'
  BY <1>2, <1>3, <1>4, ReportEffect
<1>6. ASSUME clean, ~Failed, NEW i \in 1..(step + 1)
      PROVE  \E x \in Elems(accepted') : x.cmd = cur /\ x.part = i
  <2>1. CASE i = step + 1
    BY <1>3, <1>5, <1>6, <2>1 DEF Failed
  <2>2. CASE i # step + 1
    <3>1. i \in 1..step
      BY <1>2, <1>6, <2>2
    <3>2. Accepted(cur, i)
      BY <1>1, <1>6, <3>1 DEF ServingOK
    <3> QED BY <1>5, <3>2 DEF Accepted
  <2> QED BY <2>1, <2>2
<1>7. RecordFirstError(Failed)
  BY DEF RunMessage
<1>8. pendingError' = IF Failed /\ pendingError = None THEN cur ELSE pendingError
  BY <1>7 DEF RecordFirstError
<1>9. /\ Failed => pendingError' # None
      /\ pendingError # None => pendingError' # None
  BY <1>2, <1>8, NoneFacts
<1>10. ~clean => pendingError # None
  BY <1>1 DEF MemoryOK
<1>11. Messages(cur.kind) \in Nat
  BY <1>2, TablesAgree DEF Cmd
<1> QED BY <1>1, <1>2, <1>5, <1>6, <1>9, <1>10, <1>11

LEMMA RunMessageInv ==
  ASSUME ClientInv, RunMessage
  PROVE  ClientInv'
<1>1. /\ Types /\ OrderOK /\ WaitsOK /\ MemoryOK /\ ServingOK /\ DeliveredOK
      /\ disp = "run" /\ UNCHANGED <<chan, clients>>
  BY DEF ClientInv, RunMessage
<1>2. chan' = chan /\ pc' = pc /\ job' = job /\ out' = out /\ slot' = slot
  BY <1>1 DEF clients
<1>3. /\ WriterTypes' /\ Elems(wire) \subseteq Elems(wire')
      /\ Elems(accepted) \subseteq Elems(accepted') /\ NothingMissing'
      /\ (clean /\ ~Failed) => \A i \in 1..(step + 1) :
           \E m \in Elems(accepted') : m.cmd = cur /\ m.part = i
      /\ Failed => pendingError' # None
      /\ pendingError # None => pendingError' # None
      /\ ~clean => pendingError # None
      /\ cur \in Cmd /\ step \in Nat /\ Messages(cur.kind) \in Nat
      /\ step < Messages(cur.kind)
  BY MessageEffect
<1>4. cur.kind # "FlushAck" /\ cur.kind # "Close"
  BY <1>3, TablesAgree
<1>5. CASE step + 1 = Messages(cur.kind) \/ (Shape[cur.kind].stops /\ Failed)
  <2>1. Done(clean /\ ~Failed)
    BY <1>5 DEF RunMessage
  <2>2. /\ log' = Append(log, [cmd |-> cur, ok |-> clean /\ ~Failed])
        /\ disp' = "recv" /\ step' = 0 /\ clean' = TRUE
    BY <2>1 DEF Done
  <2>3. disp' # "run"
    BY <2>2
  <2>4. Finishes /\ (log'[Len(log) + 1].ok => clean /\ ~Failed)
                 /\ (~log'[Len(log) + 1].ok => ~clean \/ Failed)
    <3>1. CASE clean /\ ~Failed
      <4>1. log' = Append(log, [cmd |-> cur, ok |-> TRUE])
        BY <2>2, <3>1
      <4> QED BY <1>1, <1>2, <2>3, <3>1, <4>1, DoneFinishes
    <3>2. CASE ~(clean /\ ~Failed)
      <4>1. log' = Append(log, [cmd |-> cur, ok |-> FALSE])
        BY <2>2, <3>2
      <4> QED BY <1>1, <1>2, <2>3, <3>2, <4>1, DoneFinishes
    <3> QED BY <3>1, <3>2
  <2>5. log'[Len(log) + 1].ok => \A i \in 1..Messages(cur.kind) :
          \E m \in Elems(accepted') : m.cmd = cur /\ m.part = i
    BY <1>3, <1>5, <2>4
  <2>6. ~log'[Len(log) + 1].ok => pendingError' # None
    BY <1>3, <2>4
  <2> QED BY <1>2, <1>3, <1>4, <2>2, <2>4, <2>5, <2>6, FinishesInv
<1>6. CASE ~(step + 1 = Messages(cur.kind) \/ (Shape[cur.kind].stops /\ Failed))
  <2>1. /\ step' = step + 1 /\ clean' = (clean /\ ~Failed)
        /\ disp' = disp /\ cur' = cur /\ log' = log
    BY <1>6 DEF RunMessage
  <2>2. clean' \in BOOLEAN /\ (clean' => clean /\ ~Failed) /\ (~clean' => ~clean \/ Failed)
    BY <2>1
  <2>3. Types'
    BY <1>1, <1>2, <1>3, <2>1, <2>2 DEF Types, ClientTypes, DispatcherTypes
  <2>4. /\ Logged' = Logged /\ Running' = Running /\ Elems(chan)' = Elems(chan)
        /\ Known' = Known
    BY <1>2, <2>1 DEF Logged, Ran, Running, Elems, Known
  <2>5. OrderOK'
    BY <1>1, <1>2, <2>1, <2>4 DEF OrderOK, Issue, Before, Ran
  <2>6. WaitsOK'
    BY <1>1, <1>2, <2>4 DEF WaitsOK
  <2>7. \A q \in Producers : JobOK(q)' /\ ProgressOK(q)'
    <3> SUFFICES ASSUME NEW q \in Producers PROVE JobOK(q)' /\ ProgressOK(q)'
      OBVIOUS
    <3>1. JobOK(q) /\ ProgressOK(q) /\ Alive
      BY <1>1 DEF ClientInv, Alive
    <3>2. \A c \in 1..Len(log') : c \in Ran /\ log'[c] = log[c]
      BY <2>1 DEF Ran
    <3> QED BY <1>2, <2>4, <3>1, <3>2, OtherKeeps
  <2>8. MemoryOK'
    <3>1. ~clean' => pendingError' # None
      BY <1>3, <2>2
    <3>2. /\ Ran' = Ran
          /\ \A c : (Bad(c)' <=> Bad(c)) /\ (Untaken(c) => Untaken(c)') /\ (Taken(c) => Taken(c)')
      BY <1>3, <2>1 DEF Ran, Bad, Untaken, Taken, Barrier
    <3>3. \A c \in Ran' : log'[c].cmd.kind = "Close" =>
            c = Len(log') /\ disp' \notin {"recv", "run"}
      BY <1>1, <2>1, <3>2 DEF MemoryOK
    <3> QED BY <1>1, <3>1, <3>2, <3>3 DEF MemoryOK
  <2>9. ServingOK'
    <3>1. \A e, i : Accepted(e, i) => Accepted(e, i)'
      BY <1>3, AcceptedStays
    <3>2. \A c \in Ran' : log'[c].ok =>
            \A i \in 1..Messages(log'[c].cmd.kind) : Accepted(log[c].cmd, i)'
      BY <1>1, <2>1, <3>1 DEF ServingOK, Ran
    <3>3. clean' => \A i \in 1..step' : Accepted(cur, i)'
      BY <1>3, <2>1, <2>2 DEF Accepted, Elems
    <3> QED BY <1>3, <3>2, <3>3 DEF ServingOK, NothingMissing
  <2>10. DeliveredOK'
    BY <1>1, <1>3, <2>1, DeliveredStays
  <2> QED BY <2>3, <2>5, <2>6, <2>7, <2>8, <2>9, <2>10 DEF ClientInv
<1> QED BY <1>5, <1>6
\* A barrier takes the error that is pending, and its answer says so.
LEMMA BarrierMemory ==
  ASSUME Types, MemoryOK, Finishes, cur.kind = "FlushAck", clean' = TRUE,
         pendingError # None => ~log'[Len(log) + 1].ok
  PROVE  MemoryOK'
<1> DEFINE n == Len(log) + 1
<1>1. /\ Len(log) \in Nat /\ Len(log') = n /\ \A c \in Ran : log'[c] = log[c]
      /\ log'[n].cmd = cur /\ \A c \in Ran' : c \in Ran \/ c = n
  BY FinishesLog
<1>2. \A c \in Ran : log[c].cmd.kind # "Close"
  BY DEF MemoryOK, Finishes
<1>3. \A c \in Ran' : log'[c].cmd.kind # "Close"
  BY <1>1, <1>2
<1> HIDE DEF n
<1>4. \A d : d = n => Barrier(d)'
  BY <1>1 DEF Barrier
<1>5. \A c \in Ran : (Bad(c)' => Bad(c)) /\ (Barrier(c)' <=> Barrier(c))
  BY <1>1 DEF Bad, Barrier
<1>6. ASSUME NEW c \in Ran, Untaken(c) PROVE Taken(c)'
  <2>1. n \in (c + 1)..Len(log') /\ n - 1 = Len(log)
    BY <1>1 DEF Ran, n
  <2>2. \A d \in (c + 1)..Len(log) : d \in Ran
    BY <1>1 DEF Ran
  <2>3. \A d \in (c + 1)..(n - 1) : ~Barrier(d)'
    BY <1>5, <1>6, <2>1, <2>2 DEF Untaken
  <2>4. ~log'[n].ok
    BY <1>6 DEF Untaken, n
  <2> QED BY <1>4, <2>1, <2>3, <2>4 DEF Taken
<1>7. ASSUME NEW c \in Ran, Taken(c) PROVE Taken(c)'
  <2>1. PICK d \in (c + 1)..Len(log) :
          Barrier(d) /\ ~log[d].ok /\ \A x \in (c + 1)..(d - 1) : ~Barrier(x)
    BY <1>7 DEF Taken
  <2>2. d \in (c + 1)..Len(log') /\ d \in Ran /\ \A x \in (c + 1)..(d - 1) : x \in Ran
    BY <1>1 DEF Ran, n
  <2>3. Barrier(d)' /\ ~log'[d].ok /\ \A x \in (c + 1)..(d - 1) : ~Barrier(x)'
    BY <1>1, <1>5, <2>1, <2>2
  <2> QED BY <2>2, <2>3 DEF Taken
<1>8. \A d : d = n => ~Bad(d)'
  BY <1>1 DEF Bad
<1>9. \A c \in Ran' : Bad(c)' => Taken(c)'
  BY <1>1, <1>5, <1>6, <1>7, <1>8 DEF MemoryOK
<1> QED BY <1>3, <1>9 DEF MemoryOK

\* The answer of a barrier tells its producer that all of its call has run.
LEMMA BarrierProgress ==
  ASSUME ClientInv, Finishes, cur.kind = "FlushAck", slot'[cur.by] \in {"Ok", "Err"},
         slot'[cur.by] = "Ok" => log'[Len(log) + 1].ok
  PROVE  \A p \in Producers : p = cur.by => JobOK(p)' /\ ProgressOK(p)'
<1> SUFFICES ASSUME NEW p \in Producers, p = cur.by PROVE JobOK(p)' /\ ProgressOK(p)'
  OBVIOUS
<1>1. /\ Types /\ OrderOK /\ WaitsOK /\ JobOK(p) /\ ProgressOK(p)
      /\ disp = "run" /\ pc' = pc /\ out' = out /\ job' = job /\ chan' = chan
  BY DEF ClientInv, Finishes
<1>2. /\ cur \in Cmd /\ Len(log) \in Nat /\ \A c \in Ran : log'[c] = log[c]
      /\ log'[Len(log) + 1].cmd = cur /\ \A c \in Ran' : c \in Ran \/ c = Len(log) + 1
      /\ Logged' = Logged \cup {cur} /\ Running = {cur}
  BY <1>1, FinishesLog
<1>3. pc[p] = "waiting" /\ out[p] = cur /\ slot[p] = None
  BY <1>1, <1>2 DEF WaitsOK
<1>4. JobOK(p)'
  BY <1>1, <1>3 DEF JobOK, Active
<1>5. ProgressOK(p)'
  <2> SUFFICES ASSUME job[p].call \in Checked PROVE ProgressOK(p)'
    BY <1>1 DEF ProgressOK
  <2>1. Alive /\ Active(p)
    BY <1>1, <1>3 DEF Alive, Active
  <2>2. /\ job[p].at <= out[p].n /\ BarriersOk(p, out[p].n)
        /\ \A k \in (First(p) + 1)..(out[p].n - 1) : Reached(p, k)
    BY <1>1, <1>3, <2>1 DEF ProgressOK
  <2>3. First(p)' = First(p) /\ First(p) \in Int /\ out[p].n \in Nat
    BY <1>1, NumberType DEF First
  <2>4. BarriersOk(p, out[p].n)'
    <3>1. ASSUME NEW c \in Ran', log'[c].cmd.by = p, log'[c].cmd.n > First(p),
                 log'[c].cmd.n < out[p].n, Barrier(c)'
          PROVE  log'[c].ok
      <4>1. c # Len(log) + 1
        BY <1>2, <1>3, <2>3, <3>1
      <4>2. c \in Ran /\ log'[c] = log[c]
        BY <1>2, <4>1
      <4> QED BY <2>2, <3>1, <4>2 DEF BarriersOk, Barrier
    <3> QED BY <1>1, <2>3, <3>1 DEF BarriersOk
  <2>5. ASSUME slot'[p] = "Ok" PROVE Complete(p)'
    <3>1. out[p].kind = "FlushAck"
      BY <1>3
    <3>2. ASSUME NEW k \in (First(p) + 1)..out[p].n PROVE InLog(p, k)'
      <4>1. CASE k = out[p].n
        BY <1>2, <1>3, <4>1 DEF InLog
      <4>2. CASE k # out[p].n
        <5>1. k \in (First(p) + 1)..(out[p].n - 1)
          BY <2>3, <4>2
        <5>2. PICK e \in Known : e.by = p /\ e.n = k
          BY <2>2, <5>1 DEF Reached
        <5>3. e \notin Running
          BY <1>2, <1>3, <4>2, <5>2
        <5>4. e \notin Elems(chan)
          <6> SUFFICES ASSUME e \in Elems(chan) PROVE FALSE
            OBVIOUS
          <6>1. Before(cur, e)
            BY <1>1, <1>2 DEF OrderOK
          <6> QED BY <1>3, <2>3, <5>1, <5>2, <6>1 DEF Before
        <5>5. e \in Logged
          BY <5>3, <5>4 DEF Known
        <5> QED BY <1>2, <5>2, <5>5 DEF InLog
      <4> QED BY <4>1, <4>2
    <3>3. BarriersOk(p, out[p].n + 1)'
      <4>1. ASSUME NEW c \in Ran', log'[c].cmd.by = p, log'[c].cmd.n > First(p),
                   log'[c].cmd.n < out[p].n + 1, Barrier(c)'
            PROVE  log'[c].ok
        <5>1. CASE c = Len(log) + 1
          BY <2>5, <5>1
        <5>2. CASE c \in Ran
          <6>1. log'[c] = log[c] /\ log[c].cmd \in Logged /\ log[c].cmd.n \in Nat
            BY <1>1, <1>2, <5>2, LogTypes DEF Logged
          <6>2. log[c].cmd.n < cur.n
            BY <1>1, <1>2, <4>1, <6>1 DEF OrderOK, Before
          <6> QED BY <1>3, <2>2, <4>1, <5>2, <6>1, <6>2 DEF BarriersOk, Barrier
        <5> QED BY <1>2, <4>1, <5>1, <5>2
      <4> QED BY <1>1, <2>3, <4>1 DEF BarriersOk
    <3> QED BY <1>1, <2>3, <3>1, <3>2, <3>3 DEF Complete
  <2>6. slot'[p] # None /\ pc'[p] = "waiting"
    BY <1>1, <1>3, NoneFacts
  <2> QED BY <1>1, <2>2, <2>4, <2>5, <2>6 DEF ProgressOK
<1> QED BY <1>4, <1>5

LEMMA RunAckInv ==
  ASSUME ClientInv, RunAck
  PROVE  ClientInv'
<1>1. /\ Types /\ OrderOK /\ WaitsOK /\ MemoryOK /\ ServingOK /\ DeliveredOK
      /\ disp = "run" /\ cur.kind = "FlushAck" /\ W!ExplicitFlush
      /\ chan' = chan /\ pc' = pc /\ job' = job /\ out' = out
  BY DEF ClientInv, RunAck
<1>2. slot' = [slot EXCEPT ![cur.by] = IF pendingError # None \/ Failed THEN "Err" ELSE "Ok"]
  BY DEF RunAck
<1>3. cur \in Cmd /\ cur.by \in Producers
  BY <1>1 DEF Types, DispatcherTypes, Cmd
<1>4. /\ slot'[cur.by] = IF pendingError # None \/ Failed THEN "Err" ELSE "Ok"
      /\ slot' \in [Producers -> {None, "Ok", "Err"}]
      /\ \A q \in Producers \ {cur.by} : slot'[q] = slot[q]
  BY <1>1, <1>2, <1>3 DEF Types, ClientTypes
<1>5. Done(slot'[cur.by] = "Ok")
  BY DEF RunAck
<1>6. /\ log' = Append(log, [cmd |-> cur, ok |-> slot'[cur.by] = "Ok"])
      /\ disp' = "recv" /\ step' = 0 /\ clean' = TRUE
  BY <1>5 DEF Done
<1>7. disp' # "run"
  BY <1>6
<1>8. Finishes /\ (log'[Len(log) + 1].ok => pendingError = None /\ ~Failed)
               /\ (slot'[cur.by] = "Ok" => log'[Len(log) + 1].ok)
  <2>1. CASE pendingError # None \/ Failed
    <3>1. slot'[cur.by] = "Err"
      BY <1>4, <2>1
    <3>2. log' = Append(log, [cmd |-> cur, ok |-> FALSE])
      BY <1>6, <3>1
    <3> QED BY <1>1, <1>7, <3>1, <3>2, DoneFinishes
  <2>2. CASE ~(pendingError # None \/ Failed)
    <3>1. slot'[cur.by] = "Ok"
      BY <1>4, <2>2
    <3>2. log' = Append(log, [cmd |-> cur, ok |-> TRUE])
      BY <1>6, <3>1
    <3> QED BY <1>1, <1>7, <2>2, <3>2, DoneFinishes
  <2> QED BY <2>1, <2>2
<1>9. WriterTypes /\ NothingMissing
  BY <1>1 DEF Types, ServingOK, NothingMissing
<1>10. /\ WriterTypes' /\ Elems(wire) \subseteq Elems(wire') /\ accepted' = accepted
       /\ NothingMissing' /\ (last' # "Err" => Elems(accepted) \subseteq Elems(wire'))
  BY <1>1, <1>9, FlushEffect
<1>11. log' \in Seq(Entry) /\ Running = {cur} /\ Running' = {} /\ Elems(chan)' = Elems(chan)
  BY <1>1, <1>8, FinishesLog
<1>12. Types'
  BY <1>1, <1>4, <1>6, <1>10, <1>11 DEF Types, ClientTypes, DispatcherTypes
<1>13. OrderOK'
  BY <1>1, <1>8, FinishesOrder
<1>14. WaitsOK'
  <2>1. ASSUME NEW e \in Elems(chan), e.kind = "FlushAck"
        PROVE  pc[e.by] = "waiting" /\ out[e.by] = e /\ slot'[e.by] = None
    <3>1. pc[e.by] = "waiting" /\ out[e.by] = e /\ slot[e.by] = None
      BY <1>1, <2>1 DEF WaitsOK
    <3>2. e \in Cmd
      BY <1>1, ElementOfSeq DEF Types, ClientTypes, Elems
    <3>3. out[cur.by] = cur
      BY <1>1, <1>11 DEF WaitsOK
    <3>4. Before(cur, e)
      BY <1>1, <1>11 DEF OrderOK
    <3>5. e.by # cur.by
      BY <1>3, <3>1, <3>2, <3>3, <3>4 DEF Before, Cmd
    <3> QED BY <1>4, <3>1, <3>2, <3>5 DEF Cmd
  <2> QED BY <1>1, <1>11, <2>1 DEF WaitsOK
<1>15. \A q \in Producers : JobOK(q)' /\ ProgressOK(q)'
  <2>1. slot'[cur.by] \in {"Ok", "Err"}
    BY <1>4
  <2>2. \A p \in Producers : p = cur.by => JobOK(p)' /\ ProgressOK(p)'
    BY <1>1, <1>8, <2>1, BarrierProgress
  <2>3. \A q \in Producers : q # cur.by => JobOK(q)' /\ ProgressOK(q)'
    BY <1>4, <1>8, FinishesProgress
  <2> QED BY <2>2, <2>3
<1>16. MemoryOK'
  <2>1. pendingError # None => ~log'[Len(log) + 1].ok
    BY <1>8
  <2> QED BY <1>1, <1>6, <1>8, <2>1, BarrierMemory
<1>17. ServingOK'
  <2>1. Messages(cur.kind) = 0 /\ \A i \in 1..0 : FALSE
    BY <1>1, TablesAgree
  <2> QED BY <1>1, <1>8, <1>10, <2>1, FinishesServing
<1>18. DeliveredOK'
  <2>1. ASSUME log'[Len(log) + 1].ok, NEW c \in Ran, log[c].ok,
               NEW i \in 1..Messages(log[c].cmd.kind)
        PROVE  \E m \in Elems(wire') : m.cmd = log[c].cmd /\ m.part = i
    <3>1. Accepted(log[c].cmd, i)
      BY <1>1, <2>1 DEF ServingOK
    <3>2. Elems(accepted) \subseteq Elems(wire')
      BY <1>8, <1>10, <2>1 DEF Failed
    <3> QED BY <3>1, <3>2 DEF Accepted
  <2>2. (cur.kind = "FlushAck" /\ log'[Len(log) + 1].ok) =>
          \A c \in Ran : log[c].ok =>
            \A i \in 1..Messages(log[c].cmd.kind) : Sent(log[c].cmd, i)
              \/ \E m \in Elems(wire') : m.cmd = log[c].cmd /\ m.part = i
    BY <2>1
  <2> QED BY <1>1, <1>8, <1>10, <2>2, FinishesDelivered
<1> QED BY <1>12, <1>13, <1>14, <1>15, <1>16, <1>17, <1>18 DEF ClientInv
LEMMA DestroyPacket ==
  ASSUME WriterTypes
  PROVE  Destroy \in Packet
BY DEF Destroy, Packet, WriterTypes

LEMMA RunCloseInv ==
  ASSUME ClientInv, RunClose
  PROVE  ClientInv'
<1>1. /\ Types /\ MemoryOK /\ disp = "run" /\ cur.kind = "Close" /\ CloseSession
      /\ UNCHANGED <<chan, clients, cur, step, clean, pendingError>>
  BY DEF ClientInv, RunClose
<1>2. /\ chan' = chan /\ pc' = pc /\ job' = job /\ out' = out /\ slot' = slot
      /\ step' = step /\ clean' = clean /\ pendingError' = pendingError
  BY <1>1 DEF clients
<1>3. log' = Append(log, [cmd |-> cur, ok |-> ~Failed])
  BY DEF RunClose
<1>4. disp' \in {"inner", "unwind"} /\ W!Push(Destroy)
  BY <1>1 DEF CloseSession
<1>5. disp' # "run"
  BY <1>4
<1>6. Finishes
  <2>1. CASE Failed
    <3>1. log' = Append(log, [cmd |-> cur, ok |-> FALSE])
      BY <1>3, <2>1
    <3> QED BY <1>1, <1>2, <1>5, <3>1, DoneFinishes
  <2>2. CASE ~Failed
    <3>1. log' = Append(log, [cmd |-> cur, ok |-> TRUE])
      BY <1>3, <2>2
    <3> QED BY <1>1, <1>2, <1>5, <3>1, DoneFinishes
  <2> QED BY <2>1, <2>2
<1>7. WriterTypes' /\ Elems(wire) \subseteq Elems(wire')
  BY <1>1, <1>4, DestroyPacket, PushEffect DEF Types
<1>8. step' \in Nat /\ clean' \in BOOLEAN /\ (~clean' => pendingError' # None)
  BY <1>1, <1>2 DEF Types, DispatcherTypes, MemoryOK
<1>9. cur.kind # "FlushAck"
  BY <1>1
<1> QED BY <1>1, <1>2, <1>4, <1>6, <1>7, <1>8, <1>9, FinishesInv

\* The session is being closed: no command runs, and what the channel holds is
\* kept until the thread has ended.
LEMMA ClosingInv ==
  ASSUME ClientInv, disp # "run", Alive,
         disp' \in {"inner", "unwind", "drop", "joined", "panicked"},
         chan' = chan \/ (chan' = <<>> /\ disp' \in {"joined", "panicked"}),
         UNCHANGED <<clients, cur, step, clean, pendingError, log>>,
         WriterTypes', Elems(wire) \subseteq Elems(wire')
  PROVE  ClientInv'
<1>1. Types /\ OrderOK /\ WaitsOK /\ MemoryOK /\ ServingOK /\ DeliveredOK
  BY DEF ClientInv
<1>2. /\ pc' = pc /\ job' = job /\ out' = out /\ slot' = slot /\ cur' = cur /\ step' = step
      /\ clean' = clean /\ pendingError' = pendingError /\ log' = log
  BY DEF clients
<1>3. /\ chan' \in Seq(Cmd) /\ Elems(chan)' \subseteq Elems(chan)
      /\ \A i \in 1..Len(chan)' : i \in 1..Len(chan) /\ chan'[i] = chan[i]
  <2>1. CASE chan' = chan
    BY <1>1, <2>1 DEF Types, ClientTypes, Elems
  <2>2. CASE chan' = <<>>
    <3>1. Len(chan') = 0 /\ \A i \in 1..0 : FALSE
      BY <2>2
    <3> QED BY <2>2, <3>1 DEF Elems
  <2> QED BY <2>1, <2>2
<1>4. Types'
  BY <1>1, <1>2, <1>3 DEF Types, ClientTypes, DispatcherTypes
<1>5. Running = {} /\ Running' = {} /\ Logged' = Logged /\ Ran' = Ran
  BY <1>2 DEF Running, Logged, Ran
<1>6. OrderOK'
  <2>1. \A e \in Known' : e \in Known
    BY <1>3, <1>5 DEF Known
  <2>2. \A e \in Known' : Issue(e)'
    BY <1>1, <1>2, <2>1 DEF OrderOK, Issue
  <2>3. \A c, d \in Ran' : c < d => Before(log'[c].cmd, log'[d].cmd)
    BY <1>1, <1>2, <1>5 DEF OrderOK
  <2>4. \A e \in Logged' : \A f \in Running' \cup Elems(chan)' : Before(e, f)
    BY <1>1, <1>3, <1>5 DEF OrderOK
  <2>5. \A i, j \in 1..Len(chan)' : i < j => Before(chan'[i], chan'[j])
    BY <1>1, <1>3 DEF OrderOK
  <2> QED BY <1>5, <2>2, <2>3, <2>4, <2>5 DEF OrderOK, Before
<1>7. WaitsOK'
  BY <1>1, <1>2, <1>3, <1>5 DEF WaitsOK
<1>8. \A q \in Producers : JobOK(q)' /\ ProgressOK(q)'
  <2> SUFFICES ASSUME NEW q \in Producers PROVE JobOK(q)' /\ ProgressOK(q)'
    OBVIOUS
  <2>1. JobOK(q) /\ ProgressOK(q)
    BY DEF ClientInv
  <2>2. Alive' => Known \subseteq Known'
    <3>1. Alive' => Elems(chan)' = Elems(chan)
      BY DEF Alive, Elems
    <3> QED BY <1>5, <3>1 DEF Known
  <2>3. \A c \in 1..Len(log') : c \in Ran /\ log'[c] = log[c]
    BY <1>2 DEF Ran
  <2> QED BY <1>2, <1>5, <2>1, <2>2, <2>3, OtherKeeps
<1>9. MemoryOK'
  <2>1. \A c : (Bad(c)' <=> Bad(c)) /\ (Untaken(c) => Untaken(c)') /\ (Taken(c) => Taken(c)')
    BY <1>2 DEF Bad, Untaken, Taken, Barrier
  <2>2. ~clean' => pendingError' # None
    BY <1>1, <1>2 DEF MemoryOK
  <2>3. \A c \in Ran' : log'[c].cmd.kind = "Close" =>
          c = Len(log') /\ disp' \notin {"recv", "run"}
    BY <1>1, <1>2, <1>5 DEF MemoryOK
  <2> QED BY <1>1, <1>5, <2>1, <2>2, <2>3 DEF MemoryOK
<1>10. ServingOK'
  BY DEF ServingOK
<1>11. DeliveredOK'
  BY <1>1, <1>2, DeliveredStays
<1> QED BY <1>4, <1>6, <1>7, <1>8, <1>9, <1>10, <1>11 DEF ClientInv

LEMMA EndStepInv ==
  ASSUME ClientInv, RecvDisconnected \/ IntoInner \/ Unwind \/ DropThread
  PROVE  ClientInv'
<1>1. WriterTypes /\ Destroy \in Packet
  BY DestroyPacket DEF ClientInv, Types
<1>2. UNCHANGED <<clients, cur, step, clean, pendingError, log>>
  BY DEF RecvDisconnected, IntoInner, Unwind, DropThread
<1>3. WriterTypes' /\ Elems(wire) \subseteq Elems(wire')
  <2>1. W!Push(Destroy) \/ W!IntoInner \/ W!DropWriter
    BY DEF RecvDisconnected, CloseSession, IntoInner, Unwind, DropThread
  <2> QED BY <1>1, <2>1, PushEffect, EndEffect
<1>4. disp \in {"recv", "inner", "unwind", "drop"}
  BY DEF RecvDisconnected, IntoInner, Unwind, DropThread
<1>5. disp # "run" /\ Alive
  BY <1>4 DEF Alive
<1>6. /\ disp' \in {"inner", "unwind", "drop", "joined", "panicked"}
      /\ chan' = chan \/ (chan' = <<>> /\ disp' \in {"joined", "panicked"})
  BY DEF RecvDisconnected, CloseSession, IntoInner, Unwind, DropThread
<1> QED BY <1>2, <1>3, <1>5, <1>6, ClosingInv

LEMMA InitInv == Init => ClientInv
<1> SUFFICES ASSUME Init PROVE ClientInv
  OBVIOUS
<1> DEFINE create == [id |-> 1, size |-> 1, critical |-> TRUE, cmd |-> Idle, part |-> 0]
<1>1. /\ wire = <<create>> /\ accepted = <<create>> /\ pending = <<>> /\ pushed = 1
      /\ chan = <<>> /\ pc = [p \in Producers |-> "idle"]
      /\ job = [p \in Producers |->
                  [call |-> "none", at |-> 0, result |-> "Ok", calls |-> 0]]
      /\ out = [p \in Producers |-> Idle] /\ slot = [p \in Producers |-> None]
      /\ disp = "recv" /\ step = 0 /\ clean = TRUE /\ log = <<>>
  BY DEF Init
<1>2. create \in Packet
  BY DEF Packet
<1> HIDE DEF create
<1>3. WriterTypes
  BY <1>1, <1>2 DEF WriterTypes
<1>4. ClientTypes
  BY <1>1 DEF ClientTypes, Job
<1>5. DispatcherTypes
  BY <1>1 DEF DispatcherTypes
<1>6. Len(log) = 0 /\ Len(chan) = 0 /\ \A i \in 1..0 : FALSE
  BY <1>1
<1>7. Ran = {} /\ Elems(chan) = {} /\ Running = {} /\ Logged = {} /\ Known = {}
  BY <1>1, <1>6 DEF Ran, Elems, Running, Logged, Known
<1>8. OrderOK /\ WaitsOK
  BY <1>6, <1>7 DEF OrderOK, WaitsOK
<1>9. "none" \notin Checked
  BY TablesAgree DEF Checked
<1>10. \A p \in Producers : JobOK(p) /\ ProgressOK(p)
  BY <1>1, <1>9 DEF JobOK, ProgressOK, Active
<1>11. MemoryOK /\ DeliveredOK
  BY <1>1, <1>7 DEF MemoryOK, DeliveredOK
<1>12. ServingOK
  BY <1>1, <1>6, <1>7 DEF ServingOK
<1> QED BY <1>3, <1>4, <1>5, <1>8, <1>10, <1>11, <1>12 DEF ClientInv, Types
LEMMA StepInv == ClientInv /\ [Next]_vars => ClientInv'
<1> SUFFICES ASSUME ClientInv, [Next]_vars PROVE ClientInv'
  OBVIOUS
<1>1. CASE Dispatch
  BY <1>1, RecvInv, RunMessageInv, RunRefusedInv, RunLocalInv, RunFlushInv, RunAckInv,
     RunCloseInv, EndStepInv DEF Dispatch
<1>2. ASSUME NEW p \in Producers,
             \/ ClientStep(p) \/ TryFull(p) \/ DropClient(p)
             \/ \E k \in Uses(p) : Call(p, k)
      PROVE  ClientInv'
  BY <1>2, EnqueueInv, SendFailsInv, WakeInv, TryFullInv, DropClientInv, CallInv
     DEF ClientStep
<1>3. CASE UNCHANGED vars
  <2>1. UNCHANGED dispatcher /\ chan' = chan /\ pc' = pc /\ job' = job /\ out' = out /\ slot' = slot
    BY <1>3 DEF vars, dispatcher, clients
  <2>2. /\ wire' = wire /\ pending' = pending /\ accepted' = accepted /\ pushed' = pushed
        /\ disp' = disp /\ cur' = cur /\ step' = step /\ clean' = clean /\ log' = log
    BY <2>1 DEF dispatcher, writer
  <2>3. MemoryOK' /\ ServingOK' /\ DeliveredOK'
    BY <2>1, DispatcherStays DEF ClientInv
  <2>4. Types'
    BY <2>1, <2>2 DEF ClientInv, Types, WriterTypes, ClientTypes, DispatcherTypes
  <2>5. /\ Logged' = Logged /\ Running' = Running /\ Elems(chan)' = Elems(chan)
        /\ Known' = Known /\ Alive' = Alive
    BY <2>1, <2>2 DEF Logged, Ran, Running, Elems, Known, Alive
  <2>6. OrderOK' /\ WaitsOK'
    BY <2>1, <2>2, <2>5 DEF ClientInv, OrderOK, WaitsOK, Issue, Before, Ran
  <2>7. \A q \in Producers : JobOK(q)' /\ ProgressOK(q)'
    <3> SUFFICES ASSUME NEW q \in Producers PROVE JobOK(q)' /\ ProgressOK(q)'
      OBVIOUS
    <3>1. JobOK(q) /\ ProgressOK(q)
      BY DEF ClientInv
    <3>2. \A c \in 1..Len(log') : c \in Ran /\ log'[c] = log[c]
      BY <2>2 DEF Ran
    <3> QED BY <2>1, <2>5, <3>1, <3>2, OtherKeeps
  <2> QED BY <2>3, <2>4, <2>6, <2>7 DEF ClientInv
<1> QED BY <1>1, <1>2, <1>3 DEF Next

(* The invariant of the client and its dispatcher: commands of a clone are *)
(* run in the order it sent them, the first error is pending until a       *)
(* barrier takes it, and a barrier without error has flushed everything    *)
(* that succeeded before it.                                               *)
THEOREM ClientInvariant == Spec => []ClientInv
BY InitInv, StepInv, PTL DEF Spec

(* record_first_error and the FlushAck arm of dispatch_to_session: a       *)
(* command that failed is remembered until the next flush_wait.            *)
THEOREM ClientErrorIsRemembered == Spec => []ErrorIsRemembered
<1>1. ClientInv => ErrorIsRemembered
  <2> SUFFICES ASSUME ClientInv, NEW c \in Ran, Bad(c),
                      \A d \in (c + 1)..Len(log) : ~Barrier(d)
               PROVE  pendingError # None
    BY DEF ErrorIsRemembered, Bad
  <2>1. Untaken(c) \/ Taken(c)
    BY DEF ClientInv, MemoryOK
  <2> QED BY <2>1 DEF Untaken, Taken
<1> QED BY <1>1, ClientInvariant, PTL

-----------------------------------------------------------------------------
(* A checked call that returned Ok.                                        *)

\* Its commands have all run, its barrier last.
LEMMA CallHasRun ==
  ASSUME ClientInv, NEW p \in Producers, pc[p] = "idle", job[p].result = "Ok",
         job[p].call \in Checked
  PROVE  /\ Complete(p) /\ out[p].n \in Nat /\ First(p) \in Nat
         /\ Len(Program[job[p].call]) \in Nat /\ Len(Program[job[p].call]) > 1
         /\ First(p) = out[p].n - Len(Program[job[p].call])
         /\ Mine(p) = {c \in Ran : log[c].cmd.by = p /\ log[c].cmd.n > First(p)}
<1>1. /\ Types /\ job[p].at <= out[p].n /\ job[p].at = Len(Program[job[p].call])
      /\ Complete(p)
  BY DEF ClientInv, ProgressOK
<1>2. Len(Program[job[p].call]) \in Nat /\ Len(Program[job[p].call]) > 1
  BY CheckedCall
<1>3. out[p].n \in Nat
  BY <1>1, NumberType
<1>4. First(p) = out[p].n - Len(Program[job[p].call])
  BY <1>1 DEF First
<1> QED BY <1>1, <1>2, <1>3, <1>4 DEF Mine

LEMMA CallCount ==
  ASSUME ClientInv, NEW p \in Producers, pc[p] = "idle", job[p].result = "Ok",
         job[p].call \in Checked
  PROVE  Cardinality(Mine(p)) = Len(Program[job[p].call])
<1> DEFINE L == Len(Program[job[p].call])
           S == Mine(p)
           T == (First(p) + 1)..out[p].n
           F == [c \in S |-> log[c].cmd.n]
<1>1. /\ Complete(p) /\ out[p].n \in Nat /\ First(p) \in Nat /\ L \in Nat /\ L > 1
      /\ First(p) = out[p].n - L
      /\ S = {c \in Ran : log[c].cmd.by = p /\ log[c].cmd.n > First(p)}
  BY CallHasRun
<1>2. Types /\ OrderOK
  BY DEF ClientInv
<1>3. \A c \in S : c \in Ran /\ c \in Nat /\ log[c].cmd.n \in T
  <2> SUFFICES ASSUME NEW c \in S PROVE c \in Ran /\ c \in Nat /\ log[c].cmd.n \in T
    OBVIOUS
  <2>1. c \in Ran /\ log[c].cmd.by = p /\ log[c].cmd.n > First(p)
    BY <1>1
  <2>2. log[c].cmd \in Known /\ log[c].cmd.n \in Nat
    BY <1>2, <2>1, LogTypes DEF Known, Logged
  <2>3. log[c].cmd.n <= out[p].n
    BY <1>2, <2>1, <2>2 DEF OrderOK, Issue
  <2> QED BY <1>1, <2>1, <2>2, <2>3 DEF Ran
<1>4. \A c, d \in S : log[c].cmd.n = log[d].cmd.n => c = d
  <2> SUFFICES ASSUME NEW c \in S, NEW d \in S, c # d PROVE log[c].cmd.n # log[d].cmd.n
    OBVIOUS
  <2>1. /\ c \in Ran /\ d \in Ran /\ c \in Nat /\ d \in Nat
        /\ log[c].cmd.by = p /\ log[d].cmd.by = p
        /\ log[c].cmd.n \in Nat /\ log[d].cmd.n \in Nat
    BY <1>1, <1>2, <1>3, LogTypes
  <2>2. c < d \/ d < c
    BY <2>1
  <2> QED BY <1>2, <2>1, <2>2 DEF OrderOK, Before
<1>5. \A k \in T : \E c \in S : log[c].cmd.n = k
  <2> SUFFICES ASSUME NEW k \in T PROVE \E c \in S : log[c].cmd.n = k
    OBVIOUS
  <2>1. PICK c \in Ran : log[c].cmd.by = p /\ log[c].cmd.n = k
    BY <1>1, SMTT(30) DEF Complete, InLog, Logged
  <2>2. k > First(p)
    BY <1>1
  <2> QED BY <1>1, <2>1, <2>2
<1>6. IsFiniteSet(T) /\ Cardinality(T) = L
  <2>1. First(p) + 1 \in Int /\ out[p].n \in Int
    BY <1>1
  <2>2. /\ IsFiniteSet(T)
        /\ Cardinality(T) = IF First(p) + 1 > out[p].n THEN 0 ELSE out[p].n - (First(p) + 1) + 1
    BY <2>1, FS_Interval
  <2> QED BY <1>1, <2>2, SMTT(30)
<1>7. IsFiniteSet(S)
  <2>1. Len(log) \in Nat
    BY <1>2, LogTypes
  <2>2. 1 \in Int /\ Len(log) \in Int
    BY <2>1
  <2>3. IsFiniteSet(1..Len(log))
    BY <2>2, FS_Interval
  <2>4. S \subseteq 1..Len(log)
    BY <1>3 DEF Ran
  <2> QED BY <2>3, <2>4, FS_Subset
<1> HIDE DEF L, S, T
<1>8. F \in [S -> T] /\ \A c \in S : F[c] = log[c].cmd.n
  BY <1>3
<1>9. F \in Bijection(S, T)
  BY <1>4, <1>5, <1>8 DEF Bijection, Injection, Surjection, IsInjective
<1>10. ExistsBijection(S, T)
  BY <1>9 DEF ExistsBijection
<1>11. Cardinality(T) = Cardinality(S)
  BY <1>7, <1>10, FS_Bijection
<1> QED BY <1>6, <1>11 DEF L, S

LEMMA CallDelivered ==
  ASSUME ClientInv, NEW p \in Producers, pc[p] = "idle", job[p].result = "Ok",
         job[p].call \in Checked, ~Disturbed(p),
         NEW c \in Mine(p), NEW i \in 1..Messages(log[c].cmd.kind)
  PROVE  OnWire(log[c].cmd, i, Len(wire))
<1>1. /\ Complete(p) /\ out[p].n \in Nat /\ First(p) \in Nat
      /\ Len(Program[job[p].call]) \in Nat /\ Len(Program[job[p].call]) > 1
      /\ First(p) = out[p].n - Len(Program[job[p].call])
      /\ Mine(p) = {x \in Ran : log[x].cmd.by = p /\ log[x].cmd.n > First(p)}
  BY CallHasRun
<1>2. Types /\ OrderOK /\ MemoryOK /\ DeliveredOK
  BY DEF ClientInv
<1>3. out[p].kind = "FlushAck" /\ BarriersOk(p, out[p].n + 1)
  BY <1>1 DEF Complete
\* b is the run of the barrier at the end.
<1>4. PICK b \in Ran : log[b].cmd = out[p] /\ log[b].cmd.by = p
  <2>1. out[p].n \in (First(p) + 1)..out[p].n
    BY <1>1
  <2>2. PICK x \in Ran : log[x].cmd.by = p /\ log[x].cmd.n = out[p].n
    BY <1>1, <2>1 DEF Complete, InLog, Logged
  <2>3. log[x].cmd = out[p]
    BY <1>2, <2>2 DEF OrderOK, Known, Logged, Issue
  <2> QED BY <2>2, <2>3
<1>5. b \in Mine(p) /\ Barrier(b)
  BY <1>1, <1>3, <1>4 DEF Barrier
<1>6. \A x \in Mine(p) : Barrier(x) => log[x].ok
  <2> SUFFICES ASSUME NEW x \in Mine(p), Barrier(x) PROVE log[x].ok
    OBVIOUS
  <2>1. x \in Ran /\ log[x].cmd.by = p /\ log[x].cmd.n > First(p)
    BY <1>1
  <2>2. log[x].cmd.n <= out[p].n /\ log[x].cmd.n \in Nat
    BY <1>2, <2>1, LogTypes DEF OrderOK, Known, Logged, Issue
  <2>3. log[x].cmd.n < out[p].n + 1
    BY <1>1, <2>2
  <2> QED BY <1>3, <2>1, <2>3 DEF BarriersOk
<1>7. /\ c \in Ran /\ c \in Nat /\ b \in Nat /\ Len(log) \in Nat /\ b <= Len(log)
      /\ log[c].cmd.by = p /\ log[c].cmd.n > First(p) /\ log[c].cmd.n \in Nat
  BY <1>1, <1>2, LogTypes DEF Ran
<1>8. c < b
  <2>1. c # b
    BY <1>3, <1>4, TablesAgree
  <2>2. ~(b < c)
    <3>1. log[c].cmd.n <= out[p].n
      BY <1>2, <1>7 DEF OrderOK, Known, Logged, Issue
    <3> QED BY <1>1, <1>2, <1>4, <1>7, <3>1, SMTT(30) DEF OrderOK, Before
  <2> QED BY <1>7, <2>1, <2>2
<1>9. log[c].ok
  <2> SUFFICES ASSUME ~log[c].ok PROVE FALSE
    OBVIOUS
  <2>1. log[c].cmd.kind # "FlushAck"
    BY <1>6 DEF Barrier
  <2>2. log[c].cmd.kind # "Close"
    BY <1>2, <1>7, <1>8 DEF MemoryOK
  <2>3. Untaken(c) \/ Taken(c)
    BY <1>2, <1>7, <2>1, <2>2 DEF MemoryOK, Bad
  <2>4. b \in (c + 1)..Len(log)
    BY <1>7, <1>8
  <2>5. PICK d \in (c + 1)..Len(log) :
          Barrier(d) /\ ~log[d].ok /\ \A x \in (c + 1)..(d - 1) : ~Barrier(x)
    BY <1>5, <2>3, <2>4 DEF Untaken, Taken
  <2>6. d \in Ran /\ c < d /\ d \in Nat
    BY <1>7 DEF Ran
  <2>7. b \notin (c + 1)..(d - 1) /\ d # b
    BY <1>5, <1>6, <2>5
  <2>8. d < b
    BY <1>7, <1>8, <2>6, <2>7
  <2>9. log[d].cmd.by # p
    <3> SUFFICES ASSUME log[d].cmd.by = p PROVE FALSE
      OBVIOUS
    <3>1. log[c].cmd.n < log[d].cmd.n /\ log[d].cmd.n \in Nat
      BY <1>2, <1>7, <2>6, LogTypes DEF OrderOK, Before
    <3>2. d \in Mine(p)
      BY <1>1, <1>7, <2>6, <3>1
    <3> QED BY <1>6, <2>5, <3>2
  <2> QED BY <1>5, <2>5, <2>6, <2>8, <2>9 DEF Disturbed
<1>10. Sent(log[c].cmd, i)
  <2>1. log[b].ok /\ c \in 1..(b - 1)
    BY <1>5, <1>6, <1>7, <1>8 DEF Ran
  <2> QED BY <1>2, <1>5, <1>9, <2>1 DEF DeliveredOK
<1> QED BY <1>10 DEF Sent, Elems, OnWire

(* The checked gestures of the client (tap, swipe, long_press and others): *)
(* one that returned Ok has put every touch on the wire, unless another    *)
(* clone's barrier took its error.                                         *)
THEOREM ClientOkCallIsDelivered == Spec => []OkCallIsDelivered
<1>1. ClientInv => OkCallIsDelivered
  BY CallCount, CallDelivered DEF OkCallIsDelivered
<1> QED BY <1>1, ClientInvariant, PTL
=============================================================================
