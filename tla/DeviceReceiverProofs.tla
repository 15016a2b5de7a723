------------------------ MODULE DeviceReceiverProofs ------------------------
(***************************************************************************)
(* Proofs about the device receivers: what a channel pump hands on is what *)
(* the server sent, in order and without a gap, and what a wait returns is *)
(* newer than the boundary its caller had observed.                        *)
(*                                                                         *)
(* Both rest on one count: the halves the pump has read so far.  Every     *)
(* half that is still on the socket has its place in the stream, so as     *)
(* long as the pump lives the count says which message it is inside of.    *)
(***************************************************************************)
EXTENDS DeviceReceiver, SequenceTheorems, FiniteSetTheorems, TLAPS

AnyKind == Kinds \cup FrameKinds \cup {"none", "error", "timeout"}
Message == [id : Nat, kind : AnyKind]
Half    == [half : {"head", "rest"}, msg : Message]

WaiterRecord ==
  [pc : {"idle", "check", "sleep", "dropped"}, after : Nat,
   want : {"any", "frame"}, expired : BOOLEAN, result : Message, floor : Nat,
   seen : Nat, waits : Nat, timed : BOOLEAN]

ServerTypes ==
  /\ sent \in Seq(Message) /\ socket \in Seq(Half)
  /\ owed \in BOOLEAN

PumpTypes ==
  pump \in [pc : {"top", "head", "rest", "send", "send_error", "failed", "done"},
            msg : Message]

ViewTypes ==
  /\ view \in [version : Nat, latest : Message, error : BOOLEAN]
  /\ tx \in [sent : Nat, alive : BOOLEAN]

ChannelTypes ==
  /\ queue \in Seq(Message) /\ got \in Seq(Message)
  /\ rx \in {"live", "dropped"}

Types == ServerTypes /\ PumpTypes /\ ViewTypes /\ ChannelTypes

Outstanding == IF owed THEN 1 ELSE 0

\* The halves the pump has taken off the socket.
Consumed == 2 * Len(sent) - Outstanding - Len(socket)

\* m is the message the server sent under its number.
IsSent(m) == m.id \in 1..Len(sent) /\ m = sent[m.id]

\* Half h is the n-th of the stream.
HasPlace(h, n) ==
  /\ IsSent(h.msg)
  /\ 2 * h.msg.id = n + (IF h.half = "head" THEN 1 ELSE 0)

SentNumbered == \A i \in 1..Len(sent) : sent[i].id = i

ServerOK ==
  /\ owed => sent # <<>>
  /\ SentNumbered
  /\ Consumed \in Nat
  /\ \A i \in 1..Len(socket) : HasPlace(socket[i], Consumed + i)

PumpOK ==
  /\ pump.pc \in {"top", "head"} => \E k \in 0..Consumed : 2 * k = Consumed
  /\ pump.pc = "rest" => IsSent(pump.msg) /\ 2 * pump.msg.id = Consumed + 1
  /\ pump.pc = "send" => IsSent(pump.msg) /\ 2 * pump.msg.id = Consumed
  /\ pump.pc = "failed" => view.error

ViewOK ==
  /\ view.latest = NoMsg \/ view.latest.kind \in FrameKinds
  /\ 2 * view.latest.id <= Consumed

\* The promise of FreshFrame for one waiter with record t.
ResultOK(t, v) ==
  \/ t.result = NoMsg
  \/ t.result.kind \in FrameKinds /\ t.result.id > t.floor
       /\ (t.want = "frame" => t.result.kind = "frame")
  \/ t.result.kind = "error" /\ v.error
  \/ t.result.kind = "timeout" /\ t.timed

WaiterOK(t, v, x, m) ==
  /\ t \in WaiterRecord
  /\ t.pc \in {"check", "sleep"} =>
       /\ t.after <= v.version /\ t.floor <= v.latest.id
       /\ v.version > t.after => v.latest.id > t.floor
  /\ t.expired => t.timed
  /\ t.seen <= x.sent
  /\ (m = "watch" /\ t.pc = "sleep" /\ v.error) => t.seen < x.sent
  /\ (m = "watch" /\ ~x.alive) => (v.error \/ t.pc = "dropped")
  /\ ResultOK(t, v)

WaitersOK ==
  /\ waiter \in [Waiters -> WaiterRecord]
  /\ \A w \in Waiters : WaiterOK(waiter[w], view, tx, mode)

ByChannel == mode \in {"native", "event"}

\* Every message up to the last one handed on is the server's.
Faithful(c) == \A i \in 1..Len(c) : i <= Len(sent) /\ c[i] = sent[i]

ChannelOK ==
  ByChannel =>
    /\ pump.pc \notin {"top", "failed"}
    /\ rx = "live" =>
         LET c == got \o queue IN
           /\ pump.pc # "done" => Faithful(c)
           /\ pump.pc = "head" => 2 * Len(c) = Consumed
           /\ pump.pc = "rest" => 2 * Len(c) + 1 = Consumed
           /\ pump.pc = "send" => 2 * Len(c) + 2 = Consumed
           /\ pump.pc = "done" =>
                \A i \in 1..Len(c) :
                  IF c[i] = ErrMsg THEN i = Len(c)
                                   ELSE i <= Len(sent) /\ c[i] = sent[i]

DevInv == Types /\ ServerOK /\ PumpOK /\ ViewOK /\ WaitersOK /\ ChannelOK

-----------------------------------------------------------------------------
(* The server.                                                             *)

\* The outstanding half counts one, in either state.
LEMMA OutstandingFacts ==
  /\ owed => Outstanding = 1
  /\ ~owed => Outstanding = 0
  /\ Outstanding \in {0, 1}
BY Zenon DEF Outstanding

\* What the server adds leaves the pump, the view and the channel as they were.
LEMMA ServerMoves ==
  ASSUME DevInv, ServerTypes', ServerOK', Consumed' = Consumed,
         Len(sent) <= Len(sent)', \A i \in 1..Len(sent) : sent'[i] = sent[i],
         UNCHANGED <<mode, pump, channel, view, tx, waiter>>
  PROVE  DevInv'
<1>1. \A m : IsSent(m) => IsSent(m)'
  BY DEF IsSent, ServerTypes, DevInv, Types
<1>2. Types'
  BY DEF DevInv, Types, PumpTypes, ViewTypes, ChannelTypes, channel
<1>3. PumpOK'
  BY <1>1 DEF DevInv, PumpOK
<1>4. ViewOK'
  BY DEF DevInv, ViewOK
<1>5. WaitersOK'
  BY DEF DevInv, WaitersOK
<1>6. Len(got \o queue) \in Nat
  BY ConcatProperties, LenProperties DEF DevInv, Types, ChannelTypes
<1>7. ChannelOK'
  <2>1. Len(sent) \in Nat /\ Len(sent)' \in Nat
    BY LenProperties DEF DevInv, Types, ServerTypes
  <2> DEFINE c == got \o queue
  <2>2. c' = c
    BY DEF channel
  <2>3. Faithful(c) => Faithful(c)'
    BY <2>1, <2>2, <1>6 DEF Faithful
  <2>4. (\A i \in 1..Len(c) : IF c[i] = ErrMsg THEN i = Len(c)
                              ELSE i <= Len(sent) /\ c[i] = sent[i]) =>
        (\A i \in 1..Len(c) : IF c[i] = ErrMsg THEN i = Len(c)
                              ELSE i <= Len(sent)' /\ c[i] = sent'[i])
    BY <2>1, <1>6
  <2> HIDE DEF c
  <2>5. QED
    BY <2>2, <2>3, <2>4 DEF DevInv, ChannelOK, ByChannel, c, channel
<1>8. QED
  BY <1>2, <1>3, <1>4, <1>5, <1>7 DEF DevInv

LEMMA SendInv ==
  ASSUME DevInv, NEW kind \in Kinds, Send(kind)
  PROVE  DevInv'
<1> DEFINE m == [id |-> Len(sent) + 1, kind |-> kind]
           h == [half |-> "head", msg |-> m]
<1>1. Len(sent) \in Nat /\ Len(socket) \in Nat
  BY LenProperties DEF DevInv, Types, ServerTypes
<1>2. m \in Message /\ h \in Half
  BY <1>1 DEF Message, Half, AnyKind
<1>3. sent' = Append(sent, m) /\ socket' = Append(socket, h)
  BY DEF Send
<1>4. owed' \in BOOLEAN /\ Outstanding = 0 /\ Outstanding' = 1
  BY Zenon DEF Send, Outstanding
<1>5. m.id = Len(sent) + 1 /\ h.msg = m /\ h.half = "head"
  OBVIOUS
<1> HIDE DEF m, h
<1>6. /\ sent' \in Seq(Message) /\ Len(sent') = Len(sent) + 1
      /\ \A i \in 1..Len(sent) : sent'[i] = sent[i]
      /\ sent'[Len(sent) + 1] = m /\ sent' # <<>>
  BY <1>2, <1>3, AppendProperties DEF DevInv, Types, ServerTypes
<1>7. /\ socket' \in Seq(Half) /\ Len(socket') = Len(socket) + 1
      /\ \A i \in 1..Len(socket) : socket'[i] = socket[i]
      /\ socket'[Len(socket) + 1] = h
  BY <1>2, <1>3, AppendProperties DEF DevInv, Types, ServerTypes
<1>8. ServerTypes'
  BY <1>4, <1>6, <1>7 DEF ServerTypes
<1>9. Consumed' = Consumed
  BY <1>1, <1>4, <1>6, <1>7 DEF Consumed
<1>10. Consumed \in Nat /\ Consumed = 2 * Len(sent) - Len(socket)
  BY <1>1, <1>4 DEF DevInv, ServerOK, Consumed
<1>11. ServerOK'
  <2>1. SentNumbered'
    <3>1. \A i \in 1..Len(sent) : sent[i].id = i
      BY DEF DevInv, ServerOK, SentNumbered
    <3>2. QED
      BY <1>1, <1>5, <1>6, <3>1 DEF SentNumbered
  <2>2. ASSUME NEW i \in 1..Len(socket)'
        PROVE  HasPlace(socket[i], Consumed + i)'
    <3>1. CASE i \in 1..Len(socket)
      <4>1. HasPlace(socket[i], Consumed + i)
        BY <3>1 DEF DevInv, ServerOK
      <4>2. IsSent(socket[i].msg)'
        BY <3>1, <4>1, <1>1, <1>6, <1>7 DEF HasPlace, IsSent
      <4>3. QED
        BY <3>1, <4>1, <4>2, <1>7, <1>9 DEF HasPlace
    <3>2. CASE i = Len(socket) + 1
      <4>1. socket'[i] = h
        BY <3>2, <1>7
      <4>2. h.msg.id \in 1..Len(sent') /\ h.msg = sent'[h.msg.id]
        BY <1>1, <1>5, <1>6
      <4>3. 2 * h.msg.id = Consumed' + i + 1
        BY <1>1, <1>5, <1>9, <1>10, <3>2
      <4>4. QED
        BY <4>1, <4>2, <4>3, <1>5 DEF HasPlace, IsSent
    <3>3. QED
      BY <3>1, <3>2, <1>1, <1>7
  <2>3. QED
    BY <2>1, <2>2, <1>6, <1>9, <1>10 DEF ServerOK
<1>12. UNCHANGED <<mode, pump, channel, view, tx, waiter>>
  BY DEF Send
<1>13. QED
  BY <1>1, <1>6, <1>8, <1>9, <1>11, <1>12, ServerMoves

LEMMA SendRestInv ==
  ASSUME DevInv, SendRest
  PROVE  DevInv'
<1> DEFINE m == Last(sent)
           h == [half |-> "rest", msg |-> m]
<1>1. Len(sent) \in Nat /\ Len(socket) \in Nat
  BY LenProperties DEF DevInv, Types, ServerTypes
<1>2. sent # <<>> /\ Len(sent) \in Nat \ {0}
  BY EmptySeq DEF DevInv, Types, ServerTypes, ServerOK, SendRest
<1>3. m = sent[Len(sent)] /\ m \in Message
  BY <1>2, ElementOfSeq DEF Last, DevInv, Types, ServerTypes
<1>4. h \in Half /\ h.msg = m /\ h.half = "rest"
  BY <1>3 DEF Half
<1>5. socket' = Append(socket, h) /\ sent' = sent
  BY DEF SendRest
<1>6. owed' \in BOOLEAN /\ Outstanding = 1 /\ Outstanding' = 0 /\ ~owed'
  BY Zenon DEF SendRest, Outstanding
<1> HIDE DEF m, h
<1>7. /\ socket' \in Seq(Half) /\ Len(socket') = Len(socket) + 1
      /\ \A i \in 1..Len(socket) : socket'[i] = socket[i]
      /\ socket'[Len(socket) + 1] = h
  BY <1>4, <1>5, AppendProperties DEF DevInv, Types, ServerTypes
<1>8. ServerTypes'
  BY <1>5, <1>6, <1>7 DEF ServerTypes, DevInv, Types
<1>9. Consumed' = Consumed /\ Consumed = 2 * Len(sent) - 1 - Len(socket)
  BY <1>1, <1>5, <1>6, <1>7 DEF Consumed
<1>10. Consumed \in Nat /\ SentNumbered
  BY DEF DevInv, ServerOK
<1>11. ServerOK'
  <2>1. SentNumbered'
    BY <1>5, <1>10 DEF SentNumbered
  <2>2. ASSUME NEW i \in 1..Len(socket)'
        PROVE  HasPlace(socket[i], Consumed + i)'
    <3>1. CASE i \in 1..Len(socket)
      <4>1. HasPlace(socket[i], Consumed + i)
        BY <3>1 DEF DevInv, ServerOK
      <4>2. QED
        BY <3>1, <4>1, <1>5, <1>7, <1>9 DEF HasPlace, IsSent
    <3>2. CASE i = Len(socket) + 1
      <4>1. socket'[i] = h
        BY <3>2, <1>7
      <4>2. m.id = Len(sent)
        BY <1>2, <1>3, <1>10 DEF SentNumbered
      <4>3. h.msg.id \in 1..Len(sent') /\ h.msg = sent'[h.msg.id]
        BY <1>2, <1>3, <1>4, <1>5, <4>2
      <4>4. 2 * h.msg.id = Consumed' + i
        BY <1>1, <1>4, <1>9, <3>2, <4>2
      <4>5. QED
        BY <4>1, <4>3, <4>4, <1>4, <1>1, <1>9, <1>10 DEF HasPlace, IsSent
    <3>3. QED
      BY <3>1, <3>2, <1>1, <1>7
  <2>3. QED
    BY <2>1, <2>2, <1>6, <1>9, <1>10 DEF ServerOK
<1>12. UNCHANGED <<mode, pump, channel, view, tx, waiter>>
  BY DEF SendRest
<1>13. QED
  BY <1>1, <1>5, <1>8, <1>9, <1>11, <1>12, ServerMoves

-----------------------------------------------------------------------------
(* The waiters, and what the pump publishes to them.                       *)

LEMMA WaiterFacts ==
  ASSUME DevInv, NEW w \in Waiters
  PROVE  waiter[w] \in WaiterRecord /\ WaiterOK(waiter[w], view, tx, mode)
BY DEF DevInv, WaitersOK

\* A step of one waiter only has to keep that waiter's promises.
LEMMA WaiterMoves ==
  ASSUME DevInv, NEW w \in Waiters,
         waiter' \in [Waiters -> WaiterRecord],
         \A x \in Waiters : x # w => waiter'[x] = waiter[x],
         WaiterOK(waiter'[w], view, tx, mode),
         UNCHANGED <<mode, server, pump, channel, view, tx>>
  PROVE  DevInv'
<1>1. Types'
  BY DEF DevInv, Types, ServerTypes, PumpTypes, ViewTypes, ChannelTypes, server, channel
<1>2. ServerOK'
  BY DEF DevInv, ServerOK, SentNumbered, HasPlace, IsSent, Consumed, Outstanding, server
<1>3. PumpOK'
  BY DEF DevInv, PumpOK, IsSent, Consumed, Outstanding, server
<1>4. ViewOK'
  BY DEF DevInv, ViewOK, Consumed, Outstanding, server
<1>5. ChannelOK'
  BY DEF DevInv, ChannelOK, ByChannel, Faithful, Consumed, Outstanding, server, channel
<1>6. WaitersOK'
  <2>1. ASSUME NEW x \in Waiters PROVE WaiterOK(waiter'[x], view, tx, mode)
    BY WaiterFacts
  <2>2. view' = view /\ tx' = tx /\ mode' = mode
    OBVIOUS
  <2>3. QED
    BY <2>1, <2>2 DEF WaitersOK
<1>7. QED
  BY <1>1, <1>2, <1>3, <1>4, <1>5, <1>6 DEF DevInv

\* notify_all: every waiter that sleeps on the condition variable looks again.
LEMMA NotifyFacts ==
  ASSUME WaitersOK, Notify, NEW w \in Waiters
  PROVE  /\ waiter' \in [Waiters -> WaiterRecord]
         /\ waiter'[w] \in WaiterRecord
         /\ waiter'[w].pc = waiter[w].pc \/ (waiter'[w].pc = "check" /\ waiter[w].pc = "sleep")
         /\ waiter'[w].after = waiter[w].after /\ waiter'[w].want = waiter[w].want
         /\ waiter'[w].expired = waiter[w].expired
         /\ waiter'[w].result = waiter[w].result
         /\ waiter'[w].floor = waiter[w].floor /\ waiter'[w].seen = waiter[w].seen
         /\ waiter'[w].timed = waiter[w].timed
<1>1. ASSUME NEW x \in Waiters
      PROVE  /\ [waiter[x] EXCEPT !.pc = "check"] \in WaiterRecord
             /\ waiter[x] \in WaiterRecord
  BY DEF WaitersOK, WaiterRecord
<1>2. waiter' \in [Waiters -> WaiterRecord]
  BY <1>1 DEF Notify
<1>3. waiter'[w] = IF waiter[w].pc = "sleep" /\ mode = "latest"
                   THEN [waiter[w] EXCEPT !.pc = "check"] ELSE waiter[w]
  BY DEF Notify
<1>4. CASE waiter[w].pc = "sleep" /\ mode = "latest"
  BY <1>1, <1>2, <1>3, <1>4 DEF WaiterRecord
<1>5. CASE ~(waiter[w].pc = "sleep" /\ mode = "latest")
  BY <1>1, <1>2, <1>3, <1>5
<1>6. QED
  BY <1>4, <1>5

LEMMA SummaryWaiters ==
  ASSUME DevInv, NEW m \in Message, view.latest.id < m.id,
         store_summary(m), mode' = mode
  PROVE  /\ WaitersOK' /\ ViewTypes'
         /\ view'.latest = m /\ view'.error = view.error
<1>1. /\ view'.version = view.version + 1 /\ view'.latest = m
      /\ view'.error = view.error
      /\ view' \in [version : Nat, latest : Message, error : BOOLEAN]
      /\ tx'.sent = tx.sent + 1 /\ tx'.alive = tx.alive
      /\ tx' \in [sent : Nat, alive : BOOLEAN]
  <2>1. /\ view \in [version : Nat, latest : Message, error : BOOLEAN]
        /\ tx \in [sent : Nat, alive : BOOLEAN]
    BY DEF DevInv, Types, ViewTypes
  <2>2. view' = [view EXCEPT !.version = view.version + 1, !.latest = m]
    BY DEF store_summary
  <2>3. tx' = [tx EXCEPT !.sent = tx.sent + 1]
    BY DEF store_summary, Publish
  <2>4. /\ view'.version = view.version + 1 /\ view'.latest = m
        /\ tx'.sent = tx.sent + 1
        /\ view.version + 1 \in Nat /\ tx.sent + 1 \in Nat
    BY <2>1, <2>2, <2>3
  <2>5. view'.error = view.error
    BY <2>1, <2>2, Zenon
  <2>6. tx'.alive = tx.alive
    BY <2>1, <2>3, Zenon
  <2>7. view' \in [version : Nat, latest : Message, error : BOOLEAN]
    BY <2>1, <2>2, <2>4, Zenon
  <2>8. tx' \in [sent : Nat, alive : BOOLEAN]
    BY <2>1, <2>3, <2>4, Zenon
  <2>9. QED
    BY <2>4, <2>5, <2>6, <2>7, <2>8
<1>2. /\ view.version \in Nat /\ view.latest.id \in Nat /\ m.id \in Nat
      /\ tx.sent \in Nat
  BY DEF DevInv, Types, ViewTypes, Message
<1>3. Notify /\ WaitersOK
  BY DEF store_summary, Publish, DevInv
<1>4. ASSUME NEW w \in Waiters PROVE WaiterOK(waiter[w], view, tx, mode)'
  <2>1. /\ WaiterOK(waiter[w], view, tx, mode)
        /\ waiter[w].after \in Nat /\ waiter[w].floor \in Nat
        /\ waiter[w].seen \in Nat
    BY <1>3 DEF WaitersOK, WaiterRecord
  <2>2. waiter'[w] \in WaiterRecord
    BY <1>3, NotifyFacts
  <2>3. waiter'[w].pc \in {"check", "sleep"} =>
          /\ waiter'[w].after <= view'.version /\ waiter'[w].floor <= view'.latest.id
          /\ view'.version > waiter'[w].after => view'.latest.id > waiter'[w].floor
    BY <1>1, <1>2, <1>3, <2>1, NotifyFacts DEF WaiterOK
  <2>4. waiter'[w].expired => waiter'[w].timed
    BY <1>3, <2>1, NotifyFacts DEF WaiterOK
  <2>5. waiter'[w].seen <= tx'.sent /\ waiter'[w].seen < tx'.sent
    BY <1>1, <1>2, <1>3, <2>1, NotifyFacts DEF WaiterOK
  <2>6. (mode' = "watch" /\ ~tx'.alive) => (view'.error \/ waiter'[w].pc = "dropped")
    BY <1>1, <1>3, <2>1, NotifyFacts DEF WaiterOK
  <2>7. ResultOK(waiter[w], view)'
    BY <1>1, <1>3, <2>1, NotifyFacts DEF WaiterOK, ResultOK
  <2>8. QED
    BY <2>2, <2>3, <2>4, <2>5, <2>6, <2>7 DEF WaiterOK
<1>5. waiter' \in [Waiters -> WaiterRecord]
  BY <1>3 DEF Notify, WaitersOK, WaiterRecord
<1>6. QED
  BY <1>1, <1>4, <1>5 DEF WaitersOK, ViewTypes

LEMMA ErrorWaiters ==
  ASSUME DevInv, store_terminal_error, mode' = mode
  PROVE  /\ WaitersOK' /\ ViewTypes'
         /\ view'.latest = view.latest /\ view'.error
<1>1. /\ view'.version = view.version /\ view'.latest = view.latest
      /\ view'.error = TRUE
      /\ view' \in [version : Nat, latest : Message, error : BOOLEAN]
      /\ tx'.sent = tx.sent + 1 /\ tx'.alive = tx.alive
      /\ tx' \in [sent : Nat, alive : BOOLEAN]
  <2>1. /\ view \in [version : Nat, latest : Message, error : BOOLEAN]
        /\ tx \in [sent : Nat, alive : BOOLEAN]
    BY DEF DevInv, Types, ViewTypes
  <2>2. view' = [view EXCEPT !.error = TRUE]
    BY DEF store_terminal_error
  <2>3. tx' = [tx EXCEPT !.sent = tx.sent + 1]
    BY DEF store_terminal_error, Publish
  <2>4. /\ view'.version = view.version /\ view'.latest = view.latest
        /\ tx'.sent = tx.sent + 1
        /\ view.version + 1 \in Nat /\ tx.sent + 1 \in Nat
    BY <2>1, <2>2, <2>3
  <2>5. view'.error = TRUE
    BY <2>1, <2>2, Zenon
  <2>6. tx'.alive = tx.alive
    BY <2>1, <2>3, Zenon
  <2>7. view' \in [version : Nat, latest : Message, error : BOOLEAN]
    BY <2>1, <2>2, <2>4, Zenon
  <2>8. tx' \in [sent : Nat, alive : BOOLEAN]
    BY <2>1, <2>3, <2>4, Zenon
  <2>9. QED
    BY <2>4, <2>5, <2>6, <2>7, <2>8
<1>2. tx.sent \in Nat
  BY DEF DevInv, Types, ViewTypes
<1>3. Notify /\ WaitersOK
  BY DEF store_terminal_error, Publish, DevInv
<1>4. ASSUME NEW w \in Waiters PROVE WaiterOK(waiter[w], view, tx, mode)'
  <2>1. /\ WaiterOK(waiter[w], view, tx, mode)
        /\ waiter[w].after \in Nat /\ waiter[w].floor \in Nat
        /\ waiter[w].seen \in Nat
    BY <1>3 DEF WaitersOK, WaiterRecord
  <2>2. waiter'[w] \in WaiterRecord
    BY <1>3, NotifyFacts
  <2>3. waiter'[w].pc \in {"check", "sleep"} =>
          /\ waiter'[w].after <= view'.version /\ waiter'[w].floor <= view'.latest.id
          /\ view'.version > waiter'[w].after => view'.latest.id > waiter'[w].floor
    BY <1>1, <1>3, <2>1, NotifyFacts DEF WaiterOK
  <2>4. waiter'[w].expired => waiter'[w].timed
    BY <1>3, <2>1, NotifyFacts DEF WaiterOK
  <2>5. waiter'[w].seen <= tx'.sent /\ waiter'[w].seen < tx'.sent
    BY <1>1, <1>2, <1>3, <2>1, NotifyFacts DEF WaiterOK
  <2>6. view'.error
    BY <1>1
  <2>7. ResultOK(waiter[w], view)'
    BY <1>1, <1>3, <2>1, NotifyFacts DEF WaiterOK, ResultOK
  <2>8. QED
    BY <2>2, <2>3, <2>4, <2>5, <2>6, <2>7 DEF WaiterOK
<1>5. waiter' \in [Waiters -> WaiterRecord]
  BY <1>3 DEF Notify, WaitersOK, WaiterRecord
<1>6. QED
  BY <1>1, <1>4, <1>5 DEF WaitersOK, ViewTypes

\* The watch sender goes only when the error is published or nobody listens.
LEMMA SenderGone ==
  ASSUME DevInv, tx' = [tx EXCEPT !.alive = FALSE],
         UNCHANGED <<mode, view, waiter>>,
         view.error \/ (\A w \in Waiters : waiter[w].pc = "dropped")
  PROVE  WaitersOK' /\ ViewTypes'
<1>1. tx'.sent = tx.sent /\ tx' \in [sent : Nat, alive : BOOLEAN]
  BY DEF DevInv, Types, ViewTypes
<1>2. WaitersOK
  BY DEF DevInv
<1>3. ASSUME NEW w \in Waiters PROVE WaiterOK(waiter[w], view, tx, mode)'
  BY <1>1, <1>2 DEF WaitersOK, WaiterOK, ResultOK
<1>4. QED
  BY <1>1, <1>2, <1>3 DEF WaitersOK, ViewTypes, DevInv, Types

\* What a wait may return.
MayReturn(m, t, v) ==
  \/ m.kind \in FrameKinds /\ m.id > t.floor /\ (t.want = "frame" => m.kind = "frame")
  \/ m.kind = "error" /\ v.error
  \/ m.kind = "timeout" /\ t.timed

LEMMA ReturnedInv ==
  ASSUME DevInv, NEW w \in Waiters, waiter[w].pc \in {"check", "sleep"},
         NEW m \in Message, MayReturn(m, waiter[w], view), Returned(w, m),
         UNCHANGED <<mode, server, pump, channel, view, tx>>
  PROVE  DevInv'
<1> DEFINE t == waiter[w]
           u == [t EXCEPT !.pc = "idle", !.result = m, !.after = 0, !.expired = FALSE]
<1>1. t \in WaiterRecord /\ WaiterOK(t, view, tx, mode)
  BY WaiterFacts
<1>2. waiter \in [Waiters -> WaiterRecord]
  BY DEF DevInv, WaitersOK
<1>3. waiter' = [waiter EXCEPT ![w] = u]
  BY <1>2, Zenon DEF Returned
<1>4. /\ u.pc = "idle" /\ u.result = m /\ u.after = 0 /\ u.expired = FALSE
      /\ u.want = t.want /\ u.floor = t.floor /\ u.seen = t.seen /\ u.timed = t.timed
  BY <1>1 DEF WaiterRecord
<1>5. u \in WaiterRecord
  BY <1>1, Zenon, 0 \in Nat DEF WaiterRecord
<1> HIDE DEF u
<1>6. /\ waiter' \in [Waiters -> WaiterRecord] /\ waiter'[w] = u
      /\ \A x \in Waiters : x # w => waiter'[x] = waiter[x]
  BY <1>2, <1>3, <1>5
<1>7. WaiterOK(u, view, tx, mode)
  <2>1. ResultOK(u, view)
    BY <1>4 DEF MayReturn, ResultOK
  <2>2. u.seen <= tx.sent
    BY <1>1, <1>4 DEF WaiterOK
  <2>3. (mode = "watch" /\ ~tx.alive) => (view.error \/ u.pc = "dropped")
    BY <1>1 DEF WaiterOK
  <2>4. QED
    BY <1>4, <1>5, <2>1, <2>2, <2>3 DEF WaiterOK
<1>8. QED
  BY <1>6, <1>7, WaiterMoves

LEMMA ErrFacts ==
  /\ ErrMsg \in Message /\ ErrMsg.kind = "error"
  /\ [ErrMsg EXCEPT !.kind = "timeout"] \in Message
  /\ [ErrMsg EXCEPT !.kind = "timeout"].kind = "timeout"
  /\ NoMsg \in Message /\ NoMsg.id = 0 /\ ErrMsg.id = 0
BY DEF ErrMsg, NoMsg, Message, AnyKind

\* A waiter that moves to pc, with its deadline possibly passed, and has
\* perhaps looked at the newest value of the watch.
LEMMA AwakeInv ==
  ASSUME DevInv, NEW w \in Waiters, NEW pc \in {"check", "sleep"},
         NEW e \in BOOLEAN, NEW s \in {waiter[w].seen, tx.sent},
         waiter[w].pc \in {"check", "sleep"},
         e => waiter[w].timed,
         pc = "sleep" => ~view.error,
         waiter' = [waiter EXCEPT ![w] = [waiter[w] EXCEPT !.pc = pc, !.expired = e, !.seen = s]],
         UNCHANGED <<mode, server, pump, channel, view, tx>>
  PROVE  DevInv'
<1> DEFINE t == waiter[w]
           u == [t EXCEPT !.pc = pc, !.expired = e, !.seen = s]
<1>1. t \in WaiterRecord /\ WaiterOK(t, view, tx, mode)
  BY WaiterFacts
<1>2. waiter \in [Waiters -> WaiterRecord]
  BY DEF DevInv, WaitersOK
<1>3. tx.sent \in Nat /\ t.seen \in Nat /\ s \in Nat /\ t.seen <= tx.sent /\ s <= tx.sent
  BY <1>1 DEF DevInv, Types, ViewTypes, WaiterRecord, WaiterOK
<1>4. /\ u.pc = pc /\ u.result = t.result /\ u.after = t.after
      /\ u.want = t.want /\ u.floor = t.floor /\ u.seen = s /\ u.timed = t.timed
  BY <1>1 DEF WaiterRecord
<1>5. u.expired = e
  BY <1>1, Zenon DEF WaiterRecord
<1>6. u \in WaiterRecord
  BY <1>1, <1>3, Zenon DEF WaiterRecord
<1>7. waiter' = [waiter EXCEPT ![w] = u]
  OBVIOUS
<1> HIDE DEF u
<1>8. /\ waiter' \in [Waiters -> WaiterRecord] /\ waiter'[w] = u
      /\ \A x \in Waiters : x # w => waiter'[x] = waiter[x]
  BY <1>2, <1>6, <1>7
<1>9. WaiterOK(u, view, tx, mode)
  <2>1. ResultOK(u, view)
    BY <1>1, <1>4 DEF WaiterOK, ResultOK
  <2>2. u.seen <= tx.sent
    BY <1>3, <1>4
  <2>3. (mode = "watch" /\ ~tx.alive) => (view.error \/ u.pc = "dropped")
    BY <1>1 DEF WaiterOK
  <2>4. u.pc \in {"check", "sleep"} =>
          /\ u.after <= view.version /\ u.floor <= view.latest.id
          /\ view.version > u.after => view.latest.id > u.floor
    BY <1>1, <1>4 DEF WaiterOK
  <2>5. u.expired => u.timed
    BY <1>4, <1>5, Zenon
  <2>6. u.pc = "sleep" => ~view.error
    BY <1>4
  <2>7. QED
    BY <1>6, <2>1, <2>2, <2>3, <2>4, <2>5, <2>6 DEF WaiterOK
<1>10. QED
  BY <1>8, <1>9, WaiterMoves

LEMMA CheckInv ==
  ASSUME DevInv, NEW w \in Waiters, Check(w)
  PROVE  DevInv'
<1> DEFINE t == waiter[w]
<1>1. t \in WaiterRecord /\ WaiterOK(t, view, tx, mode) /\ t.pc = "check"
  BY WaiterFacts DEF Check
<1>2. UNCHANGED <<mode, server, pump, channel, view, tx>>
  BY DEF Check
<1>3. CASE Accepts(w)
  <2>1. Returned(w, view.latest)
    BY <1>3 DEF Check
  <2>2. view.latest \in Message /\ view.latest.kind \in FrameKinds
    BY <1>3 DEF Accepts, DevInv, Types, ViewTypes, ViewOK
  <2>3. view.latest.id > t.floor
    BY <1>1, <1>3 DEF Accepts, WaiterOK
  <2>4. t.want = "frame" => view.latest.kind = "frame"
    BY <1>3 DEF Accepts
  <2>5. QED
    BY <1>1, <1>2, <2>1, <2>2, <2>3, <2>4, ReturnedInv DEF MayReturn
<1>4. CASE ~Accepts(w) /\ view.error
  <2>1. Returned(w, ErrMsg)
    BY <1>4 DEF Check
  <2>2. QED
    BY <1>1, <1>2, <1>4, <2>1, ErrFacts, ReturnedInv DEF MayReturn
<1>5. CASE ~Accepts(w) /\ ~view.error /\ t.expired
  <2>1. Returned(w, [ErrMsg EXCEPT !.kind = "timeout"])
    BY <1>5 DEF Check
  <2>2. t.timed
    BY <1>1, <1>5 DEF WaiterOK
  <2>3. QED
    BY <1>1, <1>2, <2>1, <2>2, ErrFacts, ReturnedInv DEF MayReturn
<1>6. CASE ~Accepts(w) /\ ~view.error /\ ~t.expired
  <2>1. waiter' = [waiter EXCEPT ![w].pc = "sleep"]
    BY <1>6 DEF Check
  <2>2. waiter \in [Waiters -> WaiterRecord]
    BY DEF DevInv, WaitersOK
  <2>3. [t EXCEPT !.pc = "sleep"] =
          [t EXCEPT !.pc = "sleep", !.expired = t.expired, !.seen = t.seen]
    BY <1>1 DEF WaiterRecord
  <2>4. waiter' = [waiter EXCEPT ![w] =
                     [t EXCEPT !.pc = "sleep", !.expired = t.expired, !.seen = t.seen]]
    BY <2>1, <2>2, <2>3, Zenon
  <2>5. t.expired \in BOOLEAN /\ (t.expired => t.timed)
    BY <1>1 DEF WaiterRecord, WaiterOK
  <2>6. QED
    BY <1>1, <1>2, <1>6, <2>4, <2>5, AwakeInv
<1>7. QED
  BY <1>3, <1>4, <1>5, <1>6

LEMMA ExpireInv ==
  ASSUME DevInv, NEW w \in Waiters, Expire(w)
  PROVE  DevInv'
<1> DEFINE t == waiter[w]
<1>1. t \in WaiterRecord /\ t.pc \in {"check", "sleep"} /\ t.timed
  BY WaiterFacts DEF Expire
<1>2. UNCHANGED <<mode, server, pump, channel, view, tx>>
  BY DEF Expire
<1>3. CASE mode = "latest"
  <2>1. waiter' = [waiter EXCEPT ![w].expired = TRUE, ![w].pc = "check"]
    BY <1>3 DEF Expire
  <2>2. waiter \in [Waiters -> WaiterRecord]
    BY DEF DevInv, WaitersOK
  <2>3. [[t EXCEPT !.expired = TRUE] EXCEPT !.pc = "check"] =
          [t EXCEPT !.pc = "check", !.expired = TRUE, !.seen = t.seen]
    BY <1>1 DEF WaiterRecord
  <2>4. waiter' = [waiter EXCEPT ![w] = [[t EXCEPT !.expired = TRUE] EXCEPT !.pc = "check"]]
    BY <2>1, <2>2, Zenon
  <2>5. QED
    BY <1>1, <1>2, <2>3, <2>4, AwakeInv
<1>4. CASE mode # "latest"
  <2>1. Returned(w, [ErrMsg EXCEPT !.kind = "timeout"])
    BY <1>4 DEF Expire
  <2>2. QED
    BY <1>1, <1>2, <2>1, ErrFacts, ReturnedInv DEF MayReturn
<1>5. QED
  BY <1>3, <1>4

LEMMA SpuriousWakeInv ==
  ASSUME DevInv, NEW w \in Waiters, SpuriousWake(w)
  PROVE  DevInv'
<1> DEFINE t == waiter[w]
<1>1. t \in WaiterRecord /\ WaiterOK(t, view, tx, mode) /\ t.pc = "sleep"
  BY WaiterFacts DEF SpuriousWake
<1>2. waiter' = [waiter EXCEPT ![w].pc = "check"]
  BY DEF SpuriousWake
<1>3. waiter \in [Waiters -> WaiterRecord]
  BY DEF DevInv, WaitersOK
<1>4. [t EXCEPT !.pc = "check"] =
        [t EXCEPT !.pc = "check", !.expired = t.expired, !.seen = t.seen]
  BY <1>1 DEF WaiterRecord
<1>5. waiter' = [waiter EXCEPT ![w] =
                   [t EXCEPT !.pc = "check", !.expired = t.expired, !.seen = t.seen]]
  BY <1>2, <1>3, <1>4, Zenon
<1>6. t.expired \in BOOLEAN /\ (t.expired => t.timed)
  BY <1>1 DEF WaiterRecord, WaiterOK
<1>7. UNCHANGED <<mode, server, pump, channel, view, tx>>
  BY DEF SpuriousWake
<1>8. QED
  BY <1>1, <1>5, <1>6, <1>7, AwakeInv

\* changed() never finds the sender gone before the error it published.
LEMMA ChangedInv ==
  ASSUME DevInv, NEW w \in Waiters, Changed(w)
  PROVE  DevInv'
<1> DEFINE t == waiter[w]
<1>1. t \in WaiterRecord /\ WaiterOK(t, view, tx, mode)
  BY WaiterFacts
<1>2. t.pc = "sleep" /\ mode = "watch"
  BY DEF Changed
<1>3. t.seen # tx.sent
  <2>1. SUFFICES ASSUME t.seen = tx.sent PROVE FALSE
    OBVIOUS
  <2>2. ~tx.alive
    BY <2>1 DEF Changed
  <2>3. view.error
    BY <1>1, <1>2, <2>2 DEF WaiterOK
  <2>4. t.seen < tx.sent /\ t.seen \in Nat /\ tx.sent \in Nat
    BY <1>1, <1>2, <2>3 DEF WaiterOK, WaiterRecord, DevInv, Types, ViewTypes
  <2>5. QED
    BY <2>1, <2>4
<1>4. waiter' = [waiter EXCEPT ![w].seen = tx.sent, ![w].pc = "check"]
  BY <1>3 DEF Changed
<1>5. waiter \in [Waiters -> WaiterRecord]
  BY DEF DevInv, WaitersOK
<1>6. [[t EXCEPT !.seen = tx.sent] EXCEPT !.pc = "check"] =
        [t EXCEPT !.pc = "check", !.expired = t.expired, !.seen = tx.sent]
  BY <1>1 DEF WaiterRecord
<1>7. waiter' = [waiter EXCEPT ![w] = [[t EXCEPT !.seen = tx.sent] EXCEPT !.pc = "check"]]
  BY <1>4, <1>5, Zenon
<1>8. t.expired \in BOOLEAN /\ (t.expired => t.timed)
  BY <1>1 DEF WaiterRecord, WaiterOK
<1>9. UNCHANGED <<mode, server, pump, channel, view, tx>>
  BY DEF Changed
<1>10. QED
  BY <1>2, <1>6, <1>7, <1>8, <1>9, AwakeInv

LEMMA ObserveInv ==
  ASSUME DevInv, NEW w \in Waiters, Observe(w)
  PROVE  DevInv'
<1> DEFINE t == waiter[w]
<1>1. t \in WaiterRecord /\ WaiterOK(t, view, tx, mode) /\ t.pc = "idle"
  BY WaiterFacts DEF Observe
<1>2. PICK want \in {"any", "frame"}, timed \in BOOLEAN :
        waiter' = [waiter EXCEPT ![w] =
          [t EXCEPT !.pc = "check", !.after = view.version, !.floor = LatestId,
                    !.want = want, !.timed = timed, !.expired = FALSE,
                    !.result = NoMsg, !.waits = t.waits + 1]]
  <2>1. Timed["any"] = {TRUE} /\ Timed["frame"] = {FALSE}
    BY DEF Timed
  <2>2. \A x \in {"any", "frame"} : Timed[x] \subseteq BOOLEAN
    BY <2>1, Zenon
  <2>3. PICK x \in {"any", "frame"} : \E y \in Timed[x] :
          waiter' = [waiter EXCEPT ![w] =
            [t EXCEPT !.pc = "check", !.after = view.version, !.floor = LatestId,
                      !.want = x, !.timed = y, !.expired = FALSE,
                      !.result = NoMsg, !.waits = t.waits + 1]]
    BY DEF Observe
  <2>4. PICK y \in Timed[x] :
          waiter' = [waiter EXCEPT ![w] =
            [t EXCEPT !.pc = "check", !.after = view.version, !.floor = LatestId,
                      !.want = x, !.timed = y, !.expired = FALSE,
                      !.result = NoMsg, !.waits = t.waits + 1]]
    BY <2>3
  <2>5. y \in BOOLEAN
    BY <2>2, Zenon
  <2>6. QED
    BY <2>4, <2>5, Zenon
<1> DEFINE u == [t EXCEPT !.pc = "check", !.after = view.version, !.floor = LatestId,
                          !.want = want, !.timed = timed, !.expired = FALSE,
                          !.result = NoMsg, !.waits = t.waits + 1]
<1>3. /\ view.version \in Nat /\ t.waits + 1 \in Nat /\ LatestId \in Nat
      /\ LatestId = view.latest.id
  BY <1>1, ErrFacts DEF DevInv, Types, ViewTypes, WaiterRecord, LatestId, Message
<1>4. /\ u.pc = "check" /\ u.result = NoMsg /\ u.after = view.version
      /\ u.floor = LatestId /\ u.seen = t.seen
  BY <1>1 DEF WaiterRecord
<1>5. u.expired = FALSE
  BY <1>1, Zenon DEF WaiterRecord
<1>6. u \in WaiterRecord
  BY <1>1, <1>3, ErrFacts, Zenon DEF WaiterRecord
<1>7. waiter' = [waiter EXCEPT ![w] = u]
  BY <1>2
<1>8. waiter \in [Waiters -> WaiterRecord]
  BY DEF DevInv, WaitersOK
<1> HIDE DEF u
<1>9. /\ waiter' \in [Waiters -> WaiterRecord] /\ waiter'[w] = u
      /\ \A x \in Waiters : x # w => waiter'[x] = waiter[x]
  BY <1>6, <1>7, <1>8
<1>10. WaiterOK(u, view, tx, mode)
  <2>1. u.after <= view.version /\ u.floor <= view.latest.id /\ ~(view.version > u.after)
    BY <1>3, <1>4
  <2>2. (mode = "watch" /\ ~tx.alive) => (view.error \/ u.pc = "dropped")
    BY <1>1 DEF WaiterOK
  <2>3. u.seen <= tx.sent
    BY <1>1, <1>4 DEF WaiterOK
  <2>4. QED
    BY <1>4, <1>5, <1>6, <2>1, <2>2, <2>3 DEF WaiterOK, ResultOK
<1>11. UNCHANGED <<mode, server, pump, channel, view, tx>>
  BY DEF Observe
<1>12. QED
  BY <1>9, <1>10, <1>11, WaiterMoves

LEMMA DropHandleInv ==
  ASSUME DevInv, NEW w \in Waiters, DropHandle(w)
  PROVE  DevInv'
<1> DEFINE u == [Idle EXCEPT !.pc = "dropped"]
<1>1. u \in WaiterRecord /\ u.pc = "dropped" /\ u.seen = 0 /\ u.result = NoMsg /\ ~u.expired
  BY ErrFacts DEF Idle, WaiterRecord
<1>2. waiter' = [waiter EXCEPT ![w] = u]
  BY DEF DropHandle
<1>3. waiter \in [Waiters -> WaiterRecord]
  BY DEF DevInv, WaitersOK
<1> HIDE DEF u
<1>4. /\ waiter' \in [Waiters -> WaiterRecord] /\ waiter'[w] = u
      /\ \A x \in Waiters : x # w => waiter'[x] = waiter[x]
  BY <1>1, <1>2, <1>3
<1>5. tx.sent \in Nat
  BY DEF DevInv, Types, ViewTypes
<1>6. WaiterOK(u, view, tx, mode)
  BY <1>1, <1>5 DEF WaiterOK, ResultOK
<1>7. UNCHANGED <<mode, server, pump, channel, view, tx>>
  BY DEF DropHandle
<1>8. QED
  BY <1>4, <1>6, <1>7, WaiterMoves

-----------------------------------------------------------------------------
(* The pump.                                                               *)

\* Reading one half moves the count by one, and tells which half it was.
LEMMA ReadsHalf ==
  ASSUME DevInv, socket # <<>>, socket' = Tail(socket), UNCHANGED <<sent, owed>>
  PROVE  /\ ServerTypes' /\ ServerOK' /\ Consumed' = Consumed + 1 /\ Consumed \in Nat
         /\ Head(socket) \in Half /\ HasPlace(Head(socket), Consumed + 1)
<1>1. Len(sent) \in Nat /\ Len(socket) \in Nat \ {0} /\ Outstanding \in {0, 1}
  BY LenProperties, EmptySeq, OutstandingFacts DEF DevInv, Types, ServerTypes
<1>2. /\ Tail(socket) \in Seq(Half) /\ Len(Tail(socket)) = Len(socket) - 1
      /\ \A i \in 1..Len(Tail(socket)) : Tail(socket)[i] = socket[i + 1]
      /\ Head(socket) \in Half
  BY HeadTailProperties DEF DevInv, Types, ServerTypes
<1>3. Head(socket) = socket[1]
  BY DEF DevInv, Types, ServerTypes
<1>4. Outstanding' = Outstanding
  BY Zenon DEF Outstanding
<1>5. Consumed' = Consumed + 1 /\ Consumed \in Nat
  <2>1. Consumed \in Nat
    BY DEF DevInv, ServerOK
  <2>2. QED
    BY <1>1, <1>2, <1>4, <2>1 DEF Consumed
<1>6. ASSUME NEW i \in 1..Len(socket) PROVE HasPlace(socket[i], Consumed + i)
  BY DEF DevInv, ServerOK
<1>7. HasPlace(Head(socket), Consumed + 1)
  BY <1>1, <1>3, <1>6
<1>8. ServerTypes'
  BY <1>2 DEF ServerTypes, DevInv, Types
<1>9. ServerOK'
  <2>1. ASSUME NEW i \in 1..Len(socket)' PROVE HasPlace(socket[i], Consumed + i)'
    <3>1. i + 1 \in 1..Len(socket) /\ socket'[i] = socket[i + 1]
      BY <1>1, <1>2
    <3>2. HasPlace(socket[i + 1], Consumed + (i + 1))
      BY <1>6, <3>1
    <3>3. Consumed + (i + 1) = Consumed' + i
      BY <1>2, <1>1, <1>5
    <3>4. QED
      BY <3>1, <3>2, <3>3 DEF HasPlace, IsSent
  <2>2. (owed => sent # <<>>)' /\ SentNumbered'
    BY DEF DevInv, ServerOK, SentNumbered
  <2>3. QED
    BY <2>1, <2>2, <1>5 DEF ServerOK
<1>10. QED
  BY <1>2, <1>5, <1>7, <1>8, <1>9

\* The content of the channel.
LEMMA ChannelFacts ==
  ASSUME DevInv
  PROVE  got \o queue \in Seq(Message) /\ Len(got \o queue) \in Nat
BY ConcatProperties, LenProperties DEF DevInv, Types, ChannelTypes

LEMMA GotoFacts ==
  ASSUME NEW m \in Message,
         NEW p \in {"top", "head", "rest", "send", "send_error", "failed", "done"},
         Goto(p, m)
  PROVE  PumpTypes' /\ pump'.pc = p /\ pump'.msg = m
BY DEF Goto, PumpTypes

LEMMA FailsToInv ==
  ASSUME DevInv, pump.pc \in {"head", "rest"}, FailsTo(NoMsg),
         ServerTypes', ServerOK', Consumed <= Consumed', sent' = sent,
         UNCHANGED <<mode, channel>>
  PROVE  DevInv'
<1>1. Consumed \in Nat /\ Consumed' \in Nat
  BY DEF DevInv, ServerOK
<1>2. ChannelTypes'
  BY DEF DevInv, Types, ChannelTypes, channel
<1>3. CASE ByChannel
  <2>1. PumpTypes' /\ pump'.pc = "send_error" /\ UNCHANGED <<view, tx, waiter>>
    BY <1>3, GotoFacts, ErrFacts DEF FailsTo, ByChannel
  <2>2. PumpOK'
    BY <2>1 DEF PumpOK
  <2>3. view.latest.id \in Nat /\ ViewTypes'
    BY <2>1 DEF DevInv, Types, ViewTypes, Message
  <2>4. ViewOK'
    BY <1>1, <2>1, <2>3 DEF ViewOK, DevInv
  <2>5. WaitersOK'
    BY <2>1 DEF WaitersOK, DevInv
  <2>6. ChannelOK'
    BY <1>3, <2>1 DEF ChannelOK, DevInv, ByChannel, Faithful, channel
  <2>7. QED
    BY <1>2, <2>1, <2>2, <2>3, <2>4, <2>5, <2>6 DEF DevInv, Types
<1>4. CASE ~ByChannel
  <2>1. PumpTypes' /\ pump'.pc = "failed" /\ store_terminal_error
    BY <1>4, GotoFacts, ErrFacts DEF FailsTo, ByChannel
  <2>2. WaitersOK' /\ ViewTypes' /\ view'.latest = view.latest /\ view'.error
    BY <2>1, ErrorWaiters
  <2>3. PumpOK'
    BY <2>1, <2>2 DEF PumpOK
  <2>4. view.latest.id \in Nat
    BY DEF DevInv, Types, ViewTypes, Message
  <2>5. ViewOK'
    BY <1>1, <2>2, <2>4 DEF ViewOK, DevInv
  <2>6. ChannelOK'
    BY <1>4 DEF ChannelOK, ByChannel
  <2>7. QED
    BY <1>2, <2>1, <2>2, <2>3, <2>5, <2>6 DEF DevInv, Types
<1>5. QED
  BY <1>3, <1>4

\* A pump step that leaves the server alone keeps the server's promises.
LEMMA ServerSame ==
  ASSUME DevInv, UNCHANGED <<socket, sent, owed>>
  PROVE  ServerTypes' /\ ServerOK' /\ Consumed' = Consumed /\ Consumed \in Nat
<1>1. Outstanding' = Outstanding
  BY Zenon DEF Outstanding
<1>2. Consumed' = Consumed
  BY <1>1 DEF Consumed
<1>3. QED
  BY <1>2 DEF DevInv, Types, ServerTypes, ServerOK, SentNumbered, HasPlace, IsSent

LEMMA TopInv ==
  ASSUME DevInv, Top
  PROVE  DevInv'
<1>1. ServerTypes' /\ ServerOK' /\ Consumed' = Consumed /\ Consumed \in Nat
  BY ServerSame DEF Top, server
<1>2. ChannelTypes' /\ ViewTypes /\ ~ByChannel
  BY DEF DevInv, Types, ChannelTypes, channel, Top, ChannelOK
<1>3. ChannelOK'
  BY <1>2 DEF ChannelOK, ByChannel, Top
<1>4. ViewOK'
  BY <1>1 DEF ViewOK, DevInv, Top
<1>5. PumpTypes' /\ PumpOK'
  <2>1. CASE pump' = [pc |-> "done", msg |-> NoMsg]
    BY <2>1, GotoFacts, ErrFacts DEF PumpOK, Goto
  <2>2. CASE pump' = [pc |-> "head", msg |-> NoMsg]
    <3>1. PumpTypes' /\ pump'.pc = "head"
      BY <2>2, GotoFacts, ErrFacts DEF Goto
    <3>2. QED
      BY <1>1, <3>1 DEF PumpOK, DevInv, Top
  <2>3. QED
    BY <2>1, <2>2 DEF Top, Goto
<1>6. WaitersOK' /\ ViewTypes'
  <2>1. CASE Handles = 0
    <3> DEFINE S == {w \in Waiters : waiter[w].pc # "dropped"}
    <3>1. IsFiniteSet(S)
      BY WaitersFinite, FS_Subset
    <3>2. S = {}
      BY <2>1, <3>1, FS_EmptySet DEF Handles
    <3>3. \A w \in Waiters : waiter[w].pc = "dropped"
      BY <3>2
    <3>4. tx' = [tx EXCEPT !.alive = FALSE] /\ UNCHANGED <<mode, view, waiter>>
      BY <2>1 DEF Top
    <3>5. QED
      BY <3>3, <3>4, SenderGone
  <2>2. CASE Handles # 0
    BY <2>2, <1>2 DEF Top, DevInv, WaitersOK, ViewTypes
  <2>3. QED
    BY <2>1, <2>2
<1>7. QED
  BY <1>1, <1>2, <1>3, <1>4, <1>5, <1>6 DEF DevInv, Types

LEMMA PumpReturnsInv ==
  ASSUME DevInv, PumpReturns
  PROVE  DevInv'
<1>1. ServerTypes' /\ ServerOK' /\ Consumed' = Consumed /\ Consumed \in Nat
  BY ServerSame DEF PumpReturns, server
<1>2. ChannelTypes' /\ ~ByChannel /\ view.error
  BY DEF DevInv, Types, ChannelTypes, channel, PumpReturns, ChannelOK, PumpOK
<1>3. PumpTypes' /\ pump'.pc = "done"
  BY GotoFacts, ErrFacts DEF PumpReturns
<1>4. ChannelOK' /\ PumpOK'
  BY <1>2, <1>3 DEF ChannelOK, ByChannel, PumpOK, PumpReturns
<1>5. ViewOK'
  BY <1>1 DEF ViewOK, DevInv, PumpReturns
<1>6. WaitersOK' /\ ViewTypes'
  BY <1>2, SenderGone DEF PumpReturns
<1>7. QED
  BY <1>1, <1>2, <1>3, <1>4, <1>5, <1>6 DEF DevInv, Types

LEMMA ReadHeadInv ==
  ASSUME DevInv, ReadHead
  PROVE  DevInv'
<1> DEFINE h == Head(socket)
           m == Parsed(h)
<1>1. /\ ServerTypes' /\ ServerOK' /\ Consumed' = Consumed + 1 /\ Consumed \in Nat
      /\ h \in Half /\ HasPlace(h, Consumed + 1)
  BY ReadsHalf DEF ReadHead
<1>2. UNCHANGED <<mode, channel>> /\ sent' = sent /\ pump.pc = "head"
  BY DEF ReadHead
<1>3. CASE Known(m.kind)
  <2>1. PICK k \in 0..Consumed : 2 * k = Consumed
    BY <1>2 DEF DevInv, PumpOK
  <2>2. h.half \in {"head", "rest"} /\ h.msg \in Message /\ h.msg.id \in Nat
    BY <1>1 DEF Half, Message
  <2>3. h.half = "head" /\ 2 * h.msg.id = Consumed + 2
    <3>1. CASE h.half = "head"
      BY <1>1, <3>1 DEF HasPlace
    <3>2. CASE h.half = "rest"
      <4>1. 2 * h.msg.id = 2 * k + 1
        BY <1>1, <2>1, <3>2 DEF HasPlace
      <4>2. QED
        BY <2>1, <2>2, <4>1
    <3>3. QED
      BY <2>2, <3>1, <3>2
  <2>4. m = h.msg
    BY <2>3 DEF Parsed
  <2>5. Goto("rest", m) /\ UNCHANGED <<view, tx, waiter>>
    BY <1>3 DEF ReadHead
  <2> HIDE DEF m, h
  <2>6. PumpTypes' /\ pump'.pc = "rest" /\ pump'.msg = h.msg
    BY <2>2, <2>4, <2>5, GotoFacts
  <2>7. IsSent(h.msg)
    BY <1>1 DEF HasPlace
  <2>8. PumpOK'
    BY <1>1, <1>2, <2>3, <2>6, <2>7 DEF PumpOK, IsSent
  <2>9. view.latest.id \in Nat /\ ViewTypes' /\ ChannelTypes'
    BY <1>2, <2>5 DEF DevInv, Types, ViewTypes, Message, ChannelTypes, channel
  <2>10. ViewOK' /\ WaitersOK'
    BY <1>1, <1>2, <2>5, <2>9 DEF ViewOK, WaitersOK, DevInv
  <2>11. ChannelOK'
    <3>1. Len(got \o queue) \in Nat
      BY ChannelFacts
    <3>2. QED
      BY <1>1, <1>2, <2>6, <3>1 DEF ChannelOK, DevInv, ByChannel, Faithful, channel
  <2>12. QED
    BY <1>1, <2>6, <2>8, <2>9, <2>10, <2>11 DEF DevInv, Types
<1>4. CASE ~Known(m.kind)
  <2>1. FailsTo(NoMsg)
    BY <1>4 DEF ReadHead
  <2>2. Consumed <= Consumed'
    BY <1>1
  <2>3. QED
    BY <1>1, <1>2, <2>1, <2>2, FailsToInv
<1>5. QED
  BY <1>3, <1>4

LEMMA ReadRestInv ==
  ASSUME DevInv, ReadRest
  PROVE  DevInv'
<1> DEFINE m == pump.msg
<1>1. /\ ServerTypes' /\ ServerOK' /\ Consumed' = Consumed + 1 /\ Consumed \in Nat
  BY ReadsHalf DEF ReadRest
<1>2. UNCHANGED <<mode, channel>> /\ sent' = sent /\ pump.pc = "rest"
  BY DEF ReadRest
<1>3. IsSent(m) /\ 2 * m.id = Consumed + 1 /\ m \in Message /\ m.id \in Nat
  BY <1>2 DEF DevInv, PumpOK, Types, PumpTypes, Message
<1>4. view.latest.id \in Nat /\ ViewTypes /\ ChannelTypes' /\ 2 * view.latest.id <= Consumed
  BY <1>2 DEF DevInv, Types, ViewTypes, Message, ChannelTypes, channel, ViewOK
<1>5. CASE m.kind = "bad"
  <2>1. FailsTo(NoMsg)
    BY <1>5 DEF ReadRest, FrameKinds
  <2>2. Consumed <= Consumed'
    BY <1>1
  <2>3. QED
    BY <1>1, <1>2, <2>1, <2>2, FailsToInv
<1>6. CASE m.kind # "bad" /\ ByChannel
  <2>1. Goto("send", m) /\ UNCHANGED <<view, tx, waiter>>
    BY <1>6 DEF ReadRest, ByChannel
  <2>2. PumpTypes' /\ pump'.pc = "send" /\ pump'.msg = m
    BY <1>3, <2>1, GotoFacts
  <2>3. PumpOK'
    BY <1>1, <1>2, <1>3, <2>2 DEF PumpOK, IsSent
  <2>4. ViewTypes' /\ ViewOK' /\ WaitersOK'
    BY <1>1, <1>2, <1>4, <2>1 DEF ViewOK, WaitersOK, DevInv, ViewTypes
  <2>5. ChannelOK'
    <3>1. Len(got \o queue) \in Nat
      BY ChannelFacts
    <3>2. QED
      BY <1>1, <1>2, <2>2, <3>1 DEF ChannelOK, DevInv, ByChannel, Faithful, channel
  <2>6. QED
    BY <1>1, <1>4, <2>2, <2>3, <2>4, <2>5 DEF DevInv, Types
<1>7. CASE m.kind # "bad" /\ ~ByChannel
  <2>1. Goto("top", NoMsg)
    <3>1. CASE m.kind \in FrameKinds /\ mode \in {"latest", "watch"}
      BY <1>7, <3>1 DEF ReadRest, ByChannel
    <3>2. CASE ~(m.kind \in FrameKinds /\ mode \in {"latest", "watch"})
      BY <1>7, <3>2 DEF ReadRest, ByChannel
    <3>3. QED
      BY <3>1, <3>2
  <2>2. PumpTypes' /\ pump'.pc = "top"
    BY <2>1, GotoFacts, ErrFacts
  <2>3. PumpOK'
    <3>1. m.id \in 0..Consumed'
      BY <1>1, <1>3
    <3>2. 2 * m.id = Consumed'
      BY <1>1, <1>3
    <3>3. QED
      BY <2>2, <3>1, <3>2 DEF PumpOK
  <2>4. ChannelOK'
    BY <1>2, <1>7 DEF ChannelOK, ByChannel
  <2>5. ViewTypes' /\ ViewOK' /\ WaitersOK'
    <3>1. CASE UNCHANGED <<view, tx, waiter>>
      BY <1>1, <1>2, <1>4, <3>1 DEF ViewOK, WaitersOK, DevInv, ViewTypes
    <3>2. CASE m.kind \in FrameKinds /\ store_summary(m)
      <4>1. view.latest.id < m.id
        BY <1>3, <1>4, <1>1
      <4>2. WaitersOK' /\ ViewTypes' /\ view'.latest = m
        BY <1>2, <1>3, <3>2, <4>1, SummaryWaiters
      <4>3. QED
        BY <1>1, <1>3, <3>2, <4>2 DEF ViewOK
    <3>3. (m.kind \in FrameKinds /\ store_summary(m)) \/ UNCHANGED <<view, tx, waiter>>
      BY <1>7 DEF ReadRest, ByChannel
    <3>4. QED
      BY <3>1, <3>2, <3>3
  <2>6. QED
    BY <1>1, <1>4, <2>2, <2>3, <2>4, <2>5 DEF DevInv, Types
<1>8. QED
  BY <1>5, <1>6, <1>7

LEMMA ReadFailsInv ==
  ASSUME DevInv, ReadFails
  PROVE  DevInv'
<1>1. ServerTypes' /\ ServerOK' /\ Consumed' = Consumed /\ Consumed \in Nat
  BY ServerSame DEF ReadFails, server
<1>2. UNCHANGED <<mode, channel>> /\ sent' = sent /\ pump.pc \in {"head", "rest"} /\ FailsTo(NoMsg)
  BY DEF ReadFails, server
<1>3. Consumed <= Consumed'
  BY <1>1
<1>4. QED
  BY <1>1, <1>2, <1>3, FailsToInv

-----------------------------------------------------------------------------
(* The channel.                                                            *)

\* A step of the channel's ends: the view and its waiters do not see it.
LEMMA ChannelMoves ==
  ASSUME DevInv, UNCHANGED <<mode, server, view, tx, waiter>>,
         PumpTypes', PumpOK', ChannelTypes', ChannelOK'
  PROVE  DevInv'
<1>1. ServerTypes' /\ ServerOK' /\ Consumed' = Consumed /\ Consumed \in Nat
  BY ServerSame DEF server
<1>2. ViewTypes' /\ ViewOK' /\ WaitersOK'
  BY <1>1 DEF ViewOK, WaitersOK, DevInv, Types, ViewTypes
<1>3. QED
  BY <1>1, <1>2 DEF DevInv, Types

\* Appending to the queue appends to the channel's content.
LEMMA Enqueue ==
  ASSUME DevInv, NEW m \in Message
  PROVE  /\ got \o Append(queue, m) = Append(got \o queue, m)
         /\ Append(queue, m) \in Seq(Message)
<1>1. got \in Seq(Message) /\ queue \in Seq(Message) /\ <<m>> \in Seq(Message)
  BY DEF DevInv, Types, ChannelTypes
<1>2. Append(queue, m) = queue \o <<m>> /\ Append(queue, m) \in Seq(Message)
  BY <1>1, AppendIsConcat, AppendProperties
<1>3. Append(got \o queue, m) = (got \o queue) \o <<m>>
  BY ChannelFacts, AppendIsConcat
<1>4. QED
  BY <1>1, <1>2, <1>3, ConcatAssociative

LEMMA SendMsgInv ==
  ASSUME DevInv, SendMsg
  PROVE  DevInv'
<1> DEFINE c == got \o queue
           m == pump.msg
<1>1. pump.pc = "send" /\ UNCHANGED <<mode, server, rx, got, view, tx, waiter>>
  BY DEF SendMsg
<1>2. Consumed' = Consumed /\ Consumed \in Nat
  BY <1>1, ServerSame DEF server
<1>3. IsSent(m) /\ 2 * m.id = Consumed /\ m \in Message /\ m.id \in Nat
  BY <1>1 DEF DevInv, PumpOK, Types, PumpTypes, Message
<1>4. CASE rx = "dropped"
  <2>1. PumpTypes' /\ pump'.pc = "done" /\ queue' = queue
    BY <1>4, GotoFacts, ErrFacts DEF SendMsg
  <2>2. PumpOK' /\ ChannelTypes'
    BY <1>1, <2>1 DEF PumpOK, DevInv, Types, ChannelTypes
  <2>3. ChannelOK'
    BY <1>1, <1>4, <2>1 DEF ChannelOK
  <2>4. QED
    BY <1>1, <2>1, <2>2, <2>3, ChannelMoves
<1>5. CASE rx # "dropped"
  <2>1. PumpTypes' /\ pump'.pc = "head" /\ queue' = Append(queue, m)
    BY <1>5, GotoFacts, ErrFacts DEF SendMsg
  <2>2. c' = Append(c, m) /\ ChannelTypes'
    BY <1>1, <1>3, <2>1, Enqueue DEF DevInv, Types, ChannelTypes
  <2>3. PumpOK'
    <3>1. m.id \in 0..Consumed' /\ 2 * m.id = Consumed'
      BY <1>2, <1>3
    <3>2. QED
      BY <2>1, <3>1 DEF PumpOK
  <2>4. ChannelOK'
    <3>1. SUFFICES ASSUME ByChannel, rx = "live"
                   PROVE  Faithful(c)' /\ 2 * Len(c)' = Consumed'
      BY <1>1, <2>1 DEF ChannelOK, ByChannel
    <3>2. Faithful(c) /\ 2 * Len(c) + 2 = Consumed /\ c \in Seq(Message) /\ Len(c) \in Nat
      BY <1>1, <3>1, ChannelFacts DEF DevInv, ChannelOK
    <3>3. /\ Len(c') = Len(c) + 1 /\ c'[Len(c) + 1] = m
          /\ \A i \in 1..Len(c) : c'[i] = c[i]
      BY <1>3, <2>2, <3>2, AppendProperties
    <3>4. m.id = Len(c) + 1
      BY <1>3, <3>2, SMTT(30)
    <3>5. m.id <= Len(sent) /\ m = sent[m.id] /\ sent' = sent
      BY <1>1, <1>3 DEF IsSent, server
    <3> HIDE DEF c, m
    <3>6. QED
      BY <1>2, <3>2, <3>3, <3>4, <3>5 DEF Faithful
  <2>5. QED
    BY <1>1, <2>1, <2>2, <2>3, <2>4, ChannelMoves
<1>6. QED
  BY <1>4, <1>5

LEMMA SendErrorInv ==
  ASSUME DevInv, SendError
  PROVE  DevInv'
<1> DEFINE c == got \o queue
<1>1. pump.pc = "send_error" /\ UNCHANGED <<mode, server, rx, got, view, tx, waiter>>
  BY DEF SendError
<1>2. PumpTypes' /\ pump'.pc = "done" /\ PumpOK'
  BY GotoFacts, ErrFacts DEF SendError, PumpOK
<1>3. CASE rx = "dropped"
  <2>1. ChannelTypes' /\ ChannelOK'
    BY <1>1, <1>2, <1>3 DEF SendError, ChannelOK, DevInv, Types, ChannelTypes
  <2>2. QED
    BY <1>1, <1>2, <2>1, ChannelMoves
<1>4. CASE rx # "dropped"
  <2>1. queue' = Append(queue, ErrMsg)
    BY <1>4 DEF SendError
  <2>2. c' = Append(c, ErrMsg) /\ ChannelTypes'
    BY <1>1, <2>1, ErrFacts, Enqueue DEF DevInv, Types, ChannelTypes
  <2>3. ChannelOK'
    <3>1. SUFFICES ASSUME ByChannel, rx = "live", NEW i \in 1..Len(c)'
                   PROVE  IF c'[i] = ErrMsg THEN i = Len(c')
                                            ELSE i <= Len(sent) /\ c'[i] = sent[i]
      BY <1>1, <1>2 DEF ChannelOK, ByChannel, server
    <3>2. Faithful(c) /\ c \in Seq(Message) /\ Len(c) \in Nat
      BY <1>1, <3>1, ChannelFacts DEF DevInv, ChannelOK
    <3>3. /\ Len(c') = Len(c) + 1 /\ c'[Len(c) + 1] = ErrMsg
          /\ \A j \in 1..Len(c) : c'[j] = c[j]
      BY <2>2, <3>2, ErrFacts, AppendProperties
    <3> HIDE DEF c
    <3>4. CASE i = Len(c) + 1
      BY <3>3, <3>4
    <3>5. CASE i \in 1..Len(c)
      <4>1. c'[i] = sent[i] /\ i \in 1..Len(sent)
        BY <3>2, <3>3, <3>5, LenProperties DEF Faithful, DevInv, Types, ServerTypes
      <4>2. sent[i].id = i /\ i # 0
        BY <4>1 DEF DevInv, ServerOK, SentNumbered
      <4>3. c'[i] # ErrMsg
        BY <4>1, <4>2, ErrFacts
      <4>4. QED
        BY <4>1, <4>3
    <3>6. QED
      BY <3>2, <3>3, <3>4, <3>5
  <2>4. QED
    BY <1>1, <1>2, <2>2, <2>3, ChannelMoves
<1>5. QED
  BY <1>3, <1>4

LEMMA ReceiveInv ==
  ASSUME DevInv, Receive
  PROVE  DevInv'
<1> DEFINE c == got \o queue
<1>1. UNCHANGED <<mode, server, pump, rx, view, tx, waiter>>
  BY DEF Receive
<1>2. Consumed' = Consumed
  BY <1>1, ServerSame DEF server
<1>3. /\ queue \in Seq(Message) /\ queue # <<>> /\ got \in Seq(Message)
      /\ got' = Append(got, Head(queue)) /\ queue' = Tail(queue)
  BY DEF Receive, DevInv, Types, ChannelTypes
<1>4. /\ Head(queue) \in Message /\ Tail(queue) \in Seq(Message)
      /\ <<Head(queue)>> \in Seq(Message) /\ queue = <<Head(queue)>> \o Tail(queue)
  <2>1. Head(queue) \in Message /\ Tail(queue) \in Seq(Message)
    BY <1>3, HeadTailProperties
  <2>2. queue = <<Head(queue)>> \o Tail(queue)
    BY <1>3
  <2>3. QED
    BY <2>1, <2>2
<1>5. c' = c /\ ChannelTypes'
  <2>1. got' = got \o <<Head(queue)>> /\ got' \in Seq(Message)
    BY <1>3, <1>4, AppendIsConcat, AppendProperties
  <2>2. (got \o <<Head(queue)>>) \o Tail(queue) = got \o (<<Head(queue)>> \o Tail(queue))
    BY <1>3, <1>4, ConcatAssociative
  <2>3. ChannelTypes'
    BY <1>1, <1>3, <1>4, <2>1 DEF ChannelTypes, DevInv, Types
  <2>4. QED
    BY <1>3, <1>4, <2>1, <2>2, <2>3
<1>6. PumpTypes' /\ PumpOK'
  BY <1>1, <1>2 DEF PumpTypes, PumpOK, IsSent, DevInv, Types, server
<1>7. ChannelOK'
  BY <1>1, <1>2, <1>5 DEF ChannelOK, ByChannel, Faithful, DevInv, server
<1>8. QED
  BY <1>1, <1>5, <1>6, <1>7, ChannelMoves

LEMMA DropReceiverInv ==
  ASSUME DevInv, DropReceiver
  PROVE  DevInv'
<1>1. UNCHANGED <<mode, server, pump, got, view, tx, waiter>> /\ rx' = "dropped" /\ queue' = <<>>
  BY DEF DropReceiver
<1>2. Consumed' = Consumed
  BY <1>1, ServerSame DEF server
<1>3. PumpTypes' /\ PumpOK'
  BY <1>1, <1>2 DEF PumpTypes, PumpOK, IsSent, DevInv, Types, server
<1>4. ChannelTypes' /\ ChannelOK'
  BY <1>1 DEF ChannelTypes, ChannelOK, ByChannel, DevInv, Types
<1>5. QED
  BY <1>1, <1>3, <1>4, ChannelMoves

-----------------------------------------------------------------------------
LEMMA CloseInv ==
  ASSUME DevInv, Close
  PROVE  DevInv'
<1>1. ServerTypes' /\ ServerOK' /\ Consumed' = Consumed
  BY ServerSame DEF Close
<1>2. sent' = sent /\ UNCHANGED <<mode, pump, channel, view, tx, waiter>>
  BY DEF Close
<1>3. Len(sent) \in Nat
  BY LenProperties DEF DevInv, Types, ServerTypes
<1>4. QED
  BY <1>1, <1>2, <1>3, ServerMoves

LEMMA InitInv == Init => DevInv
<1> SUFFICES ASSUME Init PROVE DevInv
  OBVIOUS
<1>1. Types
  <2>1. ServerTypes /\ ChannelTypes
    <3>1. <<>> \in Seq(Message) /\ <<>> \in Seq(Half)
      BY EmptySeq
    <3>2. owed \in BOOLEAN
      BY Zenon DEF Init
    <3>3. QED
      BY <3>1, <3>2 DEF Init, ServerTypes, ChannelTypes
  <2>2. PumpTypes
    BY ErrFacts DEF Init, PumpTypes
  <2>3. ViewTypes
    BY ErrFacts DEF Init, ViewTypes
  <2>4. QED
    BY <2>1, <2>2, <2>3 DEF Types
<1>2. Outstanding = 0
  BY Zenon DEF Init, Outstanding
<1>3. Consumed = 0
  BY <1>2, EmptySeq DEF Init, Consumed
<1>4. Len(<<>>) = 0 /\ 1..0 = {}
  OBVIOUS
<1>5. ServerOK
  BY <1>3, <1>4 DEF Init, ServerOK, SentNumbered
<1>6. PumpOK
  <2>1. 0 \in 0..Consumed /\ 2 * 0 = Consumed
    BY <1>3
  <2>2. QED
    BY <2>1 DEF Init, PumpOK
<1>7. ViewOK
  BY <1>3, ErrFacts DEF Init, ViewOK
<1>8. Idle \in WaiterRecord
  BY ErrFacts DEF Idle, WaiterRecord
<1>9. WaitersOK
  <2>1. WaiterOK(Idle, view, tx, mode)
    BY <1>8 DEF Init, WaiterOK, ResultOK, Idle
  <2>2. QED
    BY <1>8, <2>1 DEF Init, WaitersOK
<1>10. ChannelOK
  <2>1. got \o queue = <<>>
    BY ConcatEmptySeq, EmptySeq DEF Init
  <2>2. QED
    BY <1>3, <1>4, <2>1 DEF Init, ChannelOK, ByChannel, Faithful
<1>11. QED
  BY <1>1, <1>5, <1>6, <1>7, <1>9, <1>10 DEF DevInv

LEMMA StepInv == DevInv /\ [Next]_vars => DevInv'
<1> SUFFICES ASSUME DevInv, [Next]_vars PROVE DevInv'
  OBVIOUS
<1>1. ASSUME NEW kind \in Kinds, Send(kind) PROVE DevInv'
  BY <1>1, SendInv
<1>2. CASE SendRest
  BY <1>2, SendRestInv
<1>3. CASE Close
  BY <1>3, CloseInv
<1>4. CASE PumpStep
  BY <1>4, TopInv, ReadHeadInv, ReadRestInv, SendMsgInv, SendErrorInv,
     PumpReturnsInv DEF PumpStep
<1>5. CASE ReadFails
  BY <1>5, ReadFailsInv
<1>6. CASE Receive \/ DropReceiver
  BY <1>6, ReceiveInv, DropReceiverInv
<1>7. ASSUME NEW w \in Waiters, WaiterStep(w) PROVE DevInv'
  BY <1>7, CheckInv, ChangedInv DEF WaiterStep
<1>8. ASSUME NEW w \in Waiters,
             Observe(w) \/ Expire(w) \/ SpuriousWake(w) \/ DropHandle(w)
      PROVE  DevInv'
  BY <1>8, ObserveInv, ExpireInv, SpuriousWakeInv, DropHandleInv
<1>9. CASE UNCHANGED vars
  <2>1. UNCHANGED <<socket, sent, owed>> /\ UNCHANGED <<mode, pump, channel, view, tx, waiter>>
    BY <1>9 DEF vars, channel
  <2>2. ServerTypes' /\ ServerOK' /\ Consumed' = Consumed /\ Len(sent) \in Nat
    BY <2>1, ServerSame, LenProperties DEF DevInv, Types, ServerTypes
  <2>3. QED
    BY <2>1, <2>2, ServerMoves
<1>10. QED
  BY <1>1, <1>2, <1>3, <1>4, <1>5, <1>6, <1>7, <1>8, <1>9 DEF Next

(* The count of the halves read tells, in every reachable state, where the *)
(* pump is in the server's stream; the boundary a waiter took stays at or  *)
(* below the frame the pump published last; and a watch sender never goes  *)
(* before its error is out.                                                *)
THEOREM ReceiverInvariant == Spec => []DevInv
<1>1. Init => DevInv
  BY InitInv
<1>2. DevInv /\ [Next]_vars => DevInv'
  BY StepInv
<1>3. QED
  BY <1>1, <1>2, PTL DEF Spec

(* spawn_device_message_receiver and spawn_device_event_receiver, with any *)
(* channel bound and any stream: what the consumer received, what is       *)
(* queued and what the pump holds is a prefix of what the server sent, and *)
(* an error comes last or not at all.                                      *)
THEOREM ReceiverChannelFaithful == Spec => []ChannelFaithful
<1>1. DevInv => ChannelFaithful
  <2> SUFFICES ASSUME DevInv, ByChannel, rx = "live", NEW i \in 1..Len(OnChannel)
               PROVE  IF OnChannel[i] = ErrMsg THEN i = Len(OnChannel)
                      ELSE i <= Len(sent) /\ OnChannel[i] = sent[i]
    BY DEF ChannelFaithful, ByChannel
  <2> DEFINE c == got \o queue
  <2>1. c \in Seq(Message) /\ Len(c) \in Nat
    BY ChannelFacts
  <2>2. pump.msg \in Message /\ Len(sent) \in Nat
    BY LenProperties DEF DevInv, Types, PumpTypes, ServerTypes
  <2>3. pump.pc # "done" => Faithful(c)
    BY DEF DevInv, ChannelOK
  <2>4. ASSUME Faithful(c), NEW j \in 1..Len(c)
        PROVE  c[j] # ErrMsg /\ j <= Len(sent) /\ c[j] = sent[j]
    <3>1. j <= Len(sent) /\ c[j] = sent[j]
      BY <2>4 DEF Faithful
    <3>2. sent[j].id = j /\ j # 0
      BY <2>1, <2>2, <3>1 DEF DevInv, ServerOK, SentNumbered
    <3>3. QED
      BY <3>1, <3>2, ErrFacts
  <2>5. OnChannel = c \o InFlight
    BY DEF OnChannel
  <2>6. ASSUME NEW m \in Message, InFlight = <<m>>
        PROVE  /\ Len(OnChannel) = Len(c) + 1 /\ OnChannel[Len(c) + 1] = m
               /\ \A j \in 1..Len(c) : OnChannel[j] = c[j]
    BY <2>1, <2>5, <2>6, AppendIsConcat, AppendProperties
  <2> HIDE DEF c
  <2>7. CASE pump.pc = "send"
    <3>1. InFlight = <<pump.msg>>
      BY <2>7 DEF InFlight
    <3>2. IsSent(pump.msg) /\ 2 * pump.msg.id = Consumed /\ 2 * Len(c) + 2 = Consumed
      BY <2>7 DEF DevInv, PumpOK, ChannelOK, c
    <3>3. pump.msg.id \in Nat /\ Consumed \in Nat
      BY <2>2 DEF Message, DevInv, ServerOK
    <3>4. pump.msg.id = Len(c) + 1 /\ pump.msg.id # 0
      BY <2>1, <3>2, <3>3
    <3>5. pump.msg # ErrMsg /\ pump.msg.id <= Len(sent) /\ pump.msg = sent[Len(c) + 1]
      BY <2>2, <3>2, <3>4, ErrFacts DEF IsSent
    <3>6. CASE i = Len(c) + 1
      BY <2>2, <2>6, <3>1, <3>4, <3>5, <3>6
    <3>7. CASE i \in 1..Len(c)
      BY <2>2, <2>3, <2>4, <2>6, <2>7, <3>1, <3>7
    <3>8. QED
      BY <2>1, <2>2, <2>6, <3>1, <3>6, <3>7
  <2>8. CASE pump.pc = "send_error"
    <3>1. InFlight = <<ErrMsg>>
      BY <2>8 DEF InFlight
    <3>2. CASE i = Len(c) + 1
      BY <2>6, <3>1, <3>2, ErrFacts
    <3>3. CASE i \in 1..Len(c)
      BY <2>3, <2>4, <2>6, <2>8, <3>1, <3>3, ErrFacts
    <3>4. QED
      BY <2>1, <2>6, <3>1, <3>2, <3>3, ErrFacts
  <2>9. CASE pump.pc \notin {"send", "send_error"}
    <3>1. InFlight = <<>>
      BY <2>9 DEF InFlight
    <3>2. OnChannel = c
      BY <2>1, <2>5, <3>1, ConcatEmptySeq
    <3>3. CASE pump.pc # "done"
      BY <2>3, <2>4, <3>2, <3>3
    <3>4. CASE pump.pc = "done"
      BY <3>2, <3>4 DEF DevInv, ChannelOK, c
    <3>5. QED
      BY <3>3, <3>4
  <2>10. QED
    BY <2>7, <2>8, <2>9
<1>2. QED
  BY <1>1, ReceiverInvariant, PTL

(* wait_matching, wait_matching_timeout and their Tokio twins, with any    *)
(* number of waiters: a frame they return was published after the caller   *)
(* observed and matches; an error is the pump's or the deadline's.         *)
THEOREM ReceiverFreshFrame == Spec => []FreshFrame
<1>1. DevInv => FreshFrame
  <2> SUFFICES ASSUME DevInv, NEW w \in Waiters, waiter[w].result # NoMsg
               PROVE  LET r == waiter[w].result IN
                        CASE r.kind \in FrameKinds ->
                               r.id > waiter[w].floor /\ (waiter[w].want = "frame" => r.kind = "frame")
                          [] r.kind = "error"   -> view.error
                          [] r.kind = "timeout" -> waiter[w].timed
                          [] OTHER -> FALSE
    BY DEF FreshFrame
  <2>1. ResultOK(waiter[w], view)
    BY WaiterFacts DEF WaiterOK
  <2>2. "error" \notin FrameKinds /\ "timeout" \notin FrameKinds
    BY DEF FrameKinds
  <2>3. QED
    BY <2>1, <2>2 DEF ResultOK
<1>2. QED
  BY <1>1, ReceiverInvariant, PTL
=============================================================================
