----------------------- MODULE CoalescingWriterProofs -----------------------
(***************************************************************************)
(* Proofs about CoalescingWriter, for every limit, every message size, any *)
(* number of calls and any number of transport errors.                     *)
(***************************************************************************)
EXTENDS CoalescingWriter, SequenceTheorems, TLAPS

IInv == TypeOK /\ WriterInv

-----------------------------------------------------------------------------
(* Sequences of messages and the sets of messages they hold.               *)

(* What concatenation does to length and contents.                         *)
LEMMA ConcatFacts ==
  ASSUME NEW s \in Seq(Msg), NEW t \in Seq(Msg)
  PROVE  /\ s \o t \in Seq(Msg)
         /\ Len(s) \in Nat
         /\ Len(s \o t) = Len(s) + Len(t)
         /\ Range(s \o t) = Range(s) \cup Range(t)
         /\ (s \o t) \o <<>> = s \o t
<1>1. /\ s \o t \in Seq(Msg) /\ Len(s \o t) = Len(s) + Len(t)
      /\ \A i \in 1..(Len(s) + Len(t)) :
           (s \o t)[i] = IF i <= Len(s) THEN s[i] ELSE t[i - Len(s)]
  BY ConcatProperties
<1>2. /\ Len(s) \in Nat /\ DOMAIN s = 1..Len(s)
      /\ Len(t) \in Nat /\ DOMAIN t = 1..Len(t)
      /\ DOMAIN (s \o t) = 1..(Len(s) + Len(t))
  BY <1>1, LenProperties
<1>3. Range(s \o t) \subseteq Range(s) \cup Range(t)
  <2>1. SUFFICES ASSUME NEW i \in 1..(Len(s) + Len(t))
                 PROVE  (s \o t)[i] \in Range(s) \cup Range(t)
    BY <1>2 DEF Range
  <2>2. CASE i <= Len(s)
    BY <1>1, <1>2, <2>2 DEF Range
  <2>3. CASE i > Len(s)
    <3>1. i - Len(s) \in 1..Len(t) /\ (s \o t)[i] = t[i - Len(s)]
      BY <1>1, <1>2, <2>3
    <3> QED BY <1>2, <3>1 DEF Range
  <2> QED BY <1>2, <2>2, <2>3
<1>4. Range(s) \subseteq Range(s \o t)
  <2>1. SUFFICES ASSUME NEW i \in 1..Len(s) PROVE s[i] \in Range(s \o t)
    BY <1>2 DEF Range
  <2>2. i \in 1..(Len(s) + Len(t)) /\ (s \o t)[i] = s[i]
    BY <1>1, <1>2
  <2> QED BY <1>2, <2>2 DEF Range
<1>5. Range(t) \subseteq Range(s \o t)
  <2>1. SUFFICES ASSUME NEW i \in 1..Len(t) PROVE t[i] \in Range(s \o t)
    BY <1>2 DEF Range
  <2>2. i + Len(s) \in 1..(Len(s) + Len(t)) /\ (i + Len(s)) - Len(s) = i
    BY <1>2
  <2>3. (s \o t)[i + Len(s)] = t[i]
    BY <1>1, <1>2, <2>2
  <2> QED BY <1>2, <2>2, <2>3 DEF Range
<1>6. (s \o t) \o <<>> = s \o t
  BY <1>1, ConcatEmptySeq
<1> QED BY <1>1, <1>2, <1>3, <1>4, <1>5, <1>6

(* The empty sequence and the sequence of one message.                     *)
LEMMA ShortFacts ==
  /\ <<>> \in Seq(Msg) /\ Len(<<>>) = 0 /\ Range(<<>>) = {}
  /\ \A m \in Msg : <<m>> \in Seq(Msg) /\ Len(<<m>>) = 1 /\ Range(<<m>>) = {m}
<1>1. \A m \in Msg : Range(<<m>>) = {m}
  BY DEF Range
<1> QED BY <1>1 DEF Range

(* What Append does to length and contents.                                *)
LEMMA AppendFacts ==
  ASSUME NEW s \in Seq(Msg), NEW m \in Msg
  PROVE  /\ Append(s, m) \in Seq(Msg)
         /\ Append(s, m) # <<>>
         /\ Len(Append(s, m)) = Len(s) + 1
         /\ Range(Append(s, m)) = Range(s) \cup {m}
         /\ Append(s, m) = s \o <<m>>
<1>1. /\ Append(s, m) \in Seq(Msg) /\ Append(s, m) # <<>>
      /\ Len(Append(s, m)) = Len(s) + 1
  BY AppendProperties
<1>2. Append(s, m) = s \o <<m>>
  BY AppendIsConcat
<1>3. Range(s \o <<m>>) = Range(s) \cup {m}
  BY ConcatFacts, ShortFacts
<1> QED BY <1>1, <1>2, <1>3

(* Appending to a concatenation appends to its second part.                *)
LEMMA AppendConcat ==
  ASSUME NEW s \in Seq(Msg), NEW t \in Seq(Msg), NEW m \in Msg
  PROVE  Append(s \o t, m) = s \o Append(t, m)
<1>1. s \o t \in Seq(Msg) /\ <<m>> \in Seq(Msg)
  BY ConcatFacts, ShortFacts
<1>2. Append(s \o t, m) = (s \o t) \o <<m>> /\ Append(t, m) = t \o <<m>>
  BY <1>1, AppendIsConcat
<1> QED BY <1>1, <1>2, ConcatAssociative

(* Concatenation is associative on sequences of messages.                  *)
LEMMA ConcatAssoc ==
  \A s, t, u \in Seq(Msg) : s \o (t \o u) = (s \o t) \o u
BY ConcatAssociative, SMTT(30)

(* A prefix of a buffer.                                                   *)
LEMMA PrefixFacts ==
  ASSUME NEW b \in Seq(Msg), NEW k \in 0..Len(b)
  PROVE  SubSeq(b, 1, k) \in Seq(Msg)
<1>1. Len(b) \in Nat /\ \A i \in 1..k : b[i] \in Msg
  BY LenProperties, ElementOfSeq
<1> QED BY <1>1, SubSeqProperties

(* Cutting the last message off, or cutting nothing off.                   *)
LEMMA AppendPrefix ==
  ASSUME NEW s \in Seq(Msg), NEW m \in Msg
  PROVE  /\ SubSeq(Append(s, m), 1, Len(s)) = s
         /\ SubSeq(Append(s, m), 1, Len(s) + 1) = Append(s, m)
<1>1. /\ <<m>> \in Seq(Msg) /\ Append(s, m) = s \o <<m>>
      /\ Append(s, m) \in Seq(Msg) /\ Len(Append(s, m)) = Len(s) + 1
  BY ShortFacts, AppendFacts
<1>2. SubSeq(Append(s, m), 1, Len(s) + 1) = Append(s, m)
  BY <1>1, SubSeqFull
<1>3. Len(s) \in Nat /\ (Len(s) = 0 => s = <<>>)
  BY LenProperties, EmptySeq
<1>4. CASE Len(s) = 0
  BY <1>2, <1>3, <1>4, SubSeqEmpty
<1>5. CASE Len(s) # 0
  <2>1. SubSeq(s \o <<m>>, 1, Len(s)) = SubSeq(s, 1, Len(s))
    <3>1. 1 \in 1..Len(s) /\ Len(s) \in 1..Len(s)
      BY <1>3, <1>5
    <3> QED BY <1>1, <3>1, SubSeqOfConcat1
  <2> QED BY <1>1, <1>2, <2>1, SubSeqFull
<1> QED BY <1>4, <1>5

(* Splitting a batch into a chunk and the rest.                            *)
LEMMA SplitFacts ==
  ASSUME NEW b \in Seq(Msg), NEW k \in 1..Len(b)
  PROVE  /\ SubSeq(b, 1, k) \in Seq(Msg) /\ Len(SubSeq(b, 1, k)) = k
         /\ SubSeq(b, k + 1, Len(b)) \in Seq(Msg)
         /\ Len(SubSeq(b, k + 1, Len(b))) = Len(b) - k
<1>1. Len(b) \in Nat /\ \A i \in 1..Len(b) : b[i] \in Msg
  BY LenProperties, ElementOfSeq
<1>2. SubSeq(b, 1, k) \in Seq(Msg) /\ Len(SubSeq(b, 1, k)) = k
  BY <1>1, SubSeqProperties
<1>3. /\ SubSeq(b, k + 1, Len(b)) \in Seq(Msg)
      /\ Len(SubSeq(b, k + 1, Len(b))) = Len(b) - k
  BY <1>1, SubSeqProperties
<1> QED BY <1>2, <1>3

(* The frames of a batch.                                                  *)
LEMMA FramesFacts ==
  ASSUME TypeOK, NEW k \in Nat
  PROVE  Frames(k) \in Seq(Msg) /\ Len(Frames(k)) = k
<1>1. \A i \in 1..k : GamepadFrame(pushed + i) \in Msg
  BY SizeAssumption DEF TypeOK, GamepadFrame, Message, Msg
<1> DEFINE e(i) == GamepadFrame(pushed + i)
<1>2. \A i \in 1..k : e(i) \in Msg
  BY <1>1
<1> HIDE DEF e
<1>3. [i \in 1..k |-> e(i)] \in Seq(Msg) /\ Len([i \in 1..k |-> e(i)]) = k
  BY <1>2
<1> QED BY <1>3 DEF Frames, e

-----------------------------------------------------------------------------
(* What the pieces of an action do.                                        *)

(* A failing write: whatever arrived, the wire only grew.                  *)
LEMMA WriteErrFacts ==
  ASSUME TypeOK, NEW b \in Seq(Msg), WriteErr(b)
  PROVE  /\ wire' \in Seq(Msg)
         /\ Range(wire) \subseteq Range(wire')
         /\ faults' \in Nat /\ faults' # 0
<1>1. PICK k \in 0..Len(b) : wire' = wire \o SubSeq(b, 1, k)
  BY DEF WriteErr, Lands
<1>2. SubSeq(b, 1, k) \in Seq(Msg)
  BY PrefixFacts
<1>3. wire' \in Seq(Msg) /\ Range(wire) \subseteq Range(wire')
  BY <1>1, <1>2, ConcatFacts, ZenonT(30) DEF TypeOK
<1>4. faults' \in Nat /\ faults' # 0
  BY DEF WriteErr, TypeOK
<1> QED BY <1>3, <1>4

(* What is left of the buffer.                                             *)
LEMMA FlushFacts ==
  ASSUME TypeOK, NEW p \in Seq(Msg), NEW n \in Nat
  PROVE  /\ FlushOk(p, n) => pending' = <<>> /\ pendingLen' = 0
         /\ FlushErr(p, n) => pending' = p /\ pendingLen' = n /\ faults' # 0
         /\ Keep(p, n) => pending' = p /\ pendingLen' = n /\ faults' = faults
<1>1. FlushErr(p, n) => faults' # 0
  BY WriteErrFacts DEF FlushErr
<1> QED BY <1>1 DEF FlushOk, FlushErr, Keep

\* Types of the state an action of the buffer changes.
BufferTypeOK ==
  /\ wire \in Seq(Msg) /\ pending \in Seq(Msg)
  /\ pendingLen \in Nat /\ written \in Nat /\ flushes \in Nat /\ faults \in Nat

(* flush_now and the buffered push: a buffer p that holds what is missing  *)
(* on the wire is delivered, kept after an error, or kept for later; a     *)
(* budget of messages that covers the flushes and the buffer still does.   *)
LEMMA BufferStep ==
  ASSUME TypeOK, NEW p \in Seq(Msg), NEW n \in Nat, NEW budget \in Nat,
         accepted' \in Seq(Msg),
         Range(accepted') \subseteq Range(wire) \cup Range(p),
         faults = 0 => wire \o p = accepted',
         flushes + Len(p) <= budget,
         FlushOk(p, n) \/ FlushErr(p, n) \/ Keep(p, n)
  PROVE  /\ BufferTypeOK'
         /\ Range(accepted') \subseteq Range(wire') \cup Range(pending')
         /\ faults' = 0 => wire' \o pending' = accepted'
         /\ flushes' + Len(pending') <= budget
<1>1. wire \in Seq(Msg) /\ written \in Nat /\ flushes \in Nat /\ faults \in Nat
  BY DEF TypeOK
<1>2. Len(p) \in Nat /\ (p # <<>> => Len(p) > 0)
  BY EmptySeq, LenProperties
<1>3. CASE FlushOk(p, n)
  <2>1. /\ wire' = wire \o p /\ faults' = faults /\ written' = written + n
        /\ pending' = <<>> /\ pendingLen' = 0
        /\ flushes' = IF p = <<>> THEN flushes ELSE flushes + 1
    BY <1>3 DEF FlushOk, WriteOk
  <2>2. wire' \in Seq(Msg) /\ Range(wire') = Range(wire) \cup Range(p)
    BY <1>1, <2>1, ConcatFacts
  <2>3. BufferTypeOK'
    BY <1>1, <2>1, <2>2, ShortFacts DEF BufferTypeOK
  <2>4. faults' = 0 => wire' \o pending' = accepted'
    BY <1>1, <2>1, ConcatFacts
  <2>5. flushes' + Len(pending') <= budget
    BY <1>1, <1>2, <2>1, ShortFacts
  <2> QED BY <2>1, <2>2, <2>3, <2>4, <2>5
<1>4. CASE FlushErr(p, n)
  <2>1. /\ WriteErr(p) /\ pending' = p /\ pendingLen' = n
        /\ written' = written /\ flushes' = flushes
    BY <1>4 DEF FlushErr
  <2>2. /\ wire' \in Seq(Msg) /\ Range(wire) \subseteq Range(wire')
        /\ faults' \in Nat /\ faults' # 0
    BY <2>1, WriteErrFacts
  <2> QED BY <1>1, <2>1, <2>2 DEF BufferTypeOK
<1>5. CASE Keep(p, n)
  BY <1>1, <1>5 DEF Keep, BufferTypeOK
<1> QED BY <1>3, <1>4, <1>5

-----------------------------------------------------------------------------
(* Every action keeps the invariant.                                       *)

Results == {"New", "Pending", "Full", "Window", "Critical", "Ok", "Err",
            "DropOk", "DropErr"}

\* What an action has to show of the state it leaves.
Settled ==
  /\ BufferTypeOK
  /\ accepted \in Seq(Msg) /\ pushed \in Nat /\ last \in Results
  /\ direct => pending = <<>> /\ pendingLen = 0
  /\ last = "DropErr" => phase = "dead"
  /\ last \in {"Window", "Critical", "Ok"} => pending = <<>>
  /\ last # "DropErr" =>
       Range(accepted) \subseteq Range(wire) \cup Range(pending)
  /\ faults = 0 => wire \o pending = accepted
  /\ faults = 0 => pendingLen <= HardLimit

(* A call that is one step.                                                *)
LEMMA OneStepInv ==
  ASSUME IInv, call = "idle", UNCHANGED <<call, batch, serialized, direct>>,
         phase' \in {"live", "dropping", "recovered", "dead"},
         Settled', flushes' + Len(pending') <= pushed'
  PROVE  IInv'
<1>1. TypeOK /\ batch = <<>>
  BY DEF IInv, WriterInv
<1>2. TypeOK'
  BY <1>1 DEF TypeOK, Settled, BufferTypeOK, Results
<1>3. flushes' + Len(pending') + Len(batch') <= pushed'
  BY <1>1, <1>2, ShortFacts, LenProperties DEF TypeOK
<1>4. WriterInv'
  BY <1>1, <1>3
     DEF WriterInv, Settled, NothingLost, ExactlyOnceInOrder, BufferBounded
<1> QED BY <1>2, <1>4 DEF IInv

(* What a call finds when it starts.                                       *)
LEMMA ReadyFacts ==
  ASSUME IInv, phase # "dead"
  PROVE  /\ TypeOK
         /\ wire \in Seq(Msg) /\ pending \in Seq(Msg) /\ accepted \in Seq(Msg)
         /\ pendingLen \in Nat /\ pushed \in Nat /\ flushes \in Nat
         /\ written \in Nat /\ faults \in Nat /\ Len(pending) \in Nat
         /\ Range(accepted) \subseteq Range(wire) \cup Range(pending)
         /\ faults = 0 => wire \o pending = accepted
         /\ faults = 0 => pendingLen <= HardLimit
         /\ direct => pending = <<>> /\ pendingLen = 0
         /\ call = "idle" => batch = <<>>
         /\ flushes + Len(pending) <= pushed
<1>1. TypeOK /\ batch \in Seq(Msg) /\ pending \in Seq(Msg)
  BY DEF IInv, TypeOK
<1>2. Len(pending) \in Nat /\ Len(batch) \in Nat
  BY <1>1, LenProperties
<1>3. flushes + Len(pending) <= pushed
  BY <1>1, <1>2 DEF IInv, WriterInv, TypeOK
<1> QED BY <1>1, <1>2, <1>3
        DEF IInv, TypeOK, WriterInv, NothingLost, ExactlyOnceInOrder,
            BufferBounded

(* Adding messages to both the buffer and the history keeps the buffer     *)
(* what is missing on the wire.                                            *)
LEMMA ExtendFacts ==
  ASSUME IInv, phase # "dead", NEW t \in Seq(Msg), accepted' = accepted \o t
  PROVE  /\ pending \o t \in Seq(Msg) /\ Len(t) \in Nat
         /\ Len(pending \o t) = Len(pending) + Len(t)
         /\ accepted' \in Seq(Msg)
         /\ Range(accepted') \subseteq Range(wire) \cup Range(pending \o t)
         /\ faults = 0 => wire \o (pending \o t) = accepted'
<1>1. /\ wire \in Seq(Msg) /\ pending \in Seq(Msg) /\ accepted \in Seq(Msg)
      /\ Range(accepted) \subseteq Range(wire) \cup Range(pending)
      /\ faults = 0 => wire \o pending = accepted
  BY ReadyFacts
<1>2. /\ pending \o t \in Seq(Msg) /\ Len(t) \in Nat
      /\ Len(pending \o t) = Len(pending) + Len(t)
      /\ Range(pending \o t) = Range(pending) \cup Range(t)
      /\ accepted' \in Seq(Msg) /\ Range(accepted') = Range(accepted) \cup Range(t)
  BY <1>1, ConcatFacts
<1>3. wire \o (pending \o t) = (wire \o pending) \o t
  BY <1>1, ConcatAssoc
<1> QED BY <1>1, <1>2, <1>3

(* A buffered push.                                                        *)
LEMMA BufferMsgInv ==
  ASSUME IInv, Ready, ~direct, NEW m \in Msg, BufferMsg(m)
  PROVE  IInv'
<1> DEFINE p == Append(pending, m)
           n == pendingLen + m.size
<1>1. call = "idle" /\ phase = "live" /\ pending \in Seq(Msg) /\ <<m>> \in Seq(Msg)
      /\ TypeOK /\ accepted \in Seq(Msg) /\ Len(<<m>>) = 1
  BY ReadyFacts, ShortFacts DEF Ready
<1>2. /\ pushed' = pushed + 1 /\ accepted' = accepted \o <<m>>
      /\ UNCHANGED <<call, batch, serialized, direct, phase>>
      /\ \/ FlushOk(p, n) /\ last' \in {"Full", "Window"}
         \/ FlushErr(p, n) /\ last' = "Err"
         \/ Keep(p, n) /\ n < HardLimit /\ last' = "Pending"
  BY <1>1, AppendFacts DEF BufferMsg, FlushNow, control
<1>3. n \in Nat /\ pushed + 1 \in Nat /\ p = pending \o <<m>>
  BY <1>1, AppendFacts DEF TypeOK, Msg
<1>4. /\ p \in Seq(Msg) /\ accepted' \in Seq(Msg)
      /\ Range(accepted') \subseteq Range(wire) \cup Range(p)
      /\ faults = 0 => wire \o p = accepted'
  BY <1>1, <1>2, <1>3, ExtendFacts
<1>5. flushes + Len(p) <= pushed + 1
  <2>1. Len(p) = Len(pending) + 1
    BY <1>1, AppendFacts
  <2> QED BY <1>1, <2>1, ReadyFacts
<1> HIDE DEF p, n
<1>6. /\ BufferTypeOK'
      /\ Range(accepted') \subseteq Range(wire') \cup Range(pending')
      /\ faults' = 0 => wire' \o pending' = accepted'
      /\ flushes' + Len(pending') <= pushed + 1
  BY <1>1, <1>2, <1>3, <1>4, <1>5, BufferStep
<1>7. /\ faults' = 0 => pendingLen' <= HardLimit
      /\ last' = "Window" => pending' = <<>>
  <2>1. /\ FlushOk(p, n) => pending' = <<>> /\ pendingLen' = 0
        /\ FlushErr(p, n) => faults' # 0
        /\ Keep(p, n) => pendingLen' = n
    BY <1>1, <1>3, <1>4, FlushFacts
  <2> QED BY <1>2, <1>3, <2>1, LimitAssumption
<1>8. Settled'
  BY <1>2, <1>3, <1>4, <1>6, <1>7 DEF Settled, Results
<1> QED BY <1>1, <1>2, <1>6, <1>8, OneStepInv

(* A batch that fits under the limit.                                      *)
LEMMA BatchFitsInv ==
  ASSUME IInv, Ready, NEW k \in Nat, Frames(k) \in Seq(Msg),
         Len(Frames(k)) = k, BatchFits(k)
  PROVE  IInv'
<1> DEFINE p == pending \o Frames(k)
           n == pendingLen + k * GamepadBytes
<1>1. call = "idle" /\ phase = "live" /\ pending \in Seq(Msg) /\ TypeOK
      /\ ~direct
  BY ReadyFacts DEF Ready, BatchFits
<1>2. /\ pushed' = pushed + k /\ accepted' = accepted \o Frames(k)
      /\ UNCHANGED <<call, batch, serialized, direct, phase>>
      /\ n <= HardLimit
      /\ \/ FlushOk(p, n) /\ last' = "Window"
         \/ FlushErr(p, n) /\ last' = "Err"
         \/ Keep(p, n) /\ last' = "Pending"
  BY DEF BatchFits, FlushNow, control
<1>3. n \in Nat /\ pushed + k \in Nat
  <2>1. k * GamepadBytes \in Nat
    BY SizeAssumption
  <2> QED BY <1>1, <2>1 DEF TypeOK
<1>4. /\ p \in Seq(Msg) /\ accepted' \in Seq(Msg)
      /\ Range(accepted') \subseteq Range(wire) \cup Range(p)
      /\ faults = 0 => wire \o p = accepted'
      /\ Len(p) = Len(pending) + k
  BY <1>1, <1>2, ExtendFacts
<1>5. flushes + Len(p) <= pushed + k
  BY <1>1, <1>4, ReadyFacts, SMTT(30)
<1> HIDE DEF p, n
<1>6. /\ BufferTypeOK'
      /\ Range(accepted') \subseteq Range(wire') \cup Range(pending')
      /\ faults' = 0 => wire' \o pending' = accepted'
      /\ flushes' + Len(pending') <= pushed + k
  BY <1>1, <1>2, <1>3, <1>4, <1>5, BufferStep
<1>7. /\ faults' = 0 => pendingLen' <= HardLimit
      /\ last' = "Window" => pending' = <<>>
  BY <1>1, <1>2, <1>3, <1>4, LimitAssumption, FlushFacts
<1>8. Settled'
  BY <1>1, <1>2, <1>3, <1>4, <1>6, <1>7 DEF Settled, Results
<1> QED BY <1>1, <1>2, <1>6, <1>8, OneStepInv

(* A critical push: the buffer is flushed first, then the message goes out *)
(* by itself.                                                              *)
LEMMA CriticalMsgInv ==
  ASSUME IInv, Ready, ~direct, NEW m \in Msg, CriticalMsg(m)
  PROVE  IInv'
<1> DEFINE p == Append(pending, m)
<1>1. /\ call = "idle" /\ phase = "live" /\ TypeOK
      /\ wire \in Seq(Msg) /\ pending \in Seq(Msg) /\ accepted \in Seq(Msg)
      /\ pendingLen \in Nat /\ pushed \in Nat /\ flushes \in Nat
      /\ written \in Nat /\ faults \in Nat /\ Len(pending) \in Nat
      /\ m.size \in Nat /\ HardLimit \in Nat
      /\ Range(accepted) \subseteq Range(wire) \cup Range(pending)
      /\ faults = 0 => wire \o pending = accepted
      /\ flushes + Len(pending) <= pushed
  BY ReadyFacts, LimitAssumption DEF Ready, Msg
<1>2. /\ pushed' = pushed + 1 /\ UNCHANGED <<call, batch, serialized, direct, phase>>
      /\ pushed' \in Nat
  BY <1>1 DEF CriticalMsg, control
<1>3. CASE FlushErr(pending, pendingLen) /\ last' = "Err" /\ accepted' = accepted
  <2>1. /\ BufferTypeOK'
        /\ Range(accepted') \subseteq Range(wire') \cup Range(pending')
        /\ faults' = 0 => wire' \o pending' = accepted'
        /\ flushes' + Len(pending') <= pushed
    BY <1>1, <1>3, BufferStep
  <2>2. faults' # 0
    BY <1>1, <1>3, FlushFacts
  <2>3. Settled'
    BY <1>1, <1>2, <1>3, <2>1, <2>2 DEF Settled, Results
  <2>4. flushes' + Len(pending') <= pushed'
    BY <1>1, <1>2, <2>1, LenProperties, SMTT(30) DEF BufferTypeOK
  <2> QED BY <1>1, <1>2, <2>3, <2>4, OneStepInv
<1>4. ASSUME pending' = <<>>, pendingLen' = 0, written' \in Nat,
             flushes' \in Nat, flushes' <= flushes + Len(pending) + 1,
             wire' \in Seq(Msg), accepted' \in Seq(Msg), faults' \in Nat,
             Range(accepted') \subseteq Range(wire'),
             faults' = 0 => wire' = accepted', last' \in {"Critical", "Err"}
      PROVE  IInv'
  <2>1. BufferTypeOK'
    BY <1>4, ShortFacts DEF BufferTypeOK
  <2>2. wire' \o pending' = wire'
    BY <1>4, ConcatEmptySeq
  <2>3. Settled'
    BY <1>1, <1>2, <1>4, <2>1, <2>2 DEF Settled, Results
  <2>4. flushes' + Len(pending') <= pushed'
    <3>1. flushes' <= pushed'
      BY ONLY <1>1, <1>2, <1>4
    <3>2. Len(pending') = 0
      BY <1>4, ShortFacts
    <3> QED BY <1>4, <3>1, <3>2
  <2> QED BY <1>1, <1>2, <2>3, <2>4, OneStepInv
<1>5. /\ p \in Seq(Msg) /\ p = pending \o <<m>> /\ <<m>> \in Seq(Msg)
      /\ Append(accepted, m) = accepted \o <<m>>
      /\ wire \o p \in Seq(Msg) /\ wire \o pending \in Seq(Msg)
      /\ Range(wire \o p) = Range(wire) \cup Range(p)
      /\ Range(wire \o pending) = Range(wire) \cup Range(pending)
      /\ Range(p) = Range(pending) \cup {m}
  BY <1>1, AppendFacts, ShortFacts, ConcatFacts
<1>6. pending = <<>> \/ Len(pending) > 0
  BY <1>1, EmptySeq
<1>7. CASE /\ WriteOk(p) /\ pending' = <<>> /\ pendingLen' = 0
           /\ written' = written + pendingLen + m.size
           /\ flushes' = flushes + (IF pending = <<>> THEN 0 ELSE 1) + 1
           /\ accepted' = Append(accepted, m) /\ last' = "Critical"
  <2>1. wire' = wire \o p /\ faults' = faults
    BY <1>7 DEF WriteOk
  <2>2. /\ accepted' \in Seq(Msg)
        /\ Range(accepted') \subseteq Range(wire) \cup Range(p)
        /\ faults = 0 => wire \o p = accepted'
    BY <1>1, <1>5, <1>7, ExtendFacts
  <2>3. written' \in Nat /\ flushes' \in Nat /\ flushes' <= flushes + Len(pending) + 1
    BY <1>1, <1>6, <1>7
  <2> HIDE DEF p
  <2> QED BY <1>1, <1>4, <1>5, <1>7, <2>1, <2>2, <2>3
<1>8. CASE /\ faults' = faults + 1
           /\ \E k \in {0, 1} : Lands(p, Len(pending) + k)
           /\ pending' = <<>> /\ pendingLen' = 0
           /\ written' = written + pendingLen
           /\ flushes' = flushes + (IF pending = <<>> THEN 0 ELSE 1)
           /\ last' = "Err" /\ accepted' = accepted
  <2>1. wire' = wire \o pending \/ wire' = wire \o p
    <3>1. PICK k \in {0, 1} : wire' = wire \o SubSeq(p, 1, Len(pending) + k)
      BY <1>8 DEF Lands
    <3>2. Len(pending) + 0 = Len(pending)
      BY <1>1
    <3> QED BY <1>1, <3>1, <3>2, AppendPrefix
  <2>2. wire' \in Seq(Msg) /\ Range(accepted') \subseteq Range(wire')
    BY <1>1, <1>5, <1>8, <2>1
  <2>3. /\ written' \in Nat /\ flushes' \in Nat
        /\ flushes' <= flushes + Len(pending) + 1
        /\ faults' \in Nat /\ faults' # 0
    BY <1>1, <1>6, <1>8
  <2> HIDE DEF p
  <2> QED BY <1>1, <1>4, <1>8, <2>2, <2>3
<1> QED BY <1>3, <1>7, <1>8 DEF CriticalMsg

(* A direct push: the buffer stays empty.                                  *)
LEMMA DirectMsgInv ==
  ASSUME IInv, Ready, direct, NEW m \in Msg, DirectMsg(m)
  PROVE  IInv'
<1>1. /\ call = "idle" /\ phase = "live" /\ TypeOK
      /\ wire \in Seq(Msg) /\ accepted \in Seq(Msg)
      /\ pending = <<>> /\ pendingLen = 0
      /\ pushed \in Nat /\ flushes \in Nat
      /\ written \in Nat /\ faults \in Nat
      /\ m.size \in Nat /\ HardLimit \in Nat
      /\ Range(accepted) \subseteq Range(wire) \cup Range(pending)
      /\ faults = 0 => wire \o pending = accepted
      /\ flushes + Len(pending) <= pushed
  BY ReadyFacts, LimitAssumption DEF Ready, Msg
<1>2. /\ <<m>> \in Seq(Msg) /\ wire \o pending = wire
      /\ Range(wire) \cup Range(pending) = Range(wire)
      /\ Len(pending) = 0 /\ pending \in Seq(Msg)
  BY <1>1, ShortFacts, ConcatEmptySeq
<1>3. /\ pushed' = pushed + 1 /\ pushed' \in Nat
      /\ UNCHANGED <<call, batch, serialized, direct, phase, pending, pendingLen>>
  BY <1>1 DEF DirectMsg, control
<1>4. ASSUME written' \in Nat, flushes' \in Nat, flushes' <= flushes + 1,
             wire' \in Seq(Msg), accepted' \in Seq(Msg), faults' \in Nat,
             Range(accepted') \subseteq Range(wire'),
             faults' = 0 => wire' = accepted',
             last' \in {"Critical", "Window", "Err"}
      PROVE  IInv'
  <2>1. BufferTypeOK'
    BY <1>1, <1>2, <1>3, <1>4 DEF BufferTypeOK
  <2>2. wire' \o pending' = wire'
    BY <1>1, <1>3, <1>4, ConcatEmptySeq
  <2>3. Settled'
    BY <1>1, <1>2, <1>3, <1>4, <2>1, <2>2 DEF Settled, Results
  <2>4. flushes' + Len(pending') <= pushed'
    <3>1. flushes <= pushed
      BY <1>1, <1>2
    <3>2. flushes' <= pushed'
      BY ONLY <1>1, <1>3, <1>4, <3>1
    <3>3. Len(pending') = 0
      BY <1>2, <1>3
    <3> QED BY <1>4, <3>2, <3>3
  <2> QED BY <1>1, <1>3, <2>3, <2>4, OneStepInv
<1>5. CASE /\ WriteOk(<<m>>) /\ written' = written + m.size
           /\ flushes' = flushes + 1 /\ accepted' = Append(accepted, m)
           /\ last' = IF m.critical THEN "Critical" ELSE "Window"
  <2>1. wire' = wire \o <<m>> /\ faults' = faults
    BY <1>5 DEF WriteOk
  <2>2. accepted' = accepted \o <<m>>
    BY <1>1, <1>5, AppendFacts
  <2>3. /\ wire' \in Seq(Msg) /\ Range(wire') = Range(wire) \cup Range(<<m>>)
        /\ accepted' \in Seq(Msg)
        /\ Range(accepted') = Range(accepted) \cup Range(<<m>>)
    BY <1>1, <1>2, <2>1, <2>2, ConcatFacts
  <2>4. faults' = 0 => wire' = accepted'
    BY <1>1, <1>2, <2>1, <2>2
  <2>5. last' \in {"Critical", "Window", "Err"}
    BY <1>5
  <2>6. written' \in Nat /\ flushes' \in Nat /\ flushes' <= flushes + 1
    BY <1>1, <1>5
  <2> QED BY <1>1, <1>2, <1>4, <2>1, <2>3, <2>4, <2>5, <2>6
<1>6. CASE WriteErr(<<m>>) /\ last' = "Err" /\ UNCHANGED <<written, flushes, accepted>>
  <2>1. /\ wire' \in Seq(Msg) /\ Range(wire) \subseteq Range(wire')
        /\ faults' \in Nat /\ faults' # 0
    BY <1>1, <1>2, <1>6, WriteErrFacts
  <2>2. flushes' <= flushes + 1
    BY <1>1, <1>6
  <2> QED BY <1>1, <1>2, <1>4, <1>6, <2>1, <2>2
<1> QED BY <1>5, <1>6 DEF DirectMsg

(* A message that does not serialize: at most the buffer is flushed.       *)
LEMMA RejectedPushInv ==
  ASSUME IInv, Ready, NEW c \in BOOLEAN, RejectedPush(c)
  PROVE  IInv'
<1>1. /\ call = "idle" /\ phase = "live" /\ TypeOK
      /\ wire \in Seq(Msg) /\ pending \in Seq(Msg) /\ accepted \in Seq(Msg)
      /\ pendingLen \in Nat /\ pushed \in Nat /\ flushes \in Nat
      /\ written \in Nat /\ faults \in Nat /\ HardLimit \in Nat
      /\ Range(accepted) \subseteq Range(wire) \cup Range(pending)
      /\ faults = 0 => wire \o pending = accepted
      /\ faults = 0 => pendingLen <= HardLimit
      /\ direct => pending = <<>> /\ pendingLen = 0
      /\ flushes + Len(pending) <= pushed
  BY ReadyFacts, LimitAssumption DEF Ready
<1>2. /\ pushed' = pushed + 1 /\ pushed' \in Nat /\ accepted' = accepted
      /\ UNCHANGED <<call, batch, serialized, direct, phase>> /\ last' = "Err"
      /\ \/ ~direct /\ FlushOk(pending, pendingLen)
         \/ ~direct /\ FlushErr(pending, pendingLen)
         \/ Keep(pending, pendingLen)
  BY <1>1 DEF RejectedPush, Keep, control
<1>3. /\ BufferTypeOK'
      /\ Range(accepted') \subseteq Range(wire') \cup Range(pending')
      /\ faults' = 0 => wire' \o pending' = accepted'
      /\ flushes' + Len(pending') <= pushed
  BY <1>1, <1>2, BufferStep
<1>4. /\ direct => pending' = <<>> /\ pendingLen' = 0
      /\ faults' = 0 => pendingLen' <= HardLimit
  BY <1>1, <1>2, FlushFacts
<1>5. Settled'
  BY <1>1, <1>2, <1>3, <1>4 DEF Settled, Results
<1>6. flushes' + Len(pending') <= pushed'
  BY <1>1, <1>2, <1>3, LenProperties DEF BufferTypeOK
<1> QED BY <1>1, <1>2, <1>5, <1>6, OneStepInv

-----------------------------------------------------------------------------
(* The batch loops.                                                        *)

\* What a step of a loop has to show of the control state it leaves.
LoopOK ==
  /\ batch \in Seq(Msg) /\ serialized \in Nat /\ phase = "live"
  /\ direct \in BOOLEAN
  /\ call \in {"idle", "frames", "chunks"}
  /\ call = "idle" => batch = <<>>
  /\ call = "frames" => ~direct /\ last \in {"Pending", "Full"}
  /\ call = "chunks" => direct /\ last = "Pending" /\ flushes < pushed
  /\ flushes + Len(pending) + Len(batch) <= pushed

(* A step of a loop.                                                       *)
LEMMA LoopInv ==
  ASSUME Settled', LoopOK'
  PROVE  IInv'
<1>1. TypeOK'
  BY DEF TypeOK, Settled, BufferTypeOK, LoopOK, Results
<1>2. WriterInv'
  BY DEF WriterInv, Settled, LoopOK, NothingLost, ExactlyOnceInOrder,
         BufferBounded
<1> QED BY <1>1, <1>2 DEF IInv

(* Entering a loop.                                                        *)
LEMMA BatchBeginInv ==
  ASSUME IInv, Ready, NEW k \in Nat \ {0}, BatchBegin(k)
  PROVE  IInv'
<1>1. /\ phase = "live" /\ TypeOK /\ direct \in BOOLEAN
      /\ wire \in Seq(Msg) /\ pending \in Seq(Msg) /\ accepted \in Seq(Msg)
      /\ pendingLen \in Nat /\ pushed \in Nat /\ flushes \in Nat
      /\ written \in Nat /\ faults \in Nat /\ Len(pending) \in Nat
      /\ Range(accepted) \subseteq Range(wire) \cup Range(pending)
      /\ faults = 0 => wire \o pending = accepted
      /\ faults = 0 => pendingLen <= HardLimit
      /\ direct => pending = <<>> /\ pendingLen = 0
      /\ flushes + Len(pending) <= pushed
  BY ReadyFacts DEF Ready, TypeOK
<1>2. /\ pushed' = pushed + k /\ call' = IF direct THEN "chunks" ELSE "frames"
      /\ batch' = Frames(k) /\ serialized' = 0 /\ last' = "Pending"
      /\ UNCHANGED <<wire, pending, pendingLen, written, flushes, faults,
                     accepted, direct, phase>>
  BY DEF BatchBegin
<1>3. batch' \in Seq(Msg) /\ Len(batch') = k
  BY <1>1, <1>2, FramesFacts
<1>4. pushed' \in Nat /\ flushes' < pushed' /\ flushes' + Len(pending') + k <= pushed'
  BY <1>1, <1>2
<1>5. Settled'
  BY <1>1, <1>2, <1>4 DEF Settled, BufferTypeOK, Results
<1>6. LoopOK'
  <2>1. call' \in {"frames", "chunks"} /\ (call' = "chunks" => direct)
        /\ (call' = "frames" => ~direct)
    BY <1>2
  <2>2. flushes' + Len(pending') + Len(batch') <= pushed'
    BY <1>3, <1>4
  <2> QED BY <1>1, <1>2, <1>3, <1>4, <2>1, <2>2 DEF LoopOK
<1> QED BY <1>5, <1>6, LoopInv

(* What a loop finds at its next step.                                     *)
LEMMA LoopFacts ==
  ASSUME IInv, call # "idle"
  PROVE  /\ phase = "live" /\ TypeOK /\ direct \in BOOLEAN
         /\ wire \in Seq(Msg) /\ pending \in Seq(Msg) /\ accepted \in Seq(Msg)
         /\ batch \in Seq(Msg) /\ Len(batch) \in Nat /\ Len(pending) \in Nat
         /\ pendingLen \in Nat /\ pushed \in Nat /\ flushes \in Nat
         /\ written \in Nat /\ faults \in Nat /\ serialized \in Nat
         /\ HardLimit \in Nat /\ GamepadBytes \in Nat
         /\ Range(accepted) \subseteq Range(wire) \cup Range(pending)
         /\ faults = 0 => wire \o pending = accepted
         /\ faults = 0 => pendingLen <= HardLimit
         /\ direct => pending = <<>> /\ pendingLen = 0
         /\ call = "frames" => ~direct /\ last \in {"Pending", "Full"}
         /\ call = "chunks" => direct /\ last = "Pending" /\ flushes < pushed
         /\ flushes + Len(pending) + Len(batch) <= pushed
<1>1. /\ phase = "live" /\ TypeOK /\ direct \in BOOLEAN
      /\ batch \in Seq(Msg) /\ serialized \in Nat
  BY DEF IInv, TypeOK, WriterInv
<1>2. Len(batch) \in Nat
  BY <1>1, LenProperties
<1>3. /\ call = "frames" => ~direct /\ last \in {"Pending", "Full"}
      /\ call = "chunks" => direct /\ last = "Pending" /\ flushes < pushed
      /\ flushes + Len(pending) + Len(batch) <= pushed
  BY DEF IInv, WriterInv
<1> QED BY <1>1, <1>2, <1>3, ReadyFacts, LimitAssumption, SizeAssumption

(* One frame of a coalescing batch.                                        *)
LEMMA BatchFrameInv ==
  ASSUME IInv, BatchFrame
  PROVE  IInv'
<1> DEFINE m == Head(batch)
           p == Append(pending, m)
           n == pendingLen + GamepadBytes
           budget == pushed - Len(batch) + 1
<1>1. call = "frames" /\ batch # <<>>
  BY DEF BatchFrame
<1>2. /\ phase = "live" /\ TypeOK /\ direct \in BOOLEAN /\ ~direct /\ last \in {"Pending", "Full"}
      /\ wire \in Seq(Msg) /\ pending \in Seq(Msg) /\ accepted \in Seq(Msg)
      /\ batch \in Seq(Msg) /\ Len(batch) \in Nat /\ Len(pending) \in Nat
      /\ pendingLen \in Nat /\ pushed \in Nat /\ flushes \in Nat
      /\ serialized \in Nat /\ HardLimit \in Nat /\ GamepadBytes \in Nat
      /\ flushes + Len(pending) + Len(batch) <= pushed
  BY <1>1, LoopFacts
<1>3. /\ m \in Msg /\ Tail(batch) \in Seq(Msg)
      /\ Len(Tail(batch)) = Len(batch) - 1 /\ Len(batch) \in Nat \ {0}
  BY <1>1, <1>2, HeadTailProperties, EmptySeq
<1>4. /\ accepted' = Append(accepted, m) /\ pushed' = pushed /\ UNCHANGED <<direct, phase>>
      /\ \/ /\ FlushOk(p, n) /\ last' = "Full"
            /\ batch' = Tail(batch) /\ UNCHANGED <<call, serialized>>
         \/ /\ FlushErr(p, n) /\ last' = "Err"
            /\ call' = "idle" /\ batch' = <<>> /\ serialized' = 0
         \/ /\ n < HardLimit /\ Keep(p, n) /\ batch' = Tail(batch)
            /\ UNCHANGED <<call, serialized, last>>
  BY DEF BatchFrame, BatchReturn
<1>5. /\ p = pending \o <<m>> /\ accepted' = accepted \o <<m>>
      /\ <<m>> \in Seq(Msg) /\ Len(p) = Len(pending) + 1
  BY <1>2, <1>3, <1>4, AppendFacts, ShortFacts
<1>6. /\ p \in Seq(Msg) /\ accepted' \in Seq(Msg)
      /\ Range(accepted') \subseteq Range(wire) \cup Range(p)
      /\ faults = 0 => wire \o p = accepted'
  BY <1>2, <1>5, ExtendFacts
<1>7. n \in Nat /\ budget \in Nat /\ flushes + Len(p) <= budget
  BY <1>2, <1>3, <1>5
<1> HIDE DEF m, p, n
<1>8. /\ BufferTypeOK'
      /\ Range(accepted') \subseteq Range(wire') \cup Range(pending')
      /\ faults' = 0 => wire' \o pending' = accepted'
      /\ flushes' + Len(pending') <= budget
  <2> HIDE DEF budget
  <2> QED BY <1>2, <1>4, <1>6, <1>7, BufferStep
<1>9. /\ faults' = 0 => pendingLen' <= HardLimit
      /\ last' \in {"Pending", "Full", "Err"}
  <2>1. /\ FlushOk(p, n) => pendingLen' = 0
        /\ FlushErr(p, n) => faults' # 0
        /\ Keep(p, n) => pendingLen' = n
    BY <1>2, <1>6, <1>7, FlushFacts
  <2> QED BY <1>2, <1>4, <1>7, <2>1
<1>10. Settled'
  BY <1>2, <1>4, <1>6, <1>8, <1>9 DEF Settled, Results
<1>11. LoopOK'
  <2>1. Len(pending') \in Nat /\ flushes' \in Nat
    BY <1>8, LenProperties DEF BufferTypeOK
  <2>2. CASE batch' = Tail(batch) /\ UNCHANGED <<call, serialized>>
             /\ last' \in {"Pending", "Full"}
    <3>1. flushes' + Len(pending') + Len(batch') <= pushed'
      BY <1>2, <1>3, <1>4, <1>8, <2>1, <2>2
    <3> QED BY <1>1, <1>2, <1>3, <1>4, <2>2, <3>1 DEF LoopOK
  <2>3. CASE call' = "idle" /\ batch' = <<>> /\ serialized' = 0
    <3>1. Len(batch') = 0 /\ batch' \in Seq(Msg)
      BY <2>3, ShortFacts
    <3>2. flushes' + Len(pending') + Len(batch') <= pushed'
      BY <1>2, <1>3, <1>4, <1>8, <2>1, <3>1
    <3> QED BY <1>2, <1>4, <2>3, <3>1, <3>2 DEF LoopOK
  <2> QED BY <1>2, <1>4, <2>2, <2>3
<1> QED BY <1>10, <1>11, LoopInv

(* The end of a coalescing batch.                                          *)
LEMMA BatchEndInv ==
  ASSUME IInv, BatchEnd
  PROVE  IInv'
<1>1. call = "frames"
  BY DEF BatchEnd
<1>2. /\ phase = "live" /\ TypeOK /\ direct \in BOOLEAN /\ ~direct /\ last \in {"Pending", "Full"}
      /\ pending \in Seq(Msg) /\ accepted \in Seq(Msg)
      /\ batch \in Seq(Msg) /\ Len(batch) \in Nat /\ Len(pending) \in Nat
      /\ pendingLen \in Nat /\ pushed \in Nat /\ flushes \in Nat
      /\ HardLimit \in Nat
      /\ Range(accepted) \subseteq Range(wire) \cup Range(pending)
      /\ faults = 0 => wire \o pending = accepted
      /\ faults = 0 => pendingLen <= HardLimit
      /\ flushes + Len(pending) + Len(batch) <= pushed
  BY <1>1, LoopFacts
<1>3. /\ accepted' = accepted /\ pushed' = pushed /\ UNCHANGED <<direct, phase>>
      /\ call' = "idle" /\ batch' = <<>> /\ serialized' = 0
      /\ \/ FlushOk(pending, pendingLen) /\ last' = "Window"
         \/ FlushErr(pending, pendingLen) /\ last' = "Err"
         \/ Keep(pending, pendingLen) /\ last' = last
  BY DEF BatchEnd, FlushNow, BatchReturn
<1>4. flushes + Len(pending) <= pushed
  BY <1>2
<1>5. /\ BufferTypeOK'
      /\ Range(accepted') \subseteq Range(wire') \cup Range(pending')
      /\ faults' = 0 => wire' \o pending' = accepted'
      /\ flushes' + Len(pending') <= pushed
  BY <1>2, <1>3, <1>4, BufferStep
<1>6. /\ faults' = 0 => pendingLen' <= HardLimit
      /\ last' = "Window" => pending' = <<>>
      /\ last' \in {"Pending", "Full", "Window", "Err"}
  BY <1>2, <1>3, FlushFacts
<1>7. Settled'
  BY <1>2, <1>3, <1>5, <1>6 DEF Settled, Results
<1>8. batch' \in Seq(Msg) /\ Len(batch') = 0
  BY <1>3, ShortFacts
<1>9. flushes' + Len(pending') + Len(batch') <= pushed'
  <2>1. Len(pending') \in Nat /\ flushes' \in Nat
    BY <1>5, LenProperties DEF BufferTypeOK
  <2> QED BY <1>2, <1>3, <1>5, <1>8, <2>1
<1>10. LoopOK'
  BY <1>2, <1>3, <1>8, <1>9 DEF LoopOK
<1> QED BY <1>7, <1>10, LoopInv

(* One chunk of a direct batch.                                            *)
LEMMA BatchChunkInv ==
  ASSUME IInv, BatchChunk
  PROVE  IInv'
<1>1. call = "chunks" /\ batch # <<>>
  BY DEF BatchChunk
<1>2. /\ phase = "live" /\ TypeOK /\ direct \in BOOLEAN /\ direct /\ last = "Pending"
      /\ wire \in Seq(Msg) /\ pending = <<>> /\ accepted \in Seq(Msg)
      /\ batch \in Seq(Msg) /\ Len(batch) \in Nat
      /\ pendingLen = 0 /\ pushed \in Nat /\ flushes \in Nat
      /\ written \in Nat /\ faults \in Nat
      /\ serialized \in Nat /\ HardLimit \in Nat /\ GamepadBytes \in Nat
      /\ Range(accepted) \subseteq Range(wire) \cup Range(pending)
      /\ faults = 0 => wire \o pending = accepted
      /\ flushes + Len(pending) + Len(batch) <= pushed
      /\ flushes < pushed
  BY <1>1, LoopFacts
<1>3. /\ pending \in Seq(Msg) /\ Len(pending) = 0
      /\ wire \o pending = wire /\ Range(wire) \cup Range(pending) = Range(wire)
  BY <1>2, ShortFacts, ConcatEmptySeq
<1>4. PICK k \in 1..Len(batch) : Chunk = SubSeq(batch, 1, k)
  <2>1. Len(batch) > 0
    BY <1>1, <1>2, EmptySeq
  <2> QED BY <1>2, <2>1, SizeAssumption DEF Chunk
<1>5. /\ Chunk \in Seq(Msg) /\ Len(Chunk) = k
      /\ SubSeq(batch, k + 1, Len(batch)) \in Seq(Msg)
      /\ Len(SubSeq(batch, k + 1, Len(batch))) = Len(batch) - k
  BY <1>2, <1>4, SplitFacts
<1>6. UNCHANGED <<pending, pendingLen, pushed, written, flushes, direct, phase>>
  BY DEF BatchChunk, counters
<1>7. ASSUME wire' \in Seq(Msg), accepted' \in Seq(Msg), faults' \in Nat,
             Range(accepted') \subseteq Range(wire'),
             faults' = 0 => wire' = accepted', last' \in {"Pending", "Err"}
      PROVE  Settled'
  <2>1. wire' \o pending' = wire'
    BY <1>2, <1>6, <1>7, ConcatEmptySeq
  <2>2. BufferTypeOK'
    BY <1>2, <1>3, <1>6, <1>7 DEF BufferTypeOK
  <2> QED BY <1>2, <1>3, <1>6, <1>7, <2>1, <2>2 DEF Settled, Results
<1>8. CASE /\ WriteOk(Chunk) /\ accepted' = accepted \o Chunk
           /\ batch' = SubSeq(batch, Len(Chunk) + 1, Len(batch))
           /\ serialized' = serialized + Len(Chunk) * GamepadBytes
           /\ UNCHANGED <<call, last>>
  <2>1. wire' = wire \o Chunk /\ faults' = faults
    BY <1>8 DEF WriteOk
  <2>2. /\ wire' \in Seq(Msg) /\ Range(wire') = Range(wire) \cup Range(Chunk)
        /\ accepted' \in Seq(Msg)
        /\ Range(accepted') = Range(accepted) \cup Range(Chunk)
    BY <1>2, <1>5, <1>8, <2>1, ConcatFacts
  <2>3. Settled'
    BY <1>2, <1>3, <1>7, <1>8, <2>1, <2>2
  <2>4. batch' \in Seq(Msg) /\ Len(batch') = Len(batch) - k
    BY <1>5, <1>8
  <2>5. serialized' \in Nat
    <3>1. k * GamepadBytes \in Nat
      BY <1>2
    <3>2. serialized' = serialized + k * GamepadBytes
      BY ONLY <1>5, <1>8
    <3> QED BY <1>2, <3>1, <3>2
  <2>6. flushes' + Len(pending') + Len(batch') <= pushed' /\ flushes' < pushed'
    <3>1. flushes + 0 + Len(batch) <= pushed
      BY <1>2, <1>3
    <3>2. Len(pending') = 0
      BY <1>3, <1>6
    <3> QED BY <1>2, <1>6, <2>4, <3>1, <3>2
  <2>7. LoopOK'
    BY <1>1, <1>2, <1>6, <1>8, <2>4, <2>5, <2>6 DEF LoopOK
  <2> QED BY <2>3, <2>7, LoopInv
<1>9. CASE WriteErr(Chunk) /\ last' = "Err" /\ BatchReturn /\ UNCHANGED accepted
  <2>1. /\ wire' \in Seq(Msg) /\ Range(wire) \subseteq Range(wire')
        /\ faults' \in Nat /\ faults' # 0
    BY <1>2, <1>5, <1>9, WriteErrFacts
  <2>2. Settled'
    BY <1>2, <1>3, <1>7, <1>9, <2>1
  <2>3. call' = "idle" /\ batch' = <<>> /\ serialized' = 0
    BY <1>9 DEF BatchReturn
  <2>4. batch' \in Seq(Msg) /\ Len(batch') = 0 /\ Len(pending') = 0
    BY <1>3, <1>6, <2>3, ShortFacts
  <2>5. flushes' + Len(pending') + Len(batch') <= pushed'
    BY <1>2, <1>6, <2>4
  <2>6. LoopOK'
    BY <1>2, <1>6, <2>3, <2>4, <2>5 DEF LoopOK
  <2> QED BY <2>2, <2>6, LoopInv
<1> QED BY <1>8, <1>9 DEF BatchChunk

(* The end of a direct batch.                                              *)
LEMMA ChunksEndInv ==
  ASSUME IInv, ChunksEnd
  PROVE  IInv'
<1>1. call = "chunks"
  BY DEF ChunksEnd
<1>2. /\ phase = "live" /\ TypeOK /\ direct \in BOOLEAN /\ direct
      /\ wire \in Seq(Msg) /\ pending = <<>> /\ accepted \in Seq(Msg)
      /\ pendingLen = 0 /\ pushed \in Nat /\ flushes \in Nat
      /\ written \in Nat /\ faults \in Nat /\ serialized \in Nat
      /\ HardLimit \in Nat
      /\ Range(accepted) \subseteq Range(wire) \cup Range(pending)
      /\ faults = 0 => wire \o pending = accepted
      /\ flushes < pushed
  BY <1>1, LoopFacts
<1>3. pending \in Seq(Msg) /\ Len(pending) = 0
  BY <1>2, ShortFacts
<1>4. /\ UNCHANGED <<wire, pending, pendingLen, pushed, direct, phase, accepted>>
      /\ call' = "idle" /\ batch' = <<>> /\ serialized' = 0
      /\ written' \in Nat /\ flushes' \in Nat /\ flushes' <= pushed
      /\ faults' \in Nat /\ (faults' = 0 => faults = 0)
      /\ last' \in {"Window", "Err"}
  BY <1>2 DEF ChunksEnd, BatchReturn
<1>5. Settled'
  BY <1>2, <1>3, <1>4 DEF Settled, BufferTypeOK, Results
<1>6. batch' \in Seq(Msg) /\ Len(batch') = 0 /\ Len(pending') = 0
  BY <1>3, <1>4, ShortFacts
<1>7. flushes' + Len(pending') + Len(batch') <= pushed'
  <2>1. flushes' <= pushed'
    BY <1>4
  <2> QED BY <1>4, <1>6, <2>1
<1>8. LoopOK'
  BY <1>2, <1>4, <1>6, <1>7 DEF LoopOK
<1> QED BY <1>5, <1>8, LoopInv

-----------------------------------------------------------------------------
(* Flush, recovery and drop.                                               *)

(* flush_now, into_inner and the drop that finds a working transport.      *)
LEMMA FlushInv ==
  ASSUME IInv, call = "idle", phase # "dead",
         UNCHANGED <<pushed, accepted, call, batch, serialized, direct>>,
         phase' \in {"live", "dropping", "recovered", "dead"},
         \/ FlushOk(pending, pendingLen) /\ last' \in {"Ok", "DropOk"}
         \/ FlushErr(pending, pendingLen) /\ last' = "Err"
  PROVE  IInv'
<1>1. /\ TypeOK /\ pending \in Seq(Msg) /\ accepted \in Seq(Msg)
      /\ pendingLen \in Nat /\ pushed \in Nat /\ HardLimit \in Nat
      /\ Range(accepted) \subseteq Range(wire) \cup Range(pending)
      /\ faults = 0 => wire \o pending = accepted
      /\ direct => pending = <<>> /\ pendingLen = 0
      /\ flushes + Len(pending) <= pushed
  BY ReadyFacts, LimitAssumption
<1>2. /\ BufferTypeOK'
      /\ Range(accepted') \subseteq Range(wire') \cup Range(pending')
      /\ faults' = 0 => wire' \o pending' = accepted'
      /\ flushes' + Len(pending') <= pushed
  BY <1>1, BufferStep
<1>3. /\ faults' = 0 => pendingLen' <= HardLimit
      /\ last' # "Err" => pending' = <<>>
      /\ direct => pending' = <<>> /\ pendingLen' = 0
  BY <1>1, FlushFacts
<1>4. Settled'
  BY <1>1, <1>2, <1>3 DEF Settled, Results
<1> QED BY <1>2, <1>4, OneStepInv

(* Drop: the buffer may be lost, and the result says so.                   *)
LEMMA DropWriterInv ==
  ASSUME IInv, call = "idle", phase # "dead", DropWriter
  PROVE  IInv'
<1>1. /\ UNCHANGED <<pushed, accepted, call, batch, serialized, direct>>
      /\ phase' = "dead"
  BY DEF DropWriter
<1>2. CASE FlushOk(pending, pendingLen) /\ last' = "DropOk"
  BY <1>1, <1>2, FlushInv
<1>3. CASE /\ WriteErr(pending) /\ pending' = <<>> /\ pendingLen' = 0
           /\ last' = "DropErr" /\ UNCHANGED <<written, flushes>>
  <2>1. /\ TypeOK /\ pending \in Seq(Msg) /\ accepted \in Seq(Msg)
        /\ pushed \in Nat /\ flushes \in Nat /\ written \in Nat
        /\ Len(pending) \in Nat /\ flushes + Len(pending) <= pushed
    BY ReadyFacts
  <2>2. wire' \in Seq(Msg) /\ faults' \in Nat /\ faults' # 0
    BY <1>3, <2>1, WriteErrFacts
  <2>3. pending' \in Seq(Msg) /\ Len(pending') = 0
    BY <1>3, ShortFacts
  <2>4. Settled'
    BY <1>1, <1>3, <2>1, <2>2, <2>3 DEF Settled, BufferTypeOK, Results
  <2>5. flushes' + Len(pending') <= pushed'
    BY <1>1, <1>3, <2>1, <2>3
  <2> QED BY <1>1, <2>4, <2>5, OneStepInv
<1> QED BY <1>2, <1>3 DEF DropWriter

-----------------------------------------------------------------------------
(* The theorems.                                                           *)

(* A new writer satisfies the invariant.                                   *)
LEMMA InitInv == Init => IInv
<1> SUFFICES ASSUME Init PROVE IInv
  OBVIOUS
<1>1. TypeOK
  BY ShortFacts, LimitAssumption DEF Init, TypeOK
<1>2. /\ Len(<<>>) = 0 /\ Range(<<>>) = {} /\ <<>> \in Seq(Msg)
      /\ <<>> \o <<>> = <<>>
  BY ShortFacts, ConcatEmptySeq
<1>3. WriterInv
  BY <1>2, LimitAssumption
     DEF Init, WriterInv, NothingLost, ExactlyOnceInOrder, BufferBounded
<1> QED BY <1>1, <1>3 DEF IInv

(* Every call, every step of a batch and every stuttering step keeps it.   *)
LEMMA StepInv == IInv /\ [Next]_vars => IInv'
<1> SUFFICES ASSUME IInv, [Next]_vars PROVE IInv'
  OBVIOUS
<1>1. ASSUME NEW m \in Msg, Ready, Push(m) PROVE IInv'
  BY <1>1, DirectMsgInv, CriticalMsgInv, BufferMsgInv DEF Push
<1>2. pushed \in Nat /\ TypeOK
  BY DEF IInv, TypeOK
<1>3. CASE PushAny
  <2>1. PICK s \in Sizes, c \in BOOLEAN : Push(Message(pushed + 1, s, c))
    BY <1>3 DEF PushAny
  <2>2. Message(pushed + 1, s, c) \in Msg /\ Ready
    BY <1>2, <1>3, SizeAssumption DEF Message, Msg, PushAny
  <2> QED BY <1>1, <2>1, <2>2
<1>4. CASE PushGamepadFrame
  <2>1. GamepadFrame(pushed + 1) \in Msg
    BY <1>2, SizeAssumption DEF GamepadFrame, Message, Msg
  <2> QED BY <1>1, <1>4, <2>1 DEF PushGamepadFrame
<1>5. CASE PushRejected
  BY <1>5, RejectedPushInv DEF PushRejected
<1>6. CASE PushBatch
  <2>1. PICK k \in 2..MaxBatch : BatchFits(k) \/ BatchBegin(k)
    BY <1>6 DEF PushBatch
  <2>2. k \in Nat /\ k \in Nat \ {0} /\ Ready
    BY <1>6, BoundAssumption DEF PushBatch
  <2>3. Frames(k) \in Seq(Msg) /\ Len(Frames(k)) = k
    BY <1>2, <2>2, FramesFacts
  <2> QED BY <2>1, <2>2, <2>3, BatchFitsInv, BatchBeginInv
<1>7. CASE BatchLoop
  BY <1>7, BatchFrameInv, BatchEndInv, BatchChunkInv, ChunksEndInv DEF BatchLoop
<1>8. CASE Finish
  <2>1. CASE Ready /\ ExplicitFlush
    BY <2>1, FlushInv DEF Ready, ExplicitFlush, FlushNow, control
  <2>2. CASE Ready /\ IntoInner
    BY <2>2, FlushInv DEF Ready, IntoInner
  <2>3. CASE (Ready \/ phase = "dropping") /\ DropWriter
    <3>1. call = "idle" /\ phase # "dead"
      BY <2>3 DEF Ready, IInv, WriterInv
    <3> QED BY <2>3, <3>1, DropWriterInv
  <2> QED BY <1>8, <2>1, <2>2, <2>3 DEF Finish
<1>9. CASE UNCHANGED vars
  BY <1>9 DEF IInv, TypeOK, WriterInv, NothingLost, ExactlyOnceInOrder,
              BufferBounded, vars
<1> QED BY <1>3, <1>4, <1>5, <1>6, <1>7, <1>8, <1>9 DEF Next

(* The state of a writer is well typed and its accounting of what is       *)
(* buffered, delivered and counted is right, after any sequence of calls   *)
(* and transport errors.                                                   *)
THEOREM WriterInvariant == Spec => [](TypeOK /\ WriterInv)
<1>1. Init => IInv
  BY InitInv
<1>2. IInv /\ [Next]_vars => IInv'
  BY StepInv
<1> QED BY <1>1, <1>2, PTL DEF Spec, IInv

(* flush_now clears the buffer only after the transport took it, so an     *)
(* accepted message is never lost, except by a failing Drop.               *)
THEOREM WriterNothingLost == Spec => []NothingLost
<1>1. WriterInv => NothingLost
  BY DEF WriterInv
<1> QED BY <1>1, WriterInvariant, PTL

(* While the transport works, the wire and the buffer together are exactly *)
(* the accepted messages in the order of the calls.                        *)
THEOREM WriterExactlyOnceInOrder == Spec => []ExactlyOnceInOrder
<1>1. WriterInv => ExactlyOnceInOrder
  BY DEF WriterInv
<1> QED BY <1>1, WriterInvariant, PTL

(* A call that reports a completed flush has left nothing undelivered.     *)
THEOREM WriterFlushedMeansDelivered == Spec => []FlushedMeansDelivered
<1>1. WriterInv => FlushedMeansDelivered
  BY ShortFacts DEF WriterInv, NothingLost, FlushedMeansDelivered
<1> QED BY <1>1, WriterInvariant, PTL

(* The buffer stays within hard_limit while the transport works.           *)
THEOREM WriterBufferBounded == Spec => []BufferBounded
<1>1. WriterInv => BufferBounded
  BY DEF WriterInv
<1> QED BY <1>1, WriterInvariant, PTL

(* Every counted flush carried at least one message: messages_per_flush is *)
(* never below one.                                                        *)
THEOREM WriterRatioAtLeastOne == Spec => []RatioAtLeastOne
<1>1. TypeOK /\ WriterInv => RatioAtLeastOne
  <2> SUFFICES ASSUME TypeOK, WriterInv PROVE flushes <= pushed
    BY DEF RatioAtLeastOne
  <2>1. Len(pending) \in Nat /\ Len(batch) \in Nat
    BY LenProperties DEF TypeOK
  <2> QED BY <2>1 DEF TypeOK, WriterInv
<1> QED BY <1>1, WriterInvariant, PTL

-----------------------------------------------------------------------------
(* Retries never reorder.  Every message carries the number of its push,   *)
(* so the accepted messages are in the order of those numbers; the buffer  *)
(* is the tail of what was accepted, and the part before it has arrived.   *)

\* CausalOrder as a relation of a wire w and a history a.
CausalOn(w, a) ==
  \A i, j \in 1..Len(a) : \A y \in 1..Len(w) :
    i < j /\ w[y] = a[j] => \E x \in 1..y : w[x] = a[i]

Ordered(s) == \A i, j \in 1..Len(s) : i < j => s[i].id < s[j].id
Below(s, n) == \A i \in 1..Len(s) : s[i].id < n
Above(s, n) == \A i \in 1..Len(s) : n <= s[i].id

OnWire(w, m) == \E x \in 1..Len(w) : w[x] = m

\* q is the tail of a, and everything of a before that tail is on w.
Backed(w, a, q) ==
  /\ Len(q) <= Len(a)
  /\ \A i \in 1..Len(q) : q[i] = a[(Len(a) - Len(q)) + i]
  /\ \A i \in 1..(Len(a) - Len(q)) : OnWire(w, a[i])

\* The number of the next message the writer will handle.
fresh == (pushed - Len(batch)) + 1

CausalInv ==
  /\ Ordered(accepted) /\ Below(accepted, fresh) /\ Below(wire, fresh)
  /\ \A i \in 1..Len(batch) : batch[i].id = (pushed - Len(batch)) + i
  /\ CausalOn(wire, accepted)
  /\ last # "DropErr" => Backed(wire, accepted, pending)

(* The numbers of the messages of a sequence.                              *)
LEMMA IdFacts ==
  ASSUME NEW s \in Seq(Msg)
  PROVE  Len(s) \in Nat /\ \A i \in 1..Len(s) : s[i].id \in Nat
<1>1. Len(s) \in Nat /\ \A i \in 1..Len(s) : s[i] \in Msg
  BY LenProperties, ElementOfSeq
<1>2. \A m \in Msg : m.id \in Nat
  BY DEF Msg
<1> QED BY <1>1, <1>2

(* Lengths and elements of a concatenation.                                *)
LEMMA ConcatElements ==
  ASSUME NEW s \in Seq(Msg), NEW t \in Seq(Msg)
  PROVE  /\ s \o t \in Seq(Msg) /\ Len(s) \in Nat /\ Len(t) \in Nat
         /\ Len(s \o t) = Len(s) + Len(t)
         /\ \A i \in 1..Len(s) : (s \o t)[i] = s[i]
         /\ \A i \in 1..Len(t) : (s \o t)[Len(s) + i] = t[i]
<1>1. /\ s \o t \in Seq(Msg) /\ Len(s \o t) = Len(s) + Len(t)
      /\ \A i \in 1..(Len(s) + Len(t)) :
           (s \o t)[i] = IF i <= Len(s) THEN s[i] ELSE t[i - Len(s)]
  BY ConcatProperties
<1>2. Len(s) \in Nat /\ Len(t) \in Nat
  BY LenProperties
<1>3. \A i \in 1..Len(s) : (s \o t)[i] = s[i]
  BY <1>1, <1>2
<1>4. ASSUME NEW i \in 1..Len(t) PROVE (s \o t)[Len(s) + i] = t[i]
  <2>1. /\ Len(s) + i \in 1..(Len(s) + Len(t)) /\ ~(Len(s) + i <= Len(s))
        /\ (Len(s) + i) - Len(s) = i
    BY <1>2
  <2> QED BY <1>1, <2>1
<1> QED BY <1>1, <1>2, <1>3, <1>4

(* The wire after the first k messages of a buffer arrived.                *)
LEMMA LandFacts ==
  ASSUME NEW w \in Seq(Msg), NEW q \in Seq(Msg), NEW k \in 0..Len(q)
  PROVE  LET v == w \o SubSeq(q, 1, k)
         IN  /\ v \in Seq(Msg) /\ Len(w) \in Nat /\ Len(q) \in Nat
             /\ Len(v) = Len(w) + k
             /\ \A y \in 1..Len(w) : v[y] = w[y]
             /\ \A z \in 1..k : v[Len(w) + z] = q[z]
<1>1. /\ Len(w) \in Nat /\ Len(q) \in Nat /\ \A i \in 1..k : q[i] \in Msg
  BY LenProperties, ElementOfSeq
<1>2. /\ SubSeq(q, 1, k) \in Seq(Msg) /\ Len(SubSeq(q, 1, k)) = k
      /\ \A i \in 1..k : SubSeq(q, 1, k)[i] = q[i]
  BY <1>1, SubSeqProperties
<1> QED BY <1>1, <1>2, ConcatElements

(* A buffer that is the tail of the history may be sent up to any message: *)
(* what arrives comes after everything accepted before it.                 *)
LEMMA LandKeepsCausal ==
  ASSUME NEW w \in Seq(Msg), NEW a \in Seq(Msg), NEW q \in Seq(Msg),
         NEW k \in 0..Len(q),
         Ordered(a), Backed(w, a, q), CausalOn(w, a)
  PROVE  CausalOn(w \o SubSeq(q, 1, k), a)
<1> DEFINE b == Len(a) - Len(q)
           v == w \o SubSeq(q, 1, k)
<1>1. /\ Len(w) \in Nat /\ Len(q) \in Nat /\ Len(v) = Len(w) + k
      /\ \A y \in 1..Len(w) : v[y] = w[y]
      /\ \A z \in 1..k : v[Len(w) + z] = q[z]
  BY LandFacts
<1> HIDE DEF v
<1>2. Len(a) \in Nat /\ b \in Nat /\ \A i \in 1..Len(a) : a[i].id \in Nat
  <2>1. Len(a) \in Nat /\ \A i \in 1..Len(a) : a[i].id \in Nat
    BY IdFacts
  <2>2. Len(q) <= Len(a)
    BY DEF Backed, OnWire
  <2> QED BY <1>1, <2>1, <2>2
<1>3. /\ \A i \in 1..Len(q) : q[i] = a[b + i]
      /\ \A i \in 1..b : \E x \in 1..Len(w) : w[x] = a[i]
  BY DEF Backed, OnWire
<1>4. SUFFICES ASSUME NEW i \in 1..Len(a), NEW j \in 1..Len(a), i < j,
                      NEW y \in 1..Len(v), v[y] = a[j]
               PROVE  \E x \in 1..y : v[x] = a[i]
  BY DEF CausalOn, v
<1>5. CASE y <= Len(w)
  <2>1. y \in 1..Len(w) /\ w[y] = a[j]
    BY <1>1, <1>4, <1>5
  <2>2. PICK x \in 1..y : w[x] = a[i]
    BY <1>4, <2>1 DEF CausalOn
  <2>3. x \in 1..Len(w)
    BY <1>1, <1>5, <2>2
  <2> QED BY <1>1, <2>2, <2>3
<1>6. CASE y > Len(w)
  <2> DEFINE z == y - Len(w)
  <2>1. z \in 1..k /\ z \in 1..Len(q) /\ y = Len(w) + z
    BY <1>1, <1>6
  <2>2. v[y] = a[b + z] /\ b + z \in 1..Len(a)
    <3>1. v[y] = q[z] /\ q[z] = a[b + z]
      BY <1>1, <1>3, <2>1
    <3>2. b + z \in 1..Len(a)
      BY <1>1, <1>2, <2>1
    <3> QED BY <3>1, <3>2
  <2>3. j = b + z
    <3>1. a[j].id = a[b + z].id
      BY <1>4, <2>2
    <3> HIDE DEF b, z
    <3>2. ~(j < b + z) /\ ~(b + z < j)
      BY <1>2, <2>2, <3>1 DEF Ordered
    <3> QED BY <2>2, <3>2
  <2>4. CASE i <= b
    <3>0. i \in 1..b
      BY <1>2, <2>4
    <3>1. PICK x \in 1..Len(w) : w[x] = a[i]
      BY <1>3, <3>0
    <3>2. x \in 1..y /\ v[x] = a[i]
      BY <1>1, <1>6, <3>1
    <3> QED BY <3>2
  <2>5. CASE i > b
    <3>1. i - b \in 1..k /\ i - b \in 1..Len(q) /\ Len(w) + (i - b) \in 1..y
      BY <1>1, <1>2, <1>4, <2>1, <2>3, <2>5, SMTT(30)
    <3>2. b + (i - b) = i
      BY <1>2
    <3>3. v[Len(w) + (i - b)] = a[i]
      BY <1>1, <1>3, <3>1, <3>2
    <3> QED BY <3>1, <3>3
  <2> QED BY <1>2, <2>4, <2>5
<1> QED BY <1>1, <1>5, <1>6

(* A prefix of the history that ends no later than what has arrived.       *)
LEMMA LandCovers ==
  ASSUME NEW w \in Seq(Msg), NEW a \in Seq(Msg), NEW q \in Seq(Msg),
         NEW k \in 0..Len(q),
         Backed(w, a, q), NEW i \in 1..Len(a), i <= (Len(a) - Len(q)) + k
  PROVE  OnWire(w \o SubSeq(q, 1, k), a[i])
<1> DEFINE b == Len(a) - Len(q)
           v == w \o SubSeq(q, 1, k)
<1>1. /\ Len(w) \in Nat /\ Len(q) \in Nat /\ Len(v) = Len(w) + k
      /\ \A y \in 1..Len(w) : v[y] = w[y]
      /\ \A z \in 1..k : v[Len(w) + z] = q[z]
  BY LandFacts
<1> SUFFICES \E x \in 1..Len(v) : v[x] = a[i]
  BY DEF OnWire
<1> HIDE DEF v
<1>2. Len(a) \in Nat /\ b \in Nat
  BY <1>1, LenProperties DEF Backed, OnWire
<1>3. /\ \A c \in 1..Len(q) : q[c] = a[b + c]
      /\ \A c \in 1..b : \E x \in 1..Len(w) : w[x] = a[c]
  BY DEF Backed, OnWire
<1>4. CASE i <= b
  <2>1. PICK x \in 1..Len(w) : w[x] = a[i]
    BY <1>2, <1>3, <1>4
  <2> QED BY <1>1, <2>1
<1>5. CASE i > b
  <2>1. i - b \in 1..k /\ i - b \in 1..Len(q) /\ b + (i - b) = i
    BY <1>1, <1>2, <1>5
  <2> DEFINE z == i - b
  <2>2. z \in 1..k /\ z \in 1..Len(q) /\ b + z = i /\ b \in Nat
    BY <1>2, <2>1
  <2> HIDE DEF z, b
  <2>3. q[z] = a[i]
    BY <1>3, <2>2
  <2>4. v[Len(w) + z] = a[i]
    BY <1>1, <2>2, <2>3
  <2>5. Len(w) + z \in 1..Len(v)
    BY <1>1, <2>2
  <2> QED BY <2>4, <2>5
<1> QED BY <1>2, <1>4, <1>5

(* A history all of which has arrived leaves nothing for the buffer.       *)
LEMMA AllBacked ==
  ASSUME NEW w, NEW a \in Seq(Msg), \A i \in 1..Len(a) : OnWire(w, a[i])
  PROVE  Backed(w, a, <<>>)
<1>1. Len(a) \in Nat /\ Len(<<>>) = 0
  BY LenProperties
<1>2. Len(a) - Len(<<>>) = Len(a) /\ 1..Len(<<>>) = {} /\ Len(<<>>) <= Len(a)
  BY <1>1
<1> QED BY <1>2 DEF Backed

(* New messages extend the history and the buffer together: their numbers  *)
(* are larger than any on the wire.                                        *)
LEMMA ExtendKeepsCausal ==
  ASSUME NEW w \in Seq(Msg), NEW a \in Seq(Msg), NEW q \in Seq(Msg),
         NEW t \in Seq(Msg), NEW n \in Int,
         Ordered(a), Below(a, n), Below(w, n), Ordered(t), Above(t, n),
         Backed(w, a, q), CausalOn(w, a)
  PROVE  /\ Ordered(a \o t) /\ CausalOn(w, a \o t)
         /\ Backed(w, a \o t, q \o t)
<1>1. /\ a \o t \in Seq(Msg) /\ Len(a) \in Nat /\ Len(t) \in Nat
      /\ Len(a \o t) = Len(a) + Len(t)
      /\ \A i \in 1..Len(a) : (a \o t)[i] = a[i]
      /\ \A i \in 1..Len(t) : (a \o t)[Len(a) + i] = t[i]
  BY ConcatElements
<1>2. /\ q \o t \in Seq(Msg) /\ Len(q) \in Nat
      /\ Len(q \o t) = Len(q) + Len(t)
      /\ \A i \in 1..Len(q) : (q \o t)[i] = q[i]
      /\ \A i \in 1..Len(t) : (q \o t)[Len(q) + i] = t[i]
  BY ConcatElements
<1>3. /\ \A i \in 1..Len(a) : a[i].id \in Nat
      /\ \A i \in 1..Len(t) : t[i].id \in Nat
      /\ \A i \in 1..Len(w) : w[i].id \in Nat
      /\ Len(w) \in Nat
  BY IdFacts
<1>4. \A i \in 1..(Len(a) + Len(t)) :
        \/ i \in 1..Len(a)
        \/ i - Len(a) \in 1..Len(t) /\ (a \o t)[i] = t[i - Len(a)]
  <2>1. SUFFICES ASSUME NEW i \in 1..(Len(a) + Len(t)), i > Len(a)
                 PROVE  /\ i - Len(a) \in 1..Len(t)
                        /\ (a \o t)[i] = t[i - Len(a)]
    BY <1>1
  <2>2. i - Len(a) \in 1..Len(t) /\ Len(a) + (i - Len(a)) = i
    BY <1>1, <2>1
  <2> QED BY <1>1, <2>2
<1>5. Ordered(a \o t)
  <2>1. SUFFICES ASSUME NEW i \in 1..(Len(a) + Len(t)),
                        NEW j \in 1..(Len(a) + Len(t)), i < j
                 PROVE  (a \o t)[i].id < (a \o t)[j].id
    BY <1>1 DEF Ordered
  <2>2. CASE j \in 1..Len(a)
    BY <1>1, <2>1, <2>2 DEF Ordered
  <2>3. CASE i \in 1..Len(a) /\ j \notin 1..Len(a)
    <3>1. j - Len(a) \in 1..Len(t) /\ (a \o t)[j] = t[j - Len(a)]
      BY <1>4, <2>3
    <3> DEFINE z == j - Len(a)
    <3>2. z \in 1..Len(t) /\ (a \o t)[j] = t[z] /\ (a \o t)[i] = a[i]
      BY <1>1, <2>3, <3>1
    <3> HIDE DEF z
    <3> QED BY <1>3, <2>3, <3>2, SMTT(30) DEF Below, Above
  <2>4. CASE i \notin 1..Len(a) /\ j \notin 1..Len(a)
    <3> DEFINE y == i - Len(a)
               z == j - Len(a)
    <3>1. /\ y \in 1..Len(t) /\ (a \o t)[i] = t[y]
          /\ z \in 1..Len(t) /\ (a \o t)[j] = t[z] /\ y < z
      BY <1>1, <1>4, <2>1, <2>4
    <3> HIDE DEF y, z
    <3> QED BY <3>1 DEF Ordered
  <2> QED BY <1>1, <2>1, <2>2, <2>3, <2>4
<1>6. CausalOn(w, a \o t)
  <2>1. SUFFICES ASSUME NEW i \in 1..(Len(a) + Len(t)),
                        NEW j \in 1..(Len(a) + Len(t)), i < j,
                        NEW y \in 1..Len(w), w[y] = (a \o t)[j]
                 PROVE  \E x \in 1..y : w[x] = (a \o t)[i]
    BY <1>1 DEF CausalOn
  <2>2. j \in 1..Len(a)
    <3>1. SUFFICES ASSUME j \notin 1..Len(a) PROVE FALSE
      OBVIOUS
    <3> DEFINE z == j - Len(a)
    <3>2. z \in 1..Len(t) /\ w[y] = t[z]
      BY <1>4, <2>1, <3>1
    <3> HIDE DEF z
    <3>3. w[y].id = t[z].id /\ w[y].id < n /\ n <= t[z].id
      BY <3>2 DEF Below, Above
    <3> QED BY <1>3, <3>2, <3>3
  <2>3. i \in 1..Len(a) /\ w[y] = a[j] /\ (a \o t)[i] = a[i]
    BY <1>1, <2>1, <2>2
  <2> QED BY <2>1, <2>2, <2>3 DEF CausalOn
<1>7. Backed(w, a \o t, q \o t)
  <2> DEFINE b == Len(a) - Len(q)
  <2>1. b \in Nat /\ Len(a \o t) - Len(q \o t) = b /\ Len(q \o t) <= Len(a \o t)
    BY <1>1, <1>2 DEF Backed, OnWire
  <2>2. ASSUME NEW i \in 1..(Len(q) + Len(t))
        PROVE  (q \o t)[i] = (a \o t)[b + i]
    <3>1. CASE i <= Len(q)
      <4>1. i \in 1..Len(q) /\ b + i \in 1..Len(a)
        BY <1>1, <1>2, <2>1, <2>2, <3>1
      <4> QED BY <1>1, <1>2, <4>1 DEF Backed, OnWire
    <3>2. CASE i > Len(q)
      <4>1. /\ i - Len(q) \in 1..Len(t) /\ Len(q) + (i - Len(q)) = i
            /\ Len(a) + (i - Len(q)) = b + i
        BY <1>1, <1>2, <2>1, <2>2, <3>2
      <4>2. (q \o t)[i] = t[i - Len(q)]
        BY <1>2, <4>1
      <4>3. (a \o t)[b + i] = t[i - Len(q)]
        BY <1>1, <4>1
      <4> QED BY <4>2, <4>3
    <3>3. i <= Len(q) \/ i > Len(q)
      BY <1>1, <1>2, <2>2
    <3> QED BY <3>1, <3>2, <3>3
  <2>3. ASSUME NEW i \in 1..b PROVE \E x \in 1..Len(w) : w[x] = (a \o t)[i]
    <3>1. i \in 1..Len(a) /\ (a \o t)[i] = a[i]
      BY <1>1, <1>2, <2>1, <2>3
    <3> QED BY <3>1 DEF Backed, OnWire
  <2> QED BY <1>1, <1>2, <2>1, <2>2, <2>3 DEF Backed, OnWire
<1> QED BY <1>5, <1>6, <1>7

(* The history may be cut back to what was accepted before.                *)
LEMMA CutKeepsCausal ==
  ASSUME NEW a \in Seq(Msg), NEW t \in Seq(Msg), NEW v, CausalOn(v, a \o t)
  PROVE  CausalOn(v, a)
<1>1. /\ Len(a) \in Nat /\ Len(t) \in Nat /\ Len(a \o t) = Len(a) + Len(t)
      /\ \A i \in 1..Len(a) : (a \o t)[i] = a[i]
  BY ConcatElements
<1>2. SUFFICES ASSUME NEW i \in 1..Len(a), NEW j \in 1..Len(a), i < j,
                      NEW y \in 1..Len(v), v[y] = a[j]
               PROVE  \E x \in 1..y : v[x] = a[i]
  BY DEF CausalOn
<1>3. i \in 1..Len(a \o t) /\ j \in 1..Len(a \o t) /\ v[y] = (a \o t)[j]
  BY <1>1, <1>2
<1>4. PICK x \in 1..y : v[x] = (a \o t)[i]
  BY <1>2, <1>3 DEF CausalOn
<1> QED BY <1>1, <1>4

\* A step takes the new messages t: the buffer with t behind it is sent up to
\* some message.  Then t is accepted and the buffer kept, or cleared once all
\* of it was sent; or t is refused and the buffer is empty, because it was
\* sent or because the writer is gone.
Sends(t) ==
  \E k \in 0..Len(pending \o t) :
    /\ wire' = wire \o SubSeq(pending \o t, 1, k)
    /\ \/ /\ accepted' = accepted \o t
          /\ \/ pending' = pending \o t
             \/ pending' = <<>> /\ k = Len(pending \o t)
       \/ /\ accepted' = accepted /\ pending' = <<>>
          /\ Len(pending) <= k \/ last' = "DropErr"

\* The new messages carry the next numbers.
Numbered(t) ==
  /\ Ordered(t) /\ Above(t, fresh) /\ Below(t, fresh') /\ fresh <= fresh'
  /\ \A i \in 1..Len(batch') : batch'[i].id = (pushed' - Len(batch')) + i

(* The bound on the numbers of a sequence may grow.                        *)
LEMMA BelowGrows ==
  ASSUME NEW s \in Seq(Msg), NEW n \in Int, NEW m \in Int, Below(s, n), n <= m
  PROVE  Below(s, m)
<1>1. \A i \in 1..Len(s) : s[i].id \in Nat /\ s[i].id < n
  BY IdFacts DEF Below
<1> QED BY <1>1 DEF Below

(* A bound on the numbers of two sequences bounds their concatenation.     *)
LEMMA BelowConcat ==
  ASSUME NEW s \in Seq(Msg), NEW t \in Seq(Msg), NEW n \in Int,
         Below(s, n), Below(t, n)
  PROVE  Below(s \o t, n)
<1>1. /\ Len(s) \in Nat /\ Len(t) \in Nat /\ Len(s \o t) = Len(s) + Len(t)
      /\ \A i \in 1..Len(s) : (s \o t)[i] = s[i]
      /\ \A i \in 1..Len(t) : (s \o t)[Len(s) + i] = t[i]
  BY ConcatElements
<1>2. SUFFICES ASSUME NEW i \in 1..(Len(s) + Len(t)) PROVE (s \o t)[i].id < n
  BY <1>1 DEF Below
<1>3. CASE i <= Len(s)
  BY <1>1, <1>2, <1>3 DEF Below
<1>4. CASE i > Len(s)
  <2>1. i - Len(s) \in 1..Len(t) /\ Len(s) + (i - Len(s)) = i
    BY <1>1, <1>2, <1>4
  <2>2. (s \o t)[i] = t[i - Len(s)]
    BY <1>1, <2>1
  <2> QED BY <2>1, <2>2 DEF Below
<1> QED BY <1>1, <1>2, <1>3, <1>4

(* So does a bound on what was on the wire and on what was sent.           *)
LEMMA BelowLand ==
  ASSUME NEW w \in Seq(Msg), NEW q \in Seq(Msg), NEW k \in 0..Len(q),
         NEW n \in Int, Below(w, n), Below(q, n)
  PROVE  Below(w \o SubSeq(q, 1, k), n)
<1>1. Len(q) \in Nat /\ \A i \in 1..k : q[i] \in Msg
  BY LenProperties, ElementOfSeq
<1>2. /\ SubSeq(q, 1, k) \in Seq(Msg) /\ Len(SubSeq(q, 1, k)) = k
      /\ \A i \in 1..k : SubSeq(q, 1, k)[i] = q[i]
  BY <1>1, SubSeqProperties
<1>3. Below(SubSeq(q, 1, k), n)
  BY <1>1, <1>2 DEF Below
<1> QED BY <1>2, <1>3, BelowConcat

(* The tail of a history has the history's bound.                          *)
LEMMA BelowTail ==
  ASSUME NEW w, NEW a \in Seq(Msg), NEW q \in Seq(Msg), NEW n \in Int,
         Below(a, n), Backed(w, a, q)
  PROVE  Below(q, n)
<1>1. Len(a) \in Nat /\ Len(q) \in Nat /\ Len(q) <= Len(a)
  BY LenProperties DEF Backed, OnWire
<1>2. SUFFICES ASSUME NEW i \in 1..Len(q) PROVE q[i].id < n
  BY DEF Below
<1>3. (Len(a) - Len(q)) + i \in 1..Len(a) /\ q[i] = a[(Len(a) - Len(q)) + i]
  BY <1>1 DEF Backed, OnWire
<1> QED BY <1>3 DEF Below

(* Such a step keeps the order.                                            *)
LEMMA SendsKeepsCausal ==
  ASSUME TypeOK, TypeOK', CausalInv, last # "DropErr",
         NEW t \in Seq(Msg), Sends(t), Numbered(t)
  PROVE  CausalInv'
<1> DEFINE q == pending \o t
           a == accepted \o t
<1>1. /\ wire \in Seq(Msg) /\ pending \in Seq(Msg) /\ accepted \in Seq(Msg)
      /\ fresh \in Int /\ fresh' \in Int /\ fresh <= fresh'
      /\ wire' \in Seq(Msg) /\ accepted' \in Seq(Msg)
  <2>1. /\ pushed \in Nat /\ pushed' \in Nat
        /\ batch \in Seq(Msg) /\ batch' \in Seq(Msg)
    BY DEF TypeOK
  <2>2. Len(batch) \in Nat /\ Len(batch') \in Nat
    BY <2>1, LenProperties
  <2>3. fresh \in Int /\ fresh' \in Int
    BY <2>1, <2>2 DEF fresh
  <2> QED BY <2>3 DEF TypeOK, Numbered
<1>2. /\ Ordered(accepted) /\ Below(accepted, fresh) /\ Below(wire, fresh)
      /\ CausalOn(wire, accepted) /\ Backed(wire, accepted, pending)
      /\ Ordered(t) /\ Above(t, fresh) /\ Below(t, fresh')
  BY DEF CausalInv, Numbered
<1>3. Ordered(a) /\ CausalOn(wire, a) /\ Backed(wire, a, q)
  BY <1>1, <1>2, ExtendKeepsCausal
<1>4. /\ q \in Seq(Msg) /\ a \in Seq(Msg)
      /\ Len(t) \in Nat /\ Len(pending) \in Nat /\ Len(accepted) \in Nat
      /\ Len(a) = Len(accepted) + Len(t) /\ Len(q) = Len(pending) + Len(t)
      /\ \A i \in 1..Len(accepted) : a[i] = accepted[i]
  BY <1>1, ConcatElements
<1>5. /\ Below(accepted, fresh') /\ Below(wire, fresh') /\ Below(pending, fresh')
      /\ Below(a, fresh') /\ Below(q, fresh')
  BY <1>1, <1>2, BelowGrows, BelowTail, BelowConcat
<1>6. PICK k \in 0..Len(q) :
        /\ wire' = wire \o SubSeq(q, 1, k)
        /\ \/ /\ accepted' = a
              /\ pending' = q \/ (pending' = <<>> /\ k = Len(q))
           \/ /\ accepted' = accepted /\ pending' = <<>>
              /\ Len(pending) <= k \/ last' = "DropErr"
  BY Zenon DEF Sends
<1> HIDE DEF q, a
<1>7. CausalOn(wire', a) /\ Below(wire', fresh')
  <2>1. wire' = wire \o SubSeq(q, 1, k)
    BY <1>6
  <2>2. Below(wire \o SubSeq(q, 1, k), fresh')
    BY <1>1, <1>4, <1>5, BelowLand
  <2>3. CausalOn(wire \o SubSeq(q, 1, k), a)
    BY <1>1, <1>3, <1>4, LandKeepsCausal
  <2> QED BY <2>1, <2>2, <2>3
<1>8. CausalOn(wire', accepted)
  BY <1>1, <1>7, CutKeepsCausal DEF a
<1>9. \A i \in 1..Len(a) : i <= (Len(a) - Len(q)) + k =>
        \E x \in 1..Len(wire') : wire'[x] = a[i]
  <2>1. wire' = wire \o SubSeq(q, 1, k)
    BY <1>6
  <2>2. ASSUME NEW i \in 1..Len(a), i <= (Len(a) - Len(q)) + k
        PROVE  OnWire(wire \o SubSeq(q, 1, k), a[i])
    BY <1>1, <1>3, <1>4, <2>2, LandCovers
  <2> QED BY <2>1, <2>2 DEF OnWire
<1>10. Len(<<>>) = 0 /\ Len(q) <= Len(a)
  BY <1>3 DEF Backed, OnWire
<1>11. CASE accepted' = a /\ pending' = q
  <2>1. ASSUME NEW i \in 1..(Len(a) - Len(q))
        PROVE  \E x \in 1..Len(wire') : wire'[x] = a[i]
    <3>1. Len(a) \in Nat /\ Len(q) \in Nat
      BY <1>4, LenProperties
    <3>2. i \in 1..Len(a) /\ i <= (Len(a) - Len(q)) + k
      BY <1>10, <2>1, <3>1
    <3> QED BY <1>9, <3>2
  <2>2. Backed(wire', accepted', pending')
    BY <1>3, <1>11, <2>1 DEF Backed, OnWire
  <2> QED BY <1>3, <1>5, <1>7, <1>11, <2>2 DEF CausalInv, Numbered
<1>12. CASE accepted' = a /\ pending' = <<>> /\ k = Len(q)
  <2>1. \A i \in 1..Len(a) : \E x \in 1..Len(wire') : wire'[x] = a[i]
    BY <1>4, <1>9, <1>12
  <2>2. Backed(wire', accepted', pending')
    BY <1>4, <1>12, <2>1, AllBacked DEF OnWire
  <2> QED BY <1>3, <1>5, <1>7, <1>12, <2>2 DEF CausalInv, Numbered
<1>13. CASE /\ accepted' = accepted /\ pending' = <<>>
            /\ Len(pending) <= k \/ last' = "DropErr"
  <2>1. ASSUME last' # "DropErr" PROVE Backed(wire', accepted', pending')
    <3>1. \A i \in 1..Len(accepted) :
            \E x \in 1..Len(wire') : wire'[x] = accepted[i]
      <4>1. SUFFICES ASSUME NEW i \in 1..Len(accepted)
                     PROVE  \E x \in 1..Len(wire') : wire'[x] = accepted[i]
        OBVIOUS
      <4>2. i \in 1..Len(a) /\ i <= (Len(a) - Len(q)) + k /\ a[i] = accepted[i]
        BY <1>4, <1>13, <2>1
      <4> QED BY <1>9, <4>2
    <3> QED BY <1>1, <1>13, <3>1, AllBacked DEF OnWire
  <2> QED BY <1>2, <1>5, <1>7, <1>8, <1>13, <2>1 DEF CausalInv, Numbered
<1> QED BY <1>6, <1>11, <1>12, <1>13

(* flush_now and the buffered pushes are such steps.                       *)
LEMMA BufferSends ==
  ASSUME TypeOK, NEW t \in Seq(Msg), NEW n, accepted' = accepted \o t,
         \/ FlushOk(pending \o t, n) \/ FlushErr(pending \o t, n)
         \/ Keep(pending \o t, n)
         \/ UNCHANGED wire /\ pending' = pending \o t
  PROVE  Sends(t)
<1> DEFINE q == pending \o t
<1>1. wire \in Seq(Msg) /\ q \in Seq(Msg)
  BY ConcatElements DEF TypeOK
<1>2. Len(q) \in Nat /\ SubSeq(q, 1, Len(q)) = q /\ SubSeq(q, 1, 0) = <<>>
  BY <1>1, LenProperties, SubSeqFull, SubSeqEmpty
<1>3. wire \o <<>> = wire
  BY <1>1, ConcatEmptySeq
<1> HIDE DEF q
<1>4. CASE FlushOk(q, n)
  <2>1. /\ wire' = wire \o SubSeq(q, 1, Len(q)) /\ pending' = <<>>
        /\ Len(q) \in 0..Len(q)
    BY <1>2, <1>4 DEF FlushOk, WriteOk
  <2> QED BY <2>1 DEF Sends, q
<1>5. CASE FlushErr(q, n)
  <2>1. PICK k \in 0..Len(q) : wire' = wire \o SubSeq(q, 1, k)
    BY <1>5 DEF FlushErr, WriteErr, Lands
  <2>2. pending' = q
    BY <1>5 DEF FlushErr
  <2> QED BY <2>1, <2>2 DEF Sends, q
<1>6. CASE UNCHANGED wire /\ pending' = q
  <2>1. wire' = wire \o SubSeq(q, 1, 0)
    BY <1>2, <1>3, <1>6, Zenon
  <2>2. 0 \in 0..Len(q)
    BY <1>2
  <2> QED BY <1>6, <2>1, <2>2 DEF Sends, q
<1> QED BY <1>4, <1>5, <1>6 DEF Keep, q

(* So is a step without new messages that flushes or leaves the buffer.    *)
LEMMA QuietSends ==
  ASSUME TypeOK, NEW n, accepted' = accepted,
         \/ FlushOk(pending, n) \/ FlushErr(pending, n)
         \/ UNCHANGED <<wire, pending>>
  PROVE  Sends(<<>>)
<1>1. pending \in Seq(Msg) /\ accepted \in Seq(Msg)
  BY DEF TypeOK
<1>2. pending \o <<>> = pending /\ accepted \o <<>> = accepted /\ <<>> \in Seq(Msg)
  BY <1>1, ConcatEmptySeq, ShortFacts
<1>3. \/ FlushOk(pending \o <<>>, n) \/ FlushErr(pending \o <<>>, n)
      \/ UNCHANGED wire /\ pending' = pending \o <<>>
  BY <1>2
<1> QED BY <1>2, <1>3, BufferSends

(* The numbers of a call that is one step.                                 *)
LEMMA CallNumbers ==
  ASSUME TypeOK, TypeOK', batch = <<>>, batch' = <<>>, pushed <= pushed',
         NEW t \in Seq(Msg), Ordered(t),
         \A i \in 1..Len(t) : pushed < t[i].id /\ t[i].id <= pushed'
  PROVE  Numbered(t)
<1>1. pushed \in Nat /\ pushed' \in Nat /\ Len(batch) = 0 /\ Len(batch') = 0
  BY DEF TypeOK
<1>2. fresh = pushed + 1 /\ fresh' = pushed' + 1
  BY <1>1 DEF fresh
<1>3. \A i \in 1..Len(t) : t[i].id \in Nat
  BY IdFacts
<1>4. Above(t, fresh) /\ Below(t, fresh')
  BY <1>1, <1>2, <1>3 DEF Above, Below
<1>5. fresh <= fresh'
  <2>1. \A i, j \in Nat : i <= j => i + 1 <= j + 1
    OBVIOUS
  <2>2. pushed + 1 <= pushed' + 1
    BY <1>1, <2>1
  <2> QED BY <1>2, <2>2
<1>6. 1..Len(batch') = {}
  <2>1. 1..0 = {}
    OBVIOUS
  <2> QED BY <1>1, <2>1, Zenon
<1> QED BY <1>4, <1>5, <1>6 DEF Numbered

(* A message, or none, is in order.                                        *)
LEMMA ShortOrdered ==
  /\ <<>> \in Seq(Msg) /\ Ordered(<<>>) /\ \A n : Above(<<>>, n) /\ Below(<<>>, n)
  /\ \A m \in Msg : /\ <<m>> \in Seq(Msg) /\ Ordered(<<m>>)
                    /\ Len(<<m>>) = 1 /\ <<m>>[1] = m
<1>1. 1..Len(<<>>) = {}
  OBVIOUS
<1>2. Ordered(<<>>) /\ \A n : Above(<<>>, n) /\ Below(<<>>, n)
  BY <1>1 DEF Ordered, Above, Below
<1>3. ASSUME NEW m \in Msg PROVE Ordered(<<m>>)
  BY DEF Ordered
<1> QED BY <1>2, <1>3, ShortFacts

(* A call without new messages.                                            *)
LEMMA QuietCausal ==
  ASSUME TypeOK, TypeOK', CausalInv, last # "DropErr", batch = <<>>,
         batch' = <<>>, pushed <= pushed', Sends(<<>>)
  PROVE  CausalInv'
<1>1. <<>> \in Seq(Msg) /\ Ordered(<<>>) /\ 1..Len(<<>>) = {}
  BY ShortOrdered
<1>2. Numbered(<<>>)
  BY <1>1, CallNumbers
<1> QED BY <1>1, <1>2, SendsKeepsCausal

(* A call with one new message.                                            *)
LEMMA SingleCausal ==
  ASSUME TypeOK, TypeOK', CausalInv, last # "DropErr", batch = <<>>,
         batch' = <<>>, NEW m \in Msg, m.id = pushed + 1, pushed' = pushed + 1,
         Sends(<<m>>)
  PROVE  CausalInv'
<1>1. /\ <<m>> \in Seq(Msg) /\ Ordered(<<m>>)
      /\ Len(<<m>>) = 1 /\ <<m>>[1] = m
  BY ShortOrdered
<1>2. pushed \in Nat
  BY DEF TypeOK
<1>3. \A i \in 1..Len(<<m>>) : pushed < <<m>>[i].id /\ <<m>>[i].id <= pushed'
  <2>1. \A i \in 1..Len(<<m>>) : <<m>>[i] = m
    BY <1>1
  <2> QED BY <1>2, <2>1
<1>4. Numbered(<<m>>)
  <2>1. pushed <= pushed'
    BY <1>2
  <2> QED BY <1>1, <1>3, <2>1, CallNumbers
<1> QED BY <1>1, <1>4, SendsKeepsCausal

(* A message refused after the buffer was sent.                            *)
LEMMA RefusedSends ==
  ASSUME TypeOK, NEW m \in Msg, NEW k \in {0, 1},
         wire' = wire \o SubSeq(Append(pending, m), 1, Len(pending) + k),
         pending' = <<>>, accepted' = accepted
  PROVE  Sends(<<m>>)
<1>1. pending \in Seq(Msg) /\ Len(pending) \in Nat
  BY LenProperties DEF TypeOK
<1>2. Append(pending, m) = pending \o <<m>> /\ Len(pending \o <<m>>) = Len(pending) + 1
  BY <1>1, AppendFacts
<1>3. Len(pending) + k \in 0..Len(pending \o <<m>>) /\ Len(pending) <= Len(pending) + k
  BY <1>1, <1>2
<1>4. wire' = wire \o SubSeq(pending \o <<m>>, 1, Len(pending) + k)
  BY <1>2
<1> QED BY <1>3, <1>4 DEF Sends

(* A push of the next message.                                             *)
LEMMA PushCausal ==
  ASSUME IInv, IInv', CausalInv, Ready, NEW m \in Msg, m.id = pushed + 1,
         Push(m)
  PROVE  CausalInv'
<1>1. /\ TypeOK /\ TypeOK' /\ last # "DropErr" /\ batch = <<>>
      /\ pushed \in Nat /\ wire \in Seq(Msg) /\ pending \in Seq(Msg)
      /\ accepted \in Seq(Msg) /\ (direct => pending = <<>>)
  BY DEF IInv, TypeOK, WriterInv, Ready
<1>2. pushed' = pushed + 1 /\ batch' = <<>>
  BY <1>1 DEF Push, DirectMsg, CriticalMsg, BufferMsg, control
<1>3. <<m>> \in Seq(Msg) /\ <<>> \in Seq(Msg)
  BY ShortFacts
<1>4. /\ Append(pending, m) = pending \o <<m>>
      /\ Append(accepted, m) = accepted \o <<m>>
  BY <1>1, AppendFacts
<1>5. CASE ~direct /\ ~m.critical
  <2>1. BufferMsg(m)
    BY <1>5 DEF Push
  <2> DEFINE p == Append(pending, m)
             n == pendingLen + m.size
  <2>2. /\ accepted' = Append(accepted, m)
        /\ FlushOk(p, n) \/ FlushErr(p, n) \/ Keep(p, n)
    BY <2>1 DEF BufferMsg, FlushNow
  <2>3. Sends(<<m>>)
    <3> HIDE DEF n
    <3> QED BY <1>1, <1>3, <1>4, <2>2, BufferSends
  <2> QED BY <1>1, <1>2, <2>3, SingleCausal
<1>6. CASE ~direct /\ m.critical
  <2>1. CriticalMsg(m)
    BY <1>6 DEF Push
  <2>2. CASE FlushErr(pending, pendingLen) /\ UNCHANGED accepted
    <3>1. Sends(<<>>)
      BY <1>1, <2>2, QuietSends
    <3>2. pushed <= pushed'
      BY <1>1, <1>2
    <3> QED BY <1>1, <1>2, <3>1, <3>2, QuietCausal
  <2>3. CASE /\ WriteOk(Append(pending, m)) /\ pending' = <<>>
             /\ accepted' = Append(accepted, m)
    <3>1. /\ pending \o <<m>> \in Seq(Msg) /\ Len(pending \o <<m>>) \in Nat
          /\ SubSeq(pending \o <<m>>, 1, Len(pending \o <<m>>)) = pending \o <<m>>
      BY <1>1, <1>3, ConcatElements, LenProperties, SubSeqFull
    <3>2. /\ wire' = wire \o SubSeq(pending \o <<m>>, 1, Len(pending \o <<m>>))
          /\ Len(pending \o <<m>>) \in 0..Len(pending \o <<m>>)
      BY <1>4, <2>3, <3>1, SMTT(30) DEF WriteOk
    <3>3. Sends(<<m>>)
      BY <1>4, <2>3, <3>2 DEF Sends
    <3> QED BY <1>1, <1>2, <3>3, SingleCausal
  <2>4. CASE /\ \E k \in {0, 1} : Lands(Append(pending, m), Len(pending) + k)
             /\ pending' = <<>> /\ UNCHANGED accepted
    <3>1. Sends(<<m>>)
      BY <1>1, <2>4, RefusedSends DEF Lands
    <3> QED BY <1>1, <1>2, <3>1, SingleCausal
  <2> QED BY <2>1, <2>2, <2>3, <2>4 DEF CriticalMsg
<1>7. CASE direct
  <2>1. DirectMsg(m)
    BY <1>7 DEF Push
  <2>2. /\ pending = <<>> /\ pending' = <<>> /\ Append(pending, m) = <<m>>
        /\ Len(pending) = 0 /\ Len(<<m>>) = 1 /\ pending \o <<m>> = <<m>>
    <3>1. pending = <<>> /\ pending' = pending
      BY <1>1, <1>7, <2>1 DEF DirectMsg
    <3>2. <<>> \o <<m>> = <<m>>
      BY <1>3, ConcatEmptySeq
    <3> QED BY <1>4, <3>1, <3>2, ShortFacts
  <2>3. CASE WriteOk(<<m>>) /\ accepted' = Append(accepted, m)
    <3>1. UNCHANGED faults /\ wire' = wire \o <<m>>
      BY <2>3 DEF WriteOk
    <3>2. SubSeq(<<m>>, 1, Len(<<m>>)) = <<m>>
      BY <1>3, SubSeqFull
    <3>3. /\ wire' = wire \o SubSeq(pending \o <<m>>, 1, Len(pending \o <<m>>))
          /\ Len(pending \o <<m>>) \in 0..Len(pending \o <<m>>)
      BY <2>2, <3>1, <3>2
    <3>4. Sends(<<m>>)
      BY <1>4, <2>2, <2>3, <3>3 DEF Sends
    <3> QED BY <1>1, <1>2, <3>4, SingleCausal
  <2>4. CASE WriteErr(<<m>>) /\ UNCHANGED accepted
    <3>1. PICK k \in 0..Len(<<m>>) : wire' = wire \o SubSeq(<<m>>, 1, k)
      BY <2>4 DEF WriteErr, Lands
    <3>2. k \in {0, 1} /\ Len(pending) + k = k
      BY <2>2, <3>1
    <3>3. wire' = wire \o SubSeq(Append(pending, m), 1, Len(pending) + k)
      BY <2>2, <3>1, <3>2
    <3>4. Sends(<<m>>)
      BY <1>1, <2>2, <2>4, <3>2, <3>3, RefusedSends
    <3> QED BY <1>1, <1>2, <3>4, SingleCausal
  <2> QED BY <2>1, <2>3, <2>4 DEF DirectMsg
<1> QED BY <1>5, <1>6, <1>7

(* A push whose message does not serialize.                                *)
LEMMA RejectedCausal ==
  ASSUME IInv, IInv', CausalInv, Ready, NEW c \in BOOLEAN, RejectedPush(c)
  PROVE  CausalInv'
<1>1. /\ TypeOK /\ TypeOK' /\ last # "DropErr" /\ batch = <<>> /\ pushed \in Nat
  BY DEF IInv, TypeOK, WriterInv, Ready
<1>2. pushed' = pushed + 1 /\ batch' = <<>> /\ accepted' = accepted
  BY <1>1 DEF RejectedPush, control
<1>3. \/ FlushOk(pending, pendingLen) \/ FlushErr(pending, pendingLen)
      \/ UNCHANGED <<wire, pending>>
  BY DEF RejectedPush
<1>4. Sends(<<>>)
  BY <1>1, <1>2, <1>3, QuietSends
<1>5. pushed <= pushed'
  BY <1>1, <1>2
<1> QED BY <1>1, <1>2, <1>4, <1>5, QuietCausal

(* Flush, recovery and drop.                                               *)
LEMMA FinishCausal ==
  ASSUME IInv, IInv', CausalInv, Finish
  PROVE  CausalInv'
<1>1. /\ TypeOK /\ TypeOK' /\ last # "DropErr" /\ batch = <<>> /\ pushed \in Nat
      /\ pending \in Seq(Msg)
  BY DEF IInv, TypeOK, WriterInv, Ready, Finish
<1>2. pushed' = pushed /\ batch' = <<>> /\ accepted' = accepted
  BY <1>1 DEF Finish, ExplicitFlush, IntoInner, DropWriter, control
<1>3. pushed <= pushed'
  BY <1>1, <1>2
<1>4. CASE FlushOk(pending, pendingLen) \/ FlushErr(pending, pendingLen)
  <2>1. Sends(<<>>)
    BY <1>1, <1>2, <1>4, QuietSends
  <2> QED BY <1>1, <1>2, <1>3, <2>1, QuietCausal
<1>5. CASE WriteErr(pending) /\ pending' = <<>> /\ last' = "DropErr"
  <2>1. pending \o <<>> = pending
    BY <1>1, ConcatEmptySeq
  <2>2. PICK k \in 0..Len(pending) : wire' = wire \o SubSeq(pending, 1, k)
    BY <1>5 DEF WriteErr, Lands
  <2>3. Sends(<<>>)
    BY <1>2, <1>5, <2>1, <2>2 DEF Sends
  <2> QED BY <1>1, <1>2, <1>3, <2>3, QuietCausal
<1> QED BY <1>4, <1>5 DEF Finish, ExplicitFlush, FlushNow, IntoInner, DropWriter

(* The numbers of the frames of a batch.                                   *)
LEMMA FrameNumbers ==
  ASSUME TypeOK, NEW n \in Nat
  PROVE  /\ Frames(n) \in Seq(Msg) /\ Len(Frames(n)) = n /\ Ordered(Frames(n))
         /\ \A i \in 1..n : Frames(n)[i].id = pushed + i
<1>1. Frames(n) \in Seq(Msg) /\ Len(Frames(n)) = n /\ pushed \in Nat
  BY FramesFacts DEF TypeOK
<1>2. \A i \in 1..n : Frames(n)[i].id = pushed + i
  BY DEF Frames, GamepadFrame, Message
<1>3. Ordered(Frames(n))
  BY <1>1, <1>2 DEF Ordered
<1> QED BY <1>1, <1>2, <1>3

(* Cutting the first k frames off a running batch.                         *)
LEMMA CutNumbers ==
  ASSUME TypeOK, CausalInv, NEW k \in 1..Len(batch)
  PROVE  /\ SubSeq(batch, 1, k) \in Seq(Msg) /\ Ordered(SubSeq(batch, 1, k))
         /\ Above(SubSeq(batch, 1, k), fresh)
         /\ Below(SubSeq(batch, 1, k), fresh + k)
         /\ LET b == SubSeq(batch, k + 1, Len(batch))
            IN  /\ b \in Seq(Msg) /\ Len(b) = Len(batch) - k
                /\ \A i \in 1..Len(b) : b[i].id = (pushed - Len(b)) + i
<1>1. /\ batch \in Seq(Msg) /\ pushed \in Nat /\ Len(batch) \in Nat
      /\ \A i \in 1..Len(batch) : batch[i] \in Msg
      /\ \A i \in 1..Len(batch) : batch[i].id = (pushed - Len(batch)) + i
  BY LenProperties, ElementOfSeq DEF TypeOK, CausalInv
<1> DEFINE c == SubSeq(batch, 1, k)
           b == SubSeq(batch, k + 1, Len(batch))
<1>2. /\ c \in Seq(Msg) /\ Len(c) = k
      /\ b \in Seq(Msg) /\ Len(b) = Len(batch) - k
  BY <1>1, SplitFacts
<1>3. \A i \in 1..k : c[i] = batch[i]
  BY <1>1, SubSeqProperties
<1>4. \A i \in 1..(Len(batch) - k) : b[i] = batch[k + i]
  <2>1. \A i \in (k + 1)..Len(batch) : batch[i] \in Msg
    BY <1>1
  <2>2. k + 1 \in Int
    BY <1>1
  <2>3. \A i \in 1..((Len(batch) - (k + 1)) + 1) : b[i] = batch[((k + 1) + i) - 1]
    BY <1>1, <2>1, <2>2, SubSeqProperties
  <2> QED BY <1>1, <2>3
<1> HIDE DEF c, b
<1>5. \A i \in 1..k : c[i].id = (pushed - Len(batch)) + i
  BY <1>1, <1>3, SMTT(30)
<1>6. \A i \in 1..Len(b) : b[i].id = (pushed - Len(b)) + i
  <2>1. SUFFICES ASSUME NEW i \in 1..Len(b) PROVE b[i].id = (pushed - Len(b)) + i
    OBVIOUS
  <2>2. i \in 1..(Len(batch) - k) /\ k + i \in 1..Len(batch)
    BY <1>1, <1>2, <2>1
  <2>3. b[i].id = (pushed - Len(batch)) + (k + i)
    BY <1>1, <1>4, <2>2
  <2> QED BY <1>1, <1>2, <2>2, <2>3
<1>7. Ordered(c) /\ Above(c, fresh) /\ Below(c, fresh + k)
  BY <1>1, <1>2, <1>5 DEF Ordered, Above, Below, fresh
<1> QED BY <1>2, <1>6, <1>7 DEF c, b

(* Starting a batch: buffered at once, or handed to the loop.              *)
LEMMA PushBatchCausal ==
  ASSUME IInv, IInv', CausalInv, Ready, NEW n \in Nat,
         BatchFits(n) \/ BatchBegin(n)
  PROVE  CausalInv'
<1>1. /\ TypeOK /\ TypeOK' /\ last # "DropErr" /\ batch = <<>> /\ pushed \in Nat
      /\ Len(batch) = 0 /\ accepted \in Seq(Msg)
  BY DEF IInv, TypeOK, WriterInv, Ready
<1>2. /\ Frames(n) \in Seq(Msg) /\ Len(Frames(n)) = n /\ Ordered(Frames(n))
      /\ \A i \in 1..n : Frames(n)[i].id = pushed + i
  BY <1>1, FrameNumbers
<1>3. CASE BatchFits(n)
  <2> DEFINE t == Frames(n)
             b == pendingLen + n * GamepadBytes
  <2>1. /\ accepted' = accepted \o t /\ pushed' = pushed + n /\ batch' = <<>>
        /\ FlushOk(pending \o t, b) \/ FlushErr(pending \o t, b)
             \/ Keep(pending \o t, b)
    BY <1>1, <1>3 DEF BatchFits, FlushNow, control
  <2> HIDE DEF t, b
  <2>2. Sends(t)
    BY <1>1, <1>2, <2>1, BufferSends DEF t
  <2>3. Numbered(t)
    <3>1. \A i \in 1..n : pushed < pushed + i /\ pushed + i <= pushed + n
      BY <1>1
    <3>2. pushed <= pushed'
      BY <1>1, <2>1
    <3>3. \A i \in 1..Len(t) : pushed < t[i].id /\ t[i].id <= pushed'
      BY <1>2, <2>1, <3>1 DEF t
    <3> QED BY <1>1, <1>2, <2>1, <3>2, <3>3, CallNumbers DEF t
  <2> QED BY <1>1, <1>2, <2>2, <2>3, SendsKeepsCausal DEF t
<1>4. CASE BatchBegin(n)
  <2>1. /\ UNCHANGED <<wire, pending, accepted>> /\ pushed' = pushed + n
        /\ batch' = Frames(n)
    BY <1>4 DEF BatchBegin
  <2>2. Sends(<<>>)
    BY <1>1, <2>1, QuietSends
  <2>3. /\ fresh = pushed + 1 /\ fresh' = pushed + 1
        /\ pushed' - Len(batch') = pushed
    BY <1>1, <1>2, <2>1 DEF fresh
  <2>4. \A i \in 1..Len(batch') : batch'[i].id = (pushed' - Len(batch')) + i
    BY <1>2, <2>1, <2>3
  <2>5. fresh <= fresh'
    BY <1>1, <2>3
  <2>6. Numbered(<<>>)
    BY <2>4, <2>5, ShortOrdered DEF Numbered
  <2> QED BY <1>1, <2>2, <2>6, ShortOrdered, SendsKeepsCausal
<1> QED BY <1>3, <1>4

(* The end of a batch, however it is reached.                              *)
LEMMA LoopEndNumbers ==
  ASSUME TypeOK, TypeOK', NEW k \in 0..Len(batch), pushed' = pushed,
         batch' = <<>>
  PROVE  fresh + k <= fresh' /\ 1..Len(batch') = {}
<1>1. pushed \in Nat /\ batch \in Seq(Msg) /\ Len(batch) \in Nat
  BY LenProperties DEF TypeOK
<1>2. Len(batch') = 0
  OBVIOUS
<1>3. fresh = (pushed - Len(batch)) + 1 /\ fresh' = pushed + 1
  BY <1>1, <1>2 DEF fresh
<1>4. fresh + k <= fresh'
  BY <1>1, <1>3
<1>5. 1..0 = {}
  OBVIOUS
<1> QED BY <1>2, <1>4, <1>5, Zenon

(* One frame of the coalescing loop.                                       *)
LEMMA BatchFrameCausal ==
  ASSUME IInv, IInv', CausalInv, BatchFrame
  PROVE  CausalInv'
<1>1. /\ TypeOK /\ TypeOK' /\ last # "DropErr" /\ batch # <<>>
      /\ pushed \in Nat /\ batch \in Seq(Msg) /\ pending \in Seq(Msg)
      /\ accepted \in Seq(Msg)
  BY DEF IInv, TypeOK, WriterInv, BatchFrame
<1>2. Len(batch) \in Nat /\ 1 \in 1..Len(batch)
  BY <1>1, LenProperties, EmptySeq
<1> DEFINE t == <<Head(batch)>>
           n == pendingLen + GamepadBytes
<1>3. Head(batch) \in Msg /\ Head(batch) = batch[1]
  BY <1>1, <1>2, ElementOfSeq
<1>4. t \in Seq(Msg) /\ t = SubSeq(batch, 1, 1)
  <2>1. t \in Seq(Msg) /\ t = <<batch[1]>>
    BY <1>3, ShortFacts
  <2>2. SubSeq(batch, 1, 1) = <<batch[1]>>
    <3> DEFINE c == SubSeq(batch, 1, 1)
               d == <<batch[1]>>
    <3>1. c \in Seq(Msg) /\ Len(c) = 1
      BY <1>1, <1>2, SplitFacts
    <3>2. c[1] = batch[1]
      <4>1. \A i \in 1..1 : batch[i] \in Msg
        BY <1>3
      <4>2. \A i \in 1..((1 - 1) + 1) : c[i] = batch[(1 + i) - 1]
        BY <4>1, SubSeqProperties
      <4> QED BY <4>2
    <3>3. d \in Seq(Msg) /\ Len(d) = 1 /\ d[1] = batch[1]
      BY <1>3, ShortFacts
    <3> HIDE DEF c, d
    <3>4. \A i \in 1..Len(c) : c[i] = d[i]
      BY <3>1, <3>2, <3>3
    <3>5. c = d
      BY <3>1, <3>3, <3>4, SeqEqual
    <3> QED BY <3>5 DEF c, d
  <2> QED BY <2>1, <2>2
<1>5. /\ accepted' = accepted \o t /\ pushed' = pushed
      /\ Append(pending, Head(batch)) = pending \o t
  BY <1>1, <1>3, AppendFacts DEF BatchFrame
<1>6. FlushOk(pending \o t, n) \/ FlushErr(pending \o t, n) \/ Keep(pending \o t, n)
  BY <1>5 DEF BatchFrame
<1>7. \/ batch' = Tail(batch) \/ batch' = <<>>
  BY DEF BatchFrame, BatchReturn
<1> HIDE DEF t, n
<1>8. Sends(t)
  BY <1>1, <1>4, <1>5, <1>6, BufferSends
<1>9. Tail(batch) = SubSeq(batch, 1 + 1, Len(batch))
  BY <1>1, <1>2
<1>10. /\ Ordered(t) /\ Above(t, fresh) /\ Below(t, fresh + 1)
       /\ Tail(batch) \in Seq(Msg) /\ Len(Tail(batch)) = Len(batch) - 1
       /\ \A i \in 1..Len(Tail(batch)) :
            Tail(batch)[i].id = (pushed - Len(Tail(batch))) + i
  BY <1>1, <1>2, <1>4, <1>9, CutNumbers
<1>11. fresh \in Int /\ fresh = (pushed - Len(batch)) + 1
  BY <1>1, <1>2 DEF fresh
<1>12. CASE batch' = Tail(batch)
  <2>1. fresh' = fresh + 1
    BY <1>1, <1>2, <1>5, <1>10, <1>11, <1>12 DEF fresh
  <2>2. fresh <= fresh'
    BY <1>11, <2>1
  <2>3. Numbered(t)
    BY <1>5, <1>10, <1>12, <2>1, <2>2 DEF Numbered
  <2> QED BY <1>1, <1>4, <1>8, <2>3, SendsKeepsCausal
<1>13. CASE batch' = <<>>
  <2>1. fresh + 1 <= fresh' /\ 1..Len(batch') = {}
    <3>1. 1 \in 0..Len(batch)
      BY <1>2
    <3> QED BY <1>1, <1>5, <1>13, <3>1, LoopEndNumbers
  <2>2. fresh' \in Int
    <3>1. Len(batch') = 0
      BY <1>13
    <3> QED BY <1>1, <1>5, <3>1 DEF fresh
  <2>3. fresh <= fresh'
    BY <1>11, <2>1, <2>2
  <2>4. Below(t, fresh')
    <3>1. fresh + 1 \in Int
      BY <1>11
    <3> QED BY <1>4, <1>10, <2>1, <2>2, <3>1, BelowGrows
  <2>5. Numbered(t)
    BY <1>10, <2>1, <2>3, <2>4 DEF Numbered
  <2> QED BY <1>1, <1>4, <1>8, <2>5, SendsKeepsCausal
<1> QED BY <1>7, <1>12, <1>13

(* One chunk of the direct loop.                                           *)
LEMMA BatchChunkCausal ==
  ASSUME IInv, IInv', CausalInv, BatchChunk
  PROVE  CausalInv'
<1>1. /\ TypeOK /\ TypeOK' /\ last # "DropErr" /\ batch # <<>> /\ pending = <<>>
      /\ pushed \in Nat /\ batch \in Seq(Msg) /\ Len(batch) \in Nat
      /\ Len(pending) = 0
  BY LenProperties DEF IInv, TypeOK, WriterInv, BatchChunk
<1>2. PICK k \in 1..Len(batch) : Chunk = SubSeq(batch, 1, k)
  <2>1. Len(batch) > 0
    BY <1>1, EmptySeq
  <2> QED BY <1>1, <2>1, SizeAssumption DEF Chunk
<1>3. /\ Chunk \in Seq(Msg) /\ Ordered(Chunk) /\ Above(Chunk, fresh)
      /\ Below(Chunk, fresh + k) /\ Len(Chunk) = k
  BY <1>1, <1>2, CutNumbers, SplitFacts
<1>4. pending \o Chunk = Chunk /\ SubSeq(Chunk, 1, Len(Chunk)) = Chunk
  BY <1>1, <1>3, ConcatEmptySeq, SubSeqFull
<1>5. pending' = <<>> /\ pushed' = pushed
  BY <1>1 DEF BatchChunk, counters
<1>6. fresh \in Int /\ fresh + k \in Int
  BY <1>1 DEF fresh
<1>7. CASE /\ WriteOk(Chunk) /\ accepted' = accepted \o Chunk
           /\ batch' = SubSeq(batch, Len(Chunk) + 1, Len(batch))
  <2>1. /\ wire' = wire \o SubSeq(Chunk, 1, Len(Chunk))
        /\ Len(Chunk) \in 0..Len(Chunk)
    <3>1. wire' = wire \o Chunk
      BY <1>7 DEF WriteOk
    <3>2. k \in 0..k
      BY <1>1
    <3> QED BY <1>3, <1>4, <3>1, <3>2, Zenon
  <2>2. Sends(Chunk)
    BY <1>4, <1>5, <1>7, <2>1 DEF Sends
  <2>3. batch' = SubSeq(batch, k + 1, Len(batch))
    BY <1>3, <1>7
  <2>4. /\ Len(batch') = Len(batch) - k
        /\ \A i \in 1..Len(batch') : batch'[i].id = (pushed' - Len(batch')) + i
    <3> DEFINE b == SubSeq(batch, k + 1, Len(batch))
    <3>1. /\ Len(b) = Len(batch) - k
          /\ \A i \in 1..Len(b) : b[i].id = (pushed - Len(b)) + i
      BY <1>1, CutNumbers
    <3> HIDE DEF b
    <3>2. batch' = b
      BY <2>3 DEF b
    <3> QED BY <1>5, <3>1, <3>2
  <2>5. fresh' = fresh + k
    BY <1>1, <1>5, <2>4 DEF fresh
  <2>6. fresh <= fresh'
    BY <1>6, <2>5
  <2>7. Numbered(Chunk)
    BY <1>3, <2>4, <2>5, <2>6 DEF Numbered
  <2> QED BY <1>1, <1>3, <2>2, <2>7, SendsKeepsCausal
<1>8. CASE WriteErr(Chunk) /\ BatchReturn /\ UNCHANGED accepted
  <2>1. batch' = <<>> /\ Len(batch') = 0
    BY <1>8 DEF BatchReturn
  <2>2. PICK l \in 0..Len(Chunk) : wire' = wire \o SubSeq(Chunk, 1, l)
    BY <1>8 DEF WriteErr, Lands
  <2>3. Len(pending) <= l
    BY <1>1, <2>2
  <2>4. Sends(Chunk)
    BY <1>4, <1>5, <1>8, <2>2, <2>3 DEF Sends
  <2>5. fresh + k <= fresh' /\ 1..Len(batch') = {}
    <3>1. k \in 0..Len(batch)
      BY <1>1
    <3> QED BY <1>1, <1>5, <2>1, <3>1, LoopEndNumbers
  <2>6. fresh' \in Int
    BY <1>1, <1>5, <2>1 DEF fresh
  <2>7. fresh <= fresh'
    BY <1>6, <2>5, <2>6
  <2>8. Below(Chunk, fresh')
    BY <1>3, <1>6, <2>5, <2>6, BelowGrows
  <2>9. Numbered(Chunk)
    BY <1>3, <2>5, <2>7, <2>8 DEF Numbered
  <2> QED BY <1>1, <1>3, <2>4, <2>9, SendsKeepsCausal
<1> QED BY <1>7, <1>8 DEF BatchChunk

(* The end of either loop.                                                 *)
LEMMA LoopEndCausal ==
  ASSUME IInv, IInv', CausalInv, BatchEnd \/ ChunksEnd
  PROVE  CausalInv'
<1>1. /\ TypeOK /\ TypeOK' /\ last # "DropErr" /\ batch = <<>> /\ pushed \in Nat
  BY DEF IInv, TypeOK, WriterInv, BatchEnd, ChunksEnd
<1>2. pushed' = pushed /\ batch' = <<>> /\ accepted' = accepted
  BY DEF BatchEnd, ChunksEnd, BatchReturn
<1>3. \/ FlushOk(pending, pendingLen) \/ FlushErr(pending, pendingLen)
      \/ UNCHANGED <<wire, pending>>
  BY DEF BatchEnd, ChunksEnd, FlushNow, Keep
<1>4. Sends(<<>>)
  BY <1>1, <1>2, <1>3, QuietSends
<1>5. pushed <= pushed'
  BY <1>1, <1>2
<1> QED BY <1>1, <1>2, <1>4, <1>5, QuietCausal

(* A new writer has nothing to reorder.                                    *)
LEMMA InitCausal == Init => CausalInv
<1> SUFFICES ASSUME Init PROVE CausalInv
  OBVIOUS
<1>1. /\ wire = <<>> /\ accepted = <<>> /\ pending = <<>> /\ batch = <<>>
  BY DEF Init
<1>2. 1..Len(<<>>) = {} /\ <<>> \in Seq(Msg)
  OBVIOUS
<1>3. Ordered(<<>>) /\ Below(<<>>, fresh) /\ CausalOn(<<>>, <<>>)
  BY <1>2 DEF Ordered, Below, CausalOn
<1>4. Backed(<<>>, <<>>, <<>>)
  BY <1>2, AllBacked
<1> QED BY <1>1, <1>2, <1>3, <1>4 DEF CausalInv

(* Every step keeps the order.                                             *)
LEMMA StepCausal == IInv /\ IInv' /\ CausalInv /\ [Next]_vars => CausalInv'
<1> SUFFICES ASSUME IInv, IInv', CausalInv, [Next]_vars PROVE CausalInv'
  OBVIOUS
<1>1. pushed \in Nat
  BY DEF IInv, TypeOK
<1>2. CASE PushAny
  <2>1. PICK s \in Sizes, c \in BOOLEAN : Push(Message(pushed + 1, s, c))
    BY <1>2 DEF PushAny
  <2> DEFINE m == Message(pushed + 1, s, c)
  <2>2. m \in Msg /\ m.id = pushed + 1 /\ Ready
    BY <1>1, <1>2, SizeAssumption DEF Message, Msg, PushAny
  <2> HIDE DEF m
  <2> QED BY <2>1, <2>2, PushCausal DEF m
<1>3. CASE PushGamepadFrame
  <2> DEFINE m == GamepadFrame(pushed + 1)
  <2>1. m \in Msg /\ m.id = pushed + 1
    BY <1>1, SizeAssumption DEF GamepadFrame, Message, Msg
  <2>2. Push(m) /\ Ready
    BY <1>3 DEF PushGamepadFrame
  <2> HIDE DEF m
  <2> QED BY <2>1, <2>2, PushCausal
<1>4. CASE PushRejected
  BY <1>4, RejectedCausal DEF PushRejected
<1>5. CASE PushBatch
  <2>1. PICK n \in 2..MaxBatch : BatchFits(n) \/ BatchBegin(n)
    BY <1>5 DEF PushBatch
  <2>2. n \in Nat /\ Ready
    BY <1>5, BoundAssumption DEF PushBatch
  <2> QED BY <2>1, <2>2, PushBatchCausal
<1>6. CASE BatchLoop
  BY <1>6, BatchFrameCausal, BatchChunkCausal, LoopEndCausal DEF BatchLoop
<1>7. CASE Finish
  BY <1>7, FinishCausal
<1>8. CASE UNCHANGED vars
  <2>1. UNCHANGED <<wire, accepted, pending, batch, pushed, last>>
    BY <1>8 DEF vars
  <2>2. fresh' = fresh
    BY <2>1 DEF fresh
  <2> QED BY <2>1, <2>2 DEF CausalInv
<1> QED BY <1>2, <1>3, <1>4, <1>5, <1>6, <1>7, <1>8 DEF Next

(* Retries after transport errors duplicate messages but never let one     *)
(* overtake a message accepted before it, whatever prefix of a failed      *)
(* write arrived and whatever the caller does next.                        *)
THEOREM WriterCausalOrder == Spec => []CausalOrder
<1>1. Init => IInv /\ CausalInv
  BY InitInv, InitCausal
<1>2. (IInv /\ CausalInv) /\ [Next]_vars => (IInv /\ CausalInv)'
  BY StepInv, StepCausal
<1>3. CausalInv => CausalOrder
  BY DEF CausalInv, CausalOn, CausalOrder
<1> QED BY <1>1, <1>2, <1>3, PTL DEF Spec
=============================================================================
