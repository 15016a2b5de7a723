-------------------------- MODULE CoalescingWriter --------------------------
(***************************************************************************)
(* The write path of android-hid-connect (src/coalesce.rs): a buffer in    *)
(* front of a byte transport.  Ordinary control messages wait in `pending` *)
(* until the byte limit is reached, the time window has elapsed or somebody*)
(* flushes; UHID_CREATE and UHID_DESTROY flush the buffer and go out at    *)
(* once; in direct mode every message goes out at once.                    *)
(*                                                                         *)
(* The writer is owned by one caller (&mut self), so a call is one step,   *)
(* except a batch, which is one step per frame (or per chunk in direct     *)
(* mode) because every write inside it may fail.  The clock is abstracted: *)
(* whether the window has elapsed at a check is a free choice.             *)
(*                                                                         *)
(* The transport (external: any TransportWrite) either takes a buffer, or  *)
(* reports an error after some prefix of it - perhaps nothing, perhaps all *)
(* of it, when only the trailing flush() failed - has reached the wire.    *)
(* A frame cut in the middle counts as not having reached it.              *)
(***************************************************************************)
EXTENDS Naturals, Sequences, Functions

CONSTANTS
  HardLimit,      \* hard_limit: bytes that force a flush
  Modes,          \* values of `direct` the constructors may choose
  GamepadBytes,   \* GAMEPAD_REPORT_SIZE + 5, one serialized gamepad frame
  Sizes,          \* sizes in bytes of the other serialized messages
  ChunkFrames,    \* DIRECT_GAMEPAD_BATCH_FRAMES
  MaxPushed,      \* bound: messages handed to the writer
  MaxBatch,       \* bound: frames of one batch call
  MaxFaults       \* bound: transport errors

ASSUME LimitAssumption ==
  /\ HardLimit \in Nat
  /\ Modes \subseteq BOOLEAN
ASSUME SizeAssumption ==
  /\ GamepadBytes \in Nat \ {0}
  /\ Sizes \subseteq Nat \ {0}
  /\ ChunkFrames \in Nat \ {0}
ASSUME BoundAssumption ==
  MaxPushed \in Nat /\ MaxBatch \in Nat /\ MaxFaults \in Nat

VARIABLES
  wire,        \* messages that reached the transport, in order
  pending,     \* messages in the buffer (Vec<u8>, kept as messages)
  pendingLen,  \* pending.len(), bytes
  pushed,      \* statistics: messages pushed
  written,     \* statistics: bytes written
  flushes,     \* statistics: transport writes
  last,        \* what the last call returned, "Err" for an error
  call,        \* "idle", or the batch loop that is running
  batch,       \* the frames that loop has not handled yet
  serialized,  \* bytes the running direct batch has written
  direct,      \* direct: hard_limit and window were given as zero
  phase,       \* "live", "dropping" (into_inner failed), "recovered", "dead"
  faults,      \* history: transport errors so far
  accepted     \* history: messages buffered or handed to a write that
               \* succeeded, in order

counters == <<pushed, written, flushes>>
control  == <<call, batch, serialized, direct, phase>>
vars == <<wire, pending, pendingLen, pushed, written, flushes, last, call,
          batch, serialized, direct, phase, faults, accepted>>

\* A serialized control message: the id tells equal messages apart.
Msg == [id : Nat, size : Nat, critical : BOOLEAN]
Message(i, s, c) == [id |-> i, size |-> s, critical |-> c]
GamepadFrame(i)  == Message(i, GamepadBytes, FALSE)

Init ==
  /\ wire = <<>> /\ pending = <<>> /\ pendingLen = 0
  /\ pushed = 0 /\ written = 0 /\ flushes = 0
  /\ last = "New"
  /\ call = "idle" /\ batch = <<>> /\ serialized = 0 /\ phase = "live"
  /\ direct \in Modes
  /\ faults = 0 /\ accepted = <<>>

-----------------------------------------------------------------------------
(* The transport.                                                          *)

\* The first k messages of buf arrive.
Lands(buf, k) == wire' = wire \o SubSeq(buf, 1, k)

WriteOk(buf) == /\ wire' = wire \o buf
                /\ UNCHANGED faults

WriteErr(buf) == /\ faults < MaxFaults
                 /\ faults' = faults + 1
                 /\ \E k \in 0..Len(buf) : Lands(buf, k)

-----------------------------------------------------------------------------
(* The buffer.                                                             *)

\* flush_now when the buffer holds p, n bytes: the buffer is emptied only
\* after both write_all and flush succeeded.
FlushOk(p, n) ==
  /\ WriteOk(p)
  /\ pending' = <<>> /\ pendingLen' = 0
  /\ written' = written + n
  /\ flushes' = IF p = <<>> THEN flushes ELSE flushes + 1

\* Mutant: the buffer is cleared before the write is known to have succeeded.
FlushErrClears(p, n) ==
  /\ p # <<>>
  /\ WriteErr(p)
  /\ pending' = <<>> /\ pendingLen' = 0
  /\ UNCHANGED <<written, flushes>>

FlushErr(p, n) ==
  /\ p # <<>>
  /\ WriteErr(p)
  /\ pending' = p /\ pendingLen' = n
  /\ UNCHANGED <<written, flushes>>

\* Mutant: the error of a flush is swallowed.
FlushNowSwallows(p, n, reason) ==
  (FlushOk(p, n) \/ FlushErr(p, n)) /\ last' = reason

FlushNow(p, n, reason) ==
  \/ FlushOk(p, n)  /\ last' = reason
  \/ FlushErr(p, n) /\ last' = "Err"

\* The buffer becomes p and nothing is written.
Keep(p, n) ==
  /\ pending' = p /\ pendingLen' = n
  /\ UNCHANGED <<wire, written, flushes, faults>>

\* A caller may start a call.
Ready == phase = "live" /\ call = "idle"

\* Mutant: the message is put in front of the buffer.
BufferMsgFront(m) ==
  LET p == <<m>> \o pending
      n == pendingLen + m.size
  IN /\ pushed' = pushed + 1
     /\ accepted' = Append(accepted, m)
     /\ \/ n >= HardLimit /\ FlushNow(p, n, "Full")
        \/ n < HardLimit  /\ Keep(p, n) /\ last' = "Pending"
     /\ UNCHANGED control

\* The tail of every buffered push: append, then flush when the limit is
\* reached or the window has elapsed, else report Pending.
BufferMsg(m) ==
  LET p == Append(pending, m)
      n == pendingLen + m.size
  IN /\ pushed' = pushed + 1
     /\ accepted' = Append(accepted, m)
     /\ \/ n >= HardLimit /\ FlushNow(p, n, "Full")
        \/ n < HardLimit  /\ FlushNow(p, n, "Window")
        \/ n < HardLimit  /\ Keep(p, n) /\ last' = "Pending"
     /\ UNCHANGED control

\* Mutant: a critical message overtakes the buffer.
CriticalOvertakes(m) ==
  /\ pushed' = pushed + 1
  /\ WriteOk(<<m>>)
  /\ written' = written + m.size
  /\ flushes' = flushes + 1
  /\ accepted' = Append(accepted, m)
  /\ last' = "Pending"
  /\ UNCHANGED <<pending, pendingLen, control>>

\* A critical message: flush the buffer, then write the message itself.  It is
\* never buffered, so an error loses it (unless it landed all the same).
CriticalMsg(m) ==
  LET clears == IF pending = <<>> THEN 0 ELSE 1
  IN /\ pushed' = pushed + 1
     /\ \/ /\ FlushErr(pending, pendingLen)
           /\ last' = "Err"
           /\ UNCHANGED accepted
        \/ /\ WriteOk(Append(pending, m))
           /\ pending' = <<>> /\ pendingLen' = 0
           /\ written' = written + pendingLen + m.size
           /\ flushes' = flushes + clears + 1
           /\ accepted' = Append(accepted, m)
           /\ last' = "Critical"
        \/ /\ faults < MaxFaults
           /\ faults' = faults + 1
           /\ \E k \in {0, 1} : Lands(Append(pending, m), Len(pending) + k)
           /\ pending' = <<>> /\ pendingLen' = 0
           /\ written' = written + pendingLen
           /\ flushes' = flushes + clears
           /\ last' = "Err"
           /\ UNCHANGED accepted
     /\ UNCHANGED control

\* push_direct and the direct branches of the single-frame pushes.
DirectMsg(m) ==
  /\ pushed' = pushed + 1
  /\ UNCHANGED <<pending, pendingLen, control>>
  /\ \/ /\ WriteOk(<<m>>)
        /\ written' = written + m.size
        /\ flushes' = flushes + 1
        /\ accepted' = Append(accepted, m)
        /\ last' = IF m.critical THEN "Critical" ELSE "Window"
     \/ /\ WriteErr(<<m>>)
        /\ last' = "Err"
        /\ UNCHANGED <<written, flushes, accepted>>

\* CoalescingWriter::push.
Push(m) ==
  IF direct THEN DirectMsg(m)
  ELSE IF m.critical THEN CriticalMsg(m) ELSE BufferMsg(m)

\* A message that does not serialize (payload too large, name too long): the
\* push is counted; on the coalescing path of a critical message the buffer
\* has been flushed before the error is found.
RejectedPush(critical) ==
  /\ pushed' = pushed + 1
  /\ last' = "Err"
  /\ IF critical /\ ~direct
       THEN FlushOk(pending, pendingLen) \/ FlushErr(pending, pendingLen)
       ELSE UNCHANGED <<wire, pending, pendingLen, written, flushes, faults>>
  /\ UNCHANGED <<accepted, control>>

-----------------------------------------------------------------------------
(* Batches of gamepad frames (two or more; a batch of one is a push).      *)

Frames(n) == [i \in 1..n |-> GamepadFrame(pushed + i)]

\* The whole batch fits under the limit: append it, check the window once.
BatchFits(n) ==
  LET p == pending \o Frames(n)
      b == pendingLen + n * GamepadBytes
  IN /\ ~direct
     /\ b <= HardLimit
     /\ pushed' = pushed + n
     /\ accepted' = accepted \o Frames(n)
     /\ \/ FlushNow(p, b, "Window")
        \/ Keep(p, b) /\ last' = "Pending"
     /\ UNCHANGED control

\* It does not fit, or the writer is direct: enter the loop.
BatchBegin(n) ==
  /\ direct \/ pendingLen + n * GamepadBytes > HardLimit
  /\ pushed' = pushed + n
  /\ call' = IF direct THEN "chunks" ELSE "frames"
  /\ batch' = Frames(n)
  /\ serialized' = 0
  /\ last' = "Pending"
  /\ UNCHANGED <<wire, pending, pendingLen, written, flushes, faults,
                 accepted, direct, phase>>

\* The loop returns early: the frames it has not reached are never pushed.
BatchReturn == call' = "idle" /\ batch' = <<>> /\ serialized' = 0

BatchFrame ==
  LET p == Append(pending, Head(batch))
      n == pendingLen + GamepadBytes
  IN /\ call = "frames" /\ batch # <<>>
     /\ accepted' = Append(accepted, Head(batch))
     /\ \/ /\ n >= HardLimit
           /\ FlushOk(p, n)
           /\ last' = "Full"
           /\ batch' = Tail(batch) /\ UNCHANGED <<call, serialized>>
        \/ /\ n >= HardLimit
           /\ FlushErr(p, n)
           /\ last' = "Err"
           /\ BatchReturn
        \/ /\ n < HardLimit
           /\ Keep(p, n)
           /\ batch' = Tail(batch) /\ UNCHANGED <<call, serialized, last>>
     /\ UNCHANGED <<pushed, direct, phase>>

\* After the last frame: one window check.
BatchEnd ==
  /\ call = "frames" /\ batch = <<>>
  /\ \/ pending # <<>> /\ FlushNow(pending, pendingLen, "Window")
     \/ Keep(pending, pendingLen) /\ UNCHANGED last
  /\ BatchReturn
  /\ UNCHANGED <<pushed, direct, phase, accepted>>

\* Direct mode: one write_all per chunk, statistics only at the end.
Chunk == SubSeq(batch, 1, IF Len(batch) < ChunkFrames THEN Len(batch)
                                                      ELSE ChunkFrames)

BatchChunk ==
  /\ call = "chunks" /\ batch # <<>>
  /\ \/ /\ WriteOk(Chunk)
        /\ accepted' = accepted \o Chunk
        /\ batch' = SubSeq(batch, Len(Chunk) + 1, Len(batch))
        /\ serialized' = serialized + Len(Chunk) * GamepadBytes
        /\ UNCHANGED <<call, last>>
     \/ /\ WriteErr(Chunk)
        /\ last' = "Err"
        /\ BatchReturn
        /\ UNCHANGED accepted
  /\ UNCHANGED <<pending, pendingLen, counters, direct, phase>>

ChunksEnd ==
  /\ call = "chunks" /\ batch = <<>>
  /\ \/ /\ written' = written + serialized
        /\ flushes' = flushes + 1
        /\ last' = "Window"
        /\ UNCHANGED faults
     \/ /\ faults < MaxFaults
        /\ faults' = faults + 1
        /\ last' = "Err"
        /\ UNCHANGED <<written, flushes>>
  /\ BatchReturn
  /\ UNCHANGED <<wire, pending, pendingLen, pushed, direct, phase, accepted>>

-----------------------------------------------------------------------------
(* Flush, recovery of the transport, drop.                                 *)

ExplicitFlush ==
  /\ FlushNow(pending, pendingLen, "Ok")
  /\ UNCHANGED <<pushed, accepted, control>>

\* into_inner consumes the writer: on an error the writer is dropped.
IntoInner ==
  /\ \/ FlushOk(pending, pendingLen)  /\ last' = "Ok"  /\ phase' = "recovered"
     \/ FlushErr(pending, pendingLen) /\ last' = "Err" /\ phase' = "dropping"
  /\ UNCHANGED <<pushed, accepted, call, batch, serialized, direct>>

\* Drop: one more flush whose error nobody sees; then the buffer is freed.
DropWriter ==
  /\ phase' = "dead"
  /\ \/ FlushOk(pending, pendingLen) /\ last' = "DropOk"
     \/ /\ pending # <<>>
        /\ WriteErr(pending)
        /\ pending' = <<>> /\ pendingLen' = 0
        /\ last' = "DropErr"
        /\ UNCHANGED <<written, flushes>>
  /\ UNCHANGED <<pushed, accepted, call, batch, serialized, direct>>
-----------------------------------------------------------------------------
(* The calls a session makes, in any order, while the bounds allow it.     *)

PushAny ==
  /\ Ready /\ pushed < MaxPushed
  /\ \E s \in Sizes, c \in BOOLEAN : Push(Message(pushed + 1, s, c))

PushGamepadFrame ==
  /\ Ready /\ pushed < MaxPushed
  /\ Push(GamepadFrame(pushed + 1))

PushRejected ==
  /\ Ready /\ pushed < MaxPushed
  /\ \E c \in BOOLEAN : RejectedPush(c)

PushBatch ==
  /\ Ready
  /\ \E n \in 2..MaxBatch : /\ pushed + n <= MaxPushed
                            /\ BatchFits(n) \/ BatchBegin(n)

BatchLoop == BatchFrame \/ BatchEnd \/ BatchChunk \/ ChunksEnd

Finish ==
  \/ Ready /\ ExplicitFlush
  \/ Ready /\ IntoInner
  \/ (Ready \/ phase = "dropping") /\ DropWriter

Next == PushAny \/ PushGamepadFrame \/ PushRejected \/ PushBatch
          \/ BatchLoop \/ Finish

Spec == Init /\ [][Next]_vars

-----------------------------------------------------------------------------
(* What must hold.                                                         *)

TypeOK ==
  /\ wire \in Seq(Msg) /\ pending \in Seq(Msg) /\ accepted \in Seq(Msg)
  /\ batch \in Seq(Msg)
  /\ pendingLen \in Nat /\ serialized \in Nat
  /\ pushed \in Nat /\ written \in Nat /\ flushes \in Nat /\ faults \in Nat
  /\ last \in {"New", "Pending", "Full", "Window", "Critical", "Ok", "Err",
                "DropOk", "DropErr"}
  /\ call \in {"idle", "frames", "chunks"}
  /\ phase \in {"live", "dropping", "recovered", "dead"}
  /\ direct \in BOOLEAN

(* flush_now clears the buffer only after the transport took it: a message *)
(* the writer has accepted is on the wire or still in the buffer, whatever *)
(* failed in between.  The one exception is the flush in Drop, whose error *)
(* is swallowed together with the buffer.                                  *)
NothingLost ==
  last # "DropErr" => Range(accepted) \subseteq Range(wire) \cup Range(pending)

(* While the transport works, coalescing is invisible: every message is    *)
(* delivered exactly once and in the order of the calls, critical messages *)
(* and batches included, and what is missing is exactly the buffer.        *)
ExactlyOnceInOrder == faults = 0 => wire \o pending = accepted

(* Retries duplicate but never reorder: a message is on the wire only      *)
(* after a copy of every message accepted before it.                       *)
CausalOrder ==
  \A i, j \in 1..Len(accepted) : \A y \in 1..Len(wire) :
    i < j /\ wire[y] = accepted[j] => \E x \in 1..y : wire[x] = accepted[i]

(* A call that reports a completed flush (Window, Critical, or Ok from     *)
(* flush_now and into_inner) has left nothing behind: everything accepted  *)
(* so far is on the wire.                                                  *)
FlushedMeansDelivered ==
  last \in {"Window", "Critical", "Ok"} => Range(accepted) \subseteq Range(wire)

(* The buffer stays within hard_limit while the transport works.  It may   *)
(* sit at exactly hard_limit: a batch that just fits is not flushed.       *)
BufferBounded == faults = 0 => pendingLen <= HardLimit

(* The coalescing ratio messages_per_flush never drops below one: every    *)
(* counted flush carried at least one message of its own.                  *)
RatioAtLeastOne == flushes <= pushed

(* The inductive invariant behind these.  A counted flush is paid for by   *)
(* a message that has left the buffer and the running batch; a call that   *)
(* reports a completed flush leaves the buffer empty; direct mode never    *)
(* uses the buffer.                                                        *)
WriterInv ==
  /\ direct => pending = <<>> /\ pendingLen = 0
  /\ call = "idle" => batch = <<>>
  /\ call = "frames" => ~direct /\ last \in {"Pending", "Full"}
  /\ call = "chunks" => direct /\ last = "Pending" /\ flushes < pushed
  /\ phase # "live" => call = "idle"
  /\ last = "DropErr" => phase = "dead"
  /\ last \in {"Window", "Critical", "Ok"} => pending = <<>>
  /\ flushes + Len(pending) + Len(batch) <= pushed
  /\ NothingLost
  /\ ExactlyOnceInOrder
  /\ BufferBounded
=============================================================================
