---------------------------- MODULE GamepadRing ----------------------------
(***************************************************************************)
(* GamepadFrameRing (src/gamepad_ring.rs): a lock-free ring between one    *)
(* producer and one consumer thread, at the grain of its atomic loads and  *)
(* stores.  head and tail are usize counters that wrap at Wrap (2^64 in    *)
(* the code); the slot of a counter value is its remainder by Capacity.    *)
(*                                                                         *)
(* The producer's Relaxed load of tail may return an old value, but never  *)
(* one older than it returned before.  The consumer's load of head pairs   *)
(* with the Release store of head: reading an old head is the same as      *)
(* having run earlier, so the current value is what the model reads.  len  *)
(* and is_empty only read, for diagnostics, and are left out.              *)
(***************************************************************************)
EXTENDS Naturals, Sequences

CONSTANTS
  Capacity,    \* RING_CAPACITY
  Wrap,        \* number of values of a usize
  PadFrames,      \* gamepad frames
  Uninit,      \* MaybeUninit::uninit()
  MaxPushes    \* bound: frames that enter the ring

ASSUME CapacityAssumption ==
  /\ Capacity \in Nat \ {0}
  /\ Wrap \in Nat
  /\ Capacity < Wrap
  /\ Wrap % Capacity = 0
ASSUME FrameAssumption == Uninit \notin PadFrames /\ MaxPushes \in Nat

VARIABLES
  head,      \* head, written by the producer
  tail,      \* tail, written by the consumer
  cells,     \* the field slots
  view,      \* the last value of tail the producer has read
  ppc,       \* producer: "idle", "write" the slot, "publish" head
  frame,     \* producer: the frame being pushed
  cpc,       \* consumer: "idle", "read" the slot, "publish" tail
  held,      \* consumer: the frame it read last
  sent,      \* history: frames pushed, in order
  got        \* history: frames popped, in order

producer == <<ppc, frame, view>>
consumer == <<cpc, held>>
ringVars == <<head, tail, cells, view, ppc, frame, cpc, held, sent, got>>

Counter == 0..(Wrap - 1)
Slot    == 0..(Capacity - 1)

\* wrapping_add(1), wrapping_sub and the index of a slot.
Inc(a)    == IF a = Wrap - 1 THEN 0 ELSE a + 1
Sub(a, b) == IF a >= b THEN a - b ELSE (a + Wrap) - b
Idx(a)    == a % Capacity

RingInit ==
  /\ head = 0 /\ tail = 0
  /\ cells = [i \in Slot |-> Uninit]
  /\ view = 0 /\ ppc = "idle" /\ frame = Uninit
  /\ cpc = "idle" /\ held = Uninit
  /\ sent = <<>> /\ got = <<>>

-----------------------------------------------------------------------------
(* push.                                                                   *)

\* What a Relaxed load of tail may return.
Loadable == {t \in Counter : Sub(t, view) <= Sub(tail, view)}

\* Mutant: the test for a full ring is off by one.
PushLoadOffByOne(f) ==
  /\ ppc = "idle"
  /\ \E t \in Loadable : Sub(head, t) <= Capacity /\ view' = t
  /\ ppc' = "write" /\ frame' = f
  /\ UNCHANGED <<head, tail, cells, consumer, sent, got>>

PushLoad(f) ==
  /\ ppc = "idle"
  /\ \E t \in Loadable : Sub(head, t) < Capacity /\ view' = t
  /\ ppc' = "write" /\ frame' = f
  /\ UNCHANGED <<head, tail, cells, consumer, sent, got>>

\* TryPushError::Full.
PushFull ==
  /\ ppc = "idle"
  /\ \E t \in Loadable : Sub(head, t) >= Capacity /\ view' = t
  /\ UNCHANGED <<head, tail, cells, ppc, frame, consumer, sent, got>>

\* Mutant: the frame goes into the slot after the one that is published.
PushWriteNext ==
  /\ ppc = "write"
  /\ cells' = [cells EXCEPT ![Idx(head + 1)] = frame]
  /\ ppc' = "publish"
  /\ UNCHANGED <<head, tail, view, frame, consumer, sent, got>>

PushWrite ==
  /\ ppc = "write"
  /\ cells' = [cells EXCEPT ![Idx(head)] = frame]
  /\ ppc' = "publish"
  /\ UNCHANGED <<head, tail, view, frame, consumer, sent, got>>

PushPublish ==
  /\ ppc = "publish"
  /\ head' = Inc(head)
  /\ sent' = Append(sent, frame)
  /\ ppc' = "idle"
  /\ UNCHANGED <<tail, cells, view, frame, consumer, got>>

-----------------------------------------------------------------------------
(* pop.                                                                    *)

PopLoad ==
  /\ cpc = "idle" /\ head # tail
  /\ cpc' = "read"
  /\ UNCHANGED <<head, tail, cells, producer, held, sent, got>>

\* pop returns None.
PopEmpty ==
  /\ cpc = "idle" /\ head = tail
  /\ UNCHANGED ringVars

\* Mutant: pop reads the newest frame.
PopReadNewest ==
  /\ cpc = "read"
  /\ held' = cells[Idx(head + Capacity - 1)]
  /\ cpc' = "publish"
  /\ UNCHANGED <<head, tail, cells, producer, sent, got>>

PopRead ==
  /\ cpc = "read"
  /\ held' = cells[Idx(tail)]
  /\ cpc' = "publish"
  /\ UNCHANGED <<head, tail, cells, producer, sent, got>>

PopPublish ==
  /\ cpc = "publish"
  /\ tail' = Inc(tail)
  /\ got' = Append(got, held)
  /\ cpc' = "idle"
  /\ UNCHANGED <<head, cells, producer, held, sent>>

-----------------------------------------------------------------------------

Producing == \/ PushFull \/ PushWrite \/ PushPublish
             \/ Len(sent) < MaxPushes /\ \E f \in PadFrames : PushLoad(f)
Popping   == PopLoad \/ PopRead \/ PopPublish

RingNext == Producing \/ Popping

RingSpec == RingInit /\ [][RingNext]_ringVars

-----------------------------------------------------------------------------
(* What must hold.                                                         *)

RingTypeOK ==
  /\ head \in Counter /\ tail \in Counter /\ view \in Counter
  /\ cells \in [Slot -> PadFrames \cup {Uninit}]
  /\ ppc \in {"idle", "write", "publish"}
  /\ frame \in PadFrames \cup {Uninit}
  /\ cpc \in {"idle", "read", "publish"}
  /\ held \in PadFrames \cup {Uninit}
  /\ sent \in Seq(PadFrames) /\ got \in Seq(PadFrames)

\* The frames between tail and head, oldest first.
Occupied == Sub(head, tail)
Queue    == [i \in 1..Occupied |-> cells[Idx((tail + i) - 1)]]

(* The two threads never touch the same slot at the same time, although    *)
(* the producer decides on a tail that may be stale and the counters wrap: *)
(* the assertion both unsafe blocks of push and pop rest on.               *)
SlotExclusive ==
  ~(ppc = "write" /\ cpc = "read" /\ Idx(head) = Idx(tail))

(* The consumer only reads slots that were fully written before head was   *)
(* published: assume_init_read never sees uninitialised memory.            *)
NoUninitRead == cpc = "publish" => held \in PadFrames

(* What was pushed and not popped yet is exactly what lies between tail    *)
(* and head: no frame is overwritten, duplicated or reordered.             *)
NoFrameLost == sent = got \o Queue

(* The inductive invariant behind these: walking up from the tail the      *)
(* producer has seen, one meets tail and then head, within Capacity steps, *)
(* fewer while a push is under way; a thread inside its slot finds there   *)
(* what it wrote or will read.                                             *)
RingInv ==
  /\ Sub(tail, view) + Sub(head, tail) = Sub(head, view)
  /\ Sub(head, view) <= Capacity
  /\ ppc # "idle" => Sub(head, view) < Capacity /\ frame \in PadFrames
  /\ ppc = "publish" => cells[Idx(head)] = frame
  /\ cpc # "idle" => head # tail
  /\ cpc = "publish" => held = cells[Idx(tail)]
  /\ \A i \in 1..Occupied : Queue[i] \in PadFrames
  /\ sent = got \o Queue

\* The ring as the abstract queue: a push takes effect when head is
\* published, a pop when tail is.
Fifo == INSTANCE BoundedFifo WITH q <- Queue, taken <- got

(* The ring implements a bounded FIFO queue of Capacity frames.            *)
RingIsFifo == Fifo!Spec
=============================================================================
