-------------------------- MODULE MultitouchHandle --------------------------
(***************************************************************************)
(* MultitouchHandle (src/multitouch.rs): a borrow of the session that      *)
(* keeps one flag per pointer, refuses to press a finger twice or to move  *)
(* or lift one that is not down, and changes a flag only after the message *)
(* was taken by the writer.  The flags live in the handle: dropping it     *)
(* lifts nothing, and the next handle starts with every flag clear.        *)
(* pinch is one pair of MOVEs per step; release_all lifts the active       *)
(* pointers in id order and stops at the first error.                      *)
(***************************************************************************)
EXTENDS Naturals, Sequences

CONSTANTS HardLimit, Modes, MaxPushed, MaxFaults  \* of the writer
CONSTANTS MaxPointers,   \* MAX_POINTERS
          MaxHandles     \* bound: handles borrowed

ASSUME PointerAssumption == MaxPointers \in Nat \ {0}

VARIABLES wire, pending, pendingLen, pushed, written, flushes, last, call,
          batch, serialized, direct, phase, faults, accepted     \* the writer
VARIABLES
  active,    \* active
  pc,        \* "none" (no handle), "ready", "pinch", "release_all"
  todo,      \* pointers the running pinch has yet to move
  handles,   \* bound: handles borrowed so far
  stray      \* history: pointers the phone had down when a handle was
             \* borrowed or dropped

writer == <<wire, pending, pendingLen, pushed, written, flushes, last, call,
            batch, serialized, direct, phase, faults, accepted>>
vars == <<writer, active, pc, todo, handles, stray>>

W == INSTANCE CoalescingWriter WITH GamepadBytes <- 1, Sizes <- {1},
                                    ChunkFrames <- 1, MaxBatch <- 1

Pointers == 0..(MaxPointers - 1)
Touch(a, p) == [id |-> pushed + 1, size |-> 1, critical |-> FALSE,
                dev |-> "touch", act |-> a, ptr |-> p, held |-> {}]
inject_touch(a, p) == pushed < MaxPushed /\ W!Push(Touch(a, p))
Ok == last' # "Err"

\* What the phone has seen once the buffer is delivered as well.
Stream == wire \o pending
FailedWritesAreEmpty == Stream = accepted
Lifts(m, p) == m.act \in {"UP", "CANCEL"} /\ m.ptr = p

\* After the first n messages of s the phone has pointer p down.
DownAfter(s, n, p) ==
  \E i \in 1..n : /\ s[i].act = "DOWN" /\ s[i].ptr = p
                  /\ \A j \in (i + 1)..n : ~Lifts(s[j], p)
DownNow == {p \in Pointers : DownAfter(Stream, Len(Stream), p)}

Init ==
  /\ W!Init
  /\ active = {} /\ pc = "none" /\ todo = <<>> /\ handles = 0 /\ stray = {}

Multitouch ==
  /\ pc = "none" /\ handles < MaxHandles
  /\ pc' = "ready" /\ active' = {} /\ handles' = handles + 1
  /\ stray' = stray \cup DownNow
  /\ UNCHANGED <<writer, todo>>

DropHandle ==
  /\ pc = "ready"
  /\ pc' = "none"
  /\ stray' = stray \cup DownNow
  /\ UNCHANGED <<writer, active, todo, handles>>

\* Mutant: the flag is set before the message was taken.
DownEager(p) ==
  /\ pc = "ready" /\ p \notin active
  /\ inject_touch("DOWN", p)
  /\ active' = active \cup {p}
  /\ UNCHANGED <<pc, todo, handles, stray>>

Down(p) ==
  /\ pc = "ready" /\ p \notin active
  /\ inject_touch("DOWN", p)
  /\ active' = IF Ok THEN active \cup {p} ELSE active
  /\ UNCHANGED <<pc, todo, handles, stray>>

\* Mutant: move_to does not ask whether the finger is down.
MoveToUnchecked(p) ==
  /\ pc = "ready"
  /\ inject_touch("MOVE", p)
  /\ UNCHANGED <<active, pc, todo, handles, stray>>

MoveTo(p) ==
  /\ pc = "ready" /\ p \in active
  /\ inject_touch("MOVE", p)
  /\ UNCHANGED <<active, pc, todo, handles, stray>>

\* up and cancel.
Lift(p, a) ==
  /\ pc = "ready" /\ p \in active
  /\ inject_touch(a, p)
  /\ active' = IF Ok THEN active \ {p} ELSE active
  /\ UNCHANGED <<pc, todo, handles, stray>>

BeginPinch(p, q) ==
  /\ pc = "ready" /\ {p, q} \subseteq active
  /\ pc' = "pinch" /\ todo' = <<p, q>>
  /\ UNCHANGED <<writer, active, handles, stray>>

BeginReleaseAll ==
  /\ pc = "ready" /\ active # {}
  /\ pc' = "release_all"
  /\ UNCHANGED <<writer, active, todo, handles, stray>>

\* One send of the running loop; an error returns from it.
PinchStep ==
  /\ pc = "pinch"
  /\ inject_touch("MOVE", Head(todo))
  /\ todo' = IF Ok THEN Tail(todo) ELSE <<>>
  /\ pc' = IF todo' = <<>> THEN "ready" ELSE pc
  /\ UNCHANGED <<active, handles, stray>>

\* release_all visits the pointers in id order: the next one is the lowest
\* that is still active.
ReleaseStep(p) ==
  /\ pc = "release_all" /\ p \in active /\ \A q \in active : p <= q
  /\ inject_touch("UP", p)
  /\ active' = IF Ok THEN active \ {p} ELSE active
  /\ pc' = IF Ok /\ active' # {} THEN pc ELSE "ready"
  /\ UNCHANGED <<todo, handles, stray>>

FlushNow ==
  /\ pc = "ready"
  /\ W!ExplicitFlush
  /\ UNCHANGED <<active, pc, todo, handles, stray>>

Next ==
  \/ Multitouch \/ DropHandle \/ BeginReleaseAll \/ PinchStep \/ FlushNow
  \/ \E p \in Pointers :
       Down(p) \/ MoveTo(p) \/ Lift(p, "UP") \/ Lift(p, "CANCEL") \/ ReleaseStep(p)
  \/ \E p, q \in Pointers : BeginPinch(p, q)

Spec == Init /\ [][Next]_vars

-----------------------------------------------------------------------------
TypeOK ==
  /\ active \subseteq Pointers
  /\ pc \in {"none", "ready", "pinch", "release_all"}
  /\ todo \in Seq(Pointers)
  /\ handles \in 0..MaxHandles
  /\ stray \subseteq Pointers

(* The flags mirror the phone: a pointer is active exactly when the phone  *)
(* has it down, also after sends that failed, as long as a failed write    *)
(* delivers nothing and is not retried from the buffer; the phone may have *)
(* more fingers down that an earlier handle or helper has left.            *)
FlagsMirrorPhone ==
  pc # "none" /\ (direct \/ faults = 0) /\ FailedWritesAreEmpty =>
    active \subseteq DownNow /\ DownNow \subseteq active \cup stray

(* The phone never gets a MOVE or a lift for a finger that is not down,    *)
(* nor a press of one that is, unless a dropped handle has left it down.   *)
WellFormedTouchStream ==
  faults = 0 =>
    \A i \in 1..Len(Stream) :
      LET m == Stream[i] IN
        CASE m.act = "DOWN"   -> m.ptr \in stray \/ ~DownAfter(Stream, i - 1, m.ptr)
          [] m.act = "REPORT" -> TRUE
          [] OTHER            -> DownAfter(Stream, i - 1, m.ptr)

=============================================================================
