------------------------------ MODULE Gestures ------------------------------
(***************************************************************************)
(* The composite input helpers of HidSession (src/session.rs): gestures    *)
(* that press something, do something and let go again, one send per       *)
(* message.  A send may fail in the middle.  tap_pointer, multi_finger_tap *)
(* and key_chord then roll back (TouchGuard, release_all, KbdChordGuard),  *)
(* the others return at once.                                              *)
(*                                                                         *)
(* A touch message is its action and its pointer: coordinates do not       *)
(* matter here, and one MOVE stands for a run of them.  A keyboard report  *)
(* is the set of keys and modifiers it says are held.                      *)
(***************************************************************************)
EXTENDS Naturals, Sequences, SequencesExt

CONSTANTS HardLimit, Modes, MaxPushed, MaxFaults  \* of the writer
CONSTANTS Kinds,         \* the helpers the caller uses
          MaxGestures    \* bound: calls

VARIABLES wire, pending, pendingLen, pushed, written, flushes, last, call,
          batch, serialized, direct, phase, faults, accepted     \* the writer
VARIABLES
  pc,       \* "idle", "run", "rollback"
  kind,     \* the helper that runs, or ran last
  script,   \* the messages it still has to send
  pressed,  \* pointers whose ACTION_DOWN it has sent, in order
  result,   \* what the last helper returned
  gestures, \* bound: calls so far
  broken    \* history: a helper without a guard was cut short

writer == <<wire, pending, pendingLen, pushed, written, flushes, last, call,
            batch, serialized, direct, phase, faults, accepted>>
vars == <<writer, pc, kind, script, pressed, result, gestures, broken>>

W == INSTANCE CoalescingWriter WITH GamepadBytes <- 1, Sizes <- {1},
                                    ChunkFrames <- 1, MaxBatch <- 1

Touch(a, p) == [dev |-> "touch", act |-> a, ptr |-> p, held |-> {}]
Report(h)   == [dev |-> "kbd", act |-> "REPORT", ptr |-> 0, held |-> h]
Tag(m) == [id |-> pushed + 1, size |-> 1, critical |-> FALSE,
           dev |-> m.dev, act |-> m.act, ptr |-> m.ptr, held |-> m.held]

DownUp(p) == <<Touch("DOWN", p), Touch("UP", p)>>
Each(a, n) == [i \in 1..n |-> Touch(a, i - 1)]

\* What each helper sends when nothing fails.
tap_pointer      == DownUp(0)
long_press       == DownUp(0)
double_tap       == DownUp(0) \o DownUp(0)
swipe_pointer    == <<Touch("DOWN", 0), Touch("MOVE", 0), Touch("MOVE", 0),
                      Touch("UP", 0)>>
drag             == swipe_pointer
pinch            == Each("DOWN", 2) \o Each("MOVE", 2) \o Each("UP", 2)
multi_finger_tap == Each("DOWN", 2) \o Each("UP", 2)
three_finger_screenshot == Each("DOWN", 3) \o Each("MOVE", 3) \o Each("UP", 3)
key_chord == <<Report({"mod", "key"}), Report({"mod"}), Report({})>>
type_text == <<Report({"mod", "key"}), Report({"mod"})>>   \* a shifted character

Script == [tap_pointer |-> tap_pointer, long_press |-> long_press,
           double_tap |-> double_tap, swipe_pointer |-> swipe_pointer,
           drag |-> drag, pinch |-> pinch,
           multi_finger_tap |-> multi_finger_tap,
           three_finger_screenshot |-> three_finger_screenshot,
           key_chord |-> key_chord, type_text |-> type_text]

Guarded == {"tap_pointer", "multi_finger_tap", "key_chord"}

Init ==
  /\ W!Init
  /\ pc = "idle" /\ kind = "none" /\ script = <<>> /\ pressed = <<>>
  /\ result = "none" /\ gestures = 0 /\ broken = FALSE

Begin(g) ==
  /\ pc = "idle" /\ gestures < MaxGestures
  /\ pc' = "run" /\ kind' = g
  /\ script' = Script[g] /\ pressed' = <<>>
  /\ gestures' = gestures + 1
  /\ UNCHANGED <<writer, result, broken>>

Send(m) == pushed < MaxPushed /\ W!Push(Tag(m))

\* Mutant: the touch guard lifts only the finger pressed first.
RollbackFirst(g) ==
  IF g = "key_chord" THEN <<Report({})>>
  ELSE [i \in 1..(IF pressed = <<>> THEN 0 ELSE 1) |-> Touch("UP", pressed[1])]

\* Mutant: the chord guard releases the key and leaves the modifier.
RollbackKeepsModifier(g) ==
  IF g = "key_chord" THEN <<Report({"mod"})>>
  ELSE [i \in 1..Len(pressed) |-> Touch("UP", Reverse(pressed)[i])]

\* What the guard sends when its helper fails: KbdChordGuard one all-clear
\* report, TouchGuard and release_all an UP per pressed pointer, last first.
Rollback(g) ==
  IF g = "key_chord" THEN <<Report({})>>
  ELSE [i \in 1..Len(pressed) |-> Touch("UP", Reverse(pressed)[i])]

StepOk ==
  LET m == Head(script)
  IN /\ last' # "Err"
     /\ script' = Tail(script)
     /\ pressed' = IF m.act = "DOWN" THEN Append(pressed, m.ptr) ELSE pressed
     /\ IF script' = <<>> THEN pc' = "idle" /\ result' = "Ok"
                          ELSE UNCHANGED <<pc, result>>
     /\ UNCHANGED broken

StepErr ==
  /\ last' = "Err"
  /\ result' = "Err"
  /\ script' = IF kind \in Guarded THEN Rollback(kind) ELSE <<>>
  /\ pc' = IF script' = <<>> THEN "idle" ELSE "rollback"
  /\ broken' = (broken \/ kind \notin Guarded)
  /\ UNCHANGED pressed

Step ==
  /\ pc = "run"
  /\ Send(Head(script))
  /\ StepOk \/ StepErr
  /\ UNCHANGED <<kind, gestures>>

\* A rollback send: its error is swallowed.
RollbackStep ==
  /\ pc = "rollback"
  /\ Send(Head(script))
  /\ script' = Tail(script)
  /\ pc' = IF script' = <<>> THEN "idle" ELSE "rollback"
  /\ UNCHANGED <<kind, pressed, result, gestures, broken>>

Flush ==
  /\ pc = "idle"
  /\ W!ExplicitFlush
  /\ UNCHANGED <<pc, kind, script, pressed, result, gestures, broken>>

Next == (\E g \in Kinds : Begin(g)) \/ Step \/ RollbackStep \/ Flush

Spec == Init /\ [][Next]_vars

-----------------------------------------------------------------------------
(* What the phone sees once the buffer has been delivered as well.         *)

Stream == wire \o pending

\* Every failed write so far delivered nothing of its buffer.
FailedWritesAreEmpty == Stream = accepted

IsDown(s, p) ==
  \E i \in 1..Len(s) :
    /\ s[i].act = "DOWN" /\ s[i].ptr = p
    /\ \A j \in (i + 1)..Len(s) : ~(s[j].act \in {"UP", "CANCEL"} /\ s[j].ptr = p)

Pointers == 0..2
FingersDown == {p \in Pointers : IsDown(Stream, p)}

\* What the last keyboard report says is held.
Held(s) == UNION {s[i].held : i \in {k \in 1..Len(s) :
                     /\ s[k].dev = "kbd"
                     /\ \A j \in (k + 1)..Len(s) : s[j].dev # "kbd"}}

-----------------------------------------------------------------------------
(* What must hold.                                                         *)

TypeOK ==
  /\ pc \in {"idle", "run", "rollback"}
  /\ kind \in Kinds \cup {"none"}
  /\ result \in {"none", "Ok", "Err"}
  /\ gestures \in 0..MaxGestures /\ broken \in BOOLEAN
  /\ pressed \in Seq(Pointers)
  /\ pushed \in 0..MaxPushed /\ faults \in 0..MaxFaults

\* Nothing is pressed but the fingers in S.  type_text is the one helper that
\* does not clear its modifier: after a shifted character the modifier, but
\* never a key, is held until the next keyboard report.
AllReleasedBut(S) ==
  /\ FingersDown \subseteq S
  /\ Held(Stream) \subseteq (IF kind = "key_chord" THEN {} ELSE {"mod"})

(* Between two calls a helper leaves nothing pressed: always while the     *)
(* transport works, and in direct mode also after one write failed and     *)
(* delivered nothing, unless a helper that has no guard was cut short.     *)
(* S holds the fingers something else has left down.                       *)
ReleasedBetweenCalls(S) ==
  pc = "idle" /\ ( \/ faults = 0
                   \/ direct /\ faults <= 1 /\ FailedWritesAreEmpty /\ ~broken )
    => AllReleasedBut(S)

(* A rollback undoes and never presses: after the failure nothing but      *)
(* releases is accepted until the helper returns.                          *)
OnlyReleases ==
  pc = "rollback" /\ accepted' # accepted =>
    LET m == accepted'[Len(accepted')] IN
      m.act = "UP" \/ (m.dev = "kbd" /\ m.held = {})
=============================================================================
