----------------------------- MODULE HidSession -----------------------------
(***************************************************************************)
(* The life of a HidSession (src/session.rs): open creates up to three     *)
(* virtual devices on the phone, use sends input reports, close or drop    *)
(* destroys them, into_inner gives the transport back.  All bytes go       *)
(* through the coalescing writer, whose operations are those of module     *)
(* CoalescingWriter; every send may fail, and open, close and Drop are one *)
(* step per send so that a failure can fall between any two of them.       *)
(*                                                                         *)
(* What the phone has is not a variable: it is read off the wire.          *)
(***************************************************************************)
EXTENDS Naturals, Sequences

CONSTANTS HardLimit, Modes, MaxPushed, MaxFaults  \* of the writer
CONSTANT MaxInputs      \* bound: input reports

VARIABLES wire, pending, pendingLen, pushed, written, flushes, last, call,
          batch, serialized, direct, phase, faults, accepted     \* the writer
VARIABLES
  have,     \* kbd / mouse / gamepad is Some
  slot,     \* the driver's gamepad slot is open
  closed,   \* closed
  pc,       \* "opening", "open" (no call runs), "closing", "dropping",
            \* "released" (the fields are dropped next), "gone"
  todo,     \* devices the running open / try_close_all still has to handle
  inputs,   \* bound: input reports sent
  opened    \* history: open returned Ok

writer == <<wire, pending, pendingLen, pushed, written, flushes, last, call,
            batch, serialized, direct, phase, faults, accepted>>
vars == <<writer, have, slot, closed, pc, todo, inputs, opened>>

\* One message is one byte: sizes matter only to the writer's statistics.
W == INSTANCE CoalescingWriter WITH GamepadBytes <- 1, Sizes <- {1},
                                    ChunkFrames <- 1, MaxBatch <- 1

Devices == {"kbd", "mouse", "gamepad"}

\* The devices of set D in the order open and try_close_all visit them.
Only(d, D) == IF d \in D THEN <<d>> ELSE <<>>
InOrder(D) == Only("kbd", D) \o Only("mouse", D) \o Only("gamepad", D)

Uhid(k, d) == [id |-> pushed + 1, size |-> 1, critical |-> k # "INPUT",
               kind |-> k, dev |-> d]

Send(k, d) == pushed < MaxPushed /\ W!Push(Uhid(k, d))
Failed     == last' = "Err"

\* OpenRequest: any combination of the three devices.
Init ==
  /\ W!Init
  /\ \E Req \in SUBSET Devices :
       /\ todo = InOrder(Req)
       /\ pc = IF Req = {} THEN "open" ELSE "opening"
       /\ opened = (Req = {})
  /\ have = [d \in Devices |-> FALSE]
  /\ slot = FALSE /\ closed = FALSE
  /\ inputs = 0

-----------------------------------------------------------------------------
(* HidSession::open: one UHID_CREATE per requested device; on an error the *)
(* half-built session is dropped.                                          *)

CreateOk ==
  LET d == Head(todo)
  IN /\ ~Failed
     /\ have' = [have EXCEPT ![d] = TRUE]
     /\ slot' = (slot \/ d = "gamepad")
     /\ todo' = Tail(todo)
     /\ pc' = IF todo' = <<>> THEN "open" ELSE "opening"
     /\ opened' = (todo' = <<>>)

\* Mutant: open returns the error without dropping the half-built session.
CreateErrLeaks ==
  /\ Failed
  /\ pc' = "released"
  /\ todo' = <<>>
  /\ UNCHANGED <<have, slot, opened>>

CreateErr ==
  /\ Failed
  /\ pc' = "dropping"
  /\ todo' = InOrder({d \in Devices : have[d]})
  /\ UNCHANGED <<have, slot, opened>>

OpenDevice ==
  /\ pc = "opening"
  /\ Send("CREATE", Head(todo))
  /\ CreateOk \/ CreateErr
  /\ UNCHANGED <<closed, inputs>>

-----------------------------------------------------------------------------
(* Input reports.  The gamepad setters refuse a closed session; key and    *)
(* the mouse helpers only ask whether their device was opened.             *)

\* Mutant: nobody asks whether the device is open.
UsableUnchecked(d) == d \in Devices

Usable(d) == have[d] /\ (d = "gamepad" => ~closed)

Input(d) ==
  /\ pc = "open" /\ inputs < MaxInputs
  /\ Usable(d)
  /\ Send("INPUT", d)
  /\ inputs' = inputs + 1
  /\ UNCHANGED <<have, slot, closed, pc, todo, opened>>

FlushSession ==
  /\ pc = "open"
  /\ W!ExplicitFlush
  /\ UNCHANGED <<have, slot, closed, pc, todo, inputs, opened>>

-----------------------------------------------------------------------------
(* try_close_all, run by close ("closing") or by Drop ("dropping").        *)

Opened == {d \in Devices : have[d]}

\* An error leaves try_close_all at once: close hands it to the caller, Drop
\* swallows it and goes on to drop the fields.
CloseErr == /\ todo' = <<>>
            /\ pc' = IF pc = "closing" THEN "open" ELSE "released"

\* Mutant: try_close_all ignores the error of a UHID_DESTROY.
DestroyPlainIgnores ==
  /\ Head(todo) # "gamepad"
  /\ Send("DESTROY", Head(todo))
  /\ todo' = Tail(todo)
  /\ UNCHANGED <<have, slot, pc>>

\* UHID_DESTROY of the keyboard or the mouse; both stay Some.
DestroyPlain ==
  /\ Head(todo) # "gamepad"
  /\ Send("DESTROY", Head(todo))
  /\ \/ Failed /\ CloseErr
     \/ ~Failed /\ todo' = Tail(todo) /\ UNCHANGED pc
  /\ UNCHANGED <<have, slot>>

\* The gamepad's slot is closed in the driver first and its message is sent
\* afterwards; a slot that is closed already is passed over.
DestroyGamepad ==
  /\ Head(todo) = "gamepad"
  /\ slot' = FALSE
  /\ \/ /\ slot
        /\ Send("DESTROY", "gamepad")
        /\ \/ Failed /\ CloseErr /\ UNCHANGED have
           \/ /\ ~Failed
              /\ have' = [have EXCEPT !["gamepad"] = FALSE]
              /\ todo' = Tail(todo) /\ UNCHANGED pc
     \/ /\ ~slot
        /\ have' = [have EXCEPT !["gamepad"] = FALSE]
        /\ todo' = Tail(todo)
        /\ UNCHANGED <<writer, pc>>

CloseDevice ==
  /\ pc \in {"closing", "dropping"} /\ todo # <<>>
  /\ DestroyPlain \/ DestroyGamepad
  /\ UNCHANGED <<closed, inputs, opened>>

CloseDone ==
  /\ pc \in {"closing", "dropping"} /\ todo = <<>>
  /\ closed' = TRUE
  /\ pc' = IF pc = "closing" THEN "open" ELSE "released"
  /\ UNCHANGED <<writer, have, slot, todo, inputs, opened>>

\* close() on a session that is not closed yet (otherwise it returns Ok).
Close ==
  /\ pc = "open" /\ ~closed
  /\ pc' = "closing"
  /\ todo' = InOrder(Opened)
  /\ UNCHANGED <<writer, have, slot, closed, inputs, opened>>

\* Mutant: Drop does not ask whether close has run.
DropAgain ==
  /\ pc = "open"
  /\ pc' = "dropping"
  /\ todo' = InOrder(Opened)
  /\ UNCHANGED <<writer, have, slot, closed, inputs, opened>>

\* The session goes out of scope, by return or by unwinding; the assertion of
\* into_inner on a session that is not closed ends here too.
Drop ==
  /\ pc = "open"
  /\ pc' = IF closed THEN "released" ELSE "dropping"
  /\ todo' = IF closed THEN <<>> ELSE InOrder(Opened)
  /\ UNCHANGED <<writer, have, slot, closed, inputs, opened>>

\* into_inner on a closed session: flush and give the transport back; the
\* expect() on a failing flush unwinds through the writer's Drop.
IntoInner ==
  /\ pc = "open" /\ closed
  /\ W!IntoInner
  /\ pc' = IF Failed THEN "released" ELSE "gone"
  /\ UNCHANGED <<have, slot, closed, todo, inputs, opened>>

\* The fields go: the writer's Drop flushes what is left.
DropFields ==
  /\ pc = "released"
  /\ W!DropWriter
  /\ pc' = "gone"
  /\ UNCHANGED <<have, slot, closed, todo, inputs, opened>>

Use == FlushSession \/ \E d \in Devices : Input(d)

Next == OpenDevice \/ Use \/ Close \/ CloseDevice \/ CloseDone \/ Drop
          \/ IntoInner \/ DropFields

Spec == Init /\ [][Next]_vars

-----------------------------------------------------------------------------
(* The phone's view, read off the wire.                                    *)

At(i, k, d) == wire[i].kind = k /\ wire[i].dev = d

OnDevice(d) ==
  \E i \in 1..Len(wire) :
    /\ At(i, "CREATE", d)
    /\ \A j \in (i + 1)..Len(wire) : ~At(j, "DESTROY", d)

-----------------------------------------------------------------------------
(* What must hold.                                                         *)

TypeOK ==
  /\ have \in [Devices -> BOOLEAN]
  /\ slot \in BOOLEAN /\ closed \in BOOLEAN /\ opened \in BOOLEAN
  /\ pc \in {"opening", "open", "closing", "dropping", "released", "gone"}
  /\ todo \in Seq(Devices)
  /\ inputs \in 0..MaxInputs
  /\ faults \in 0..MaxFaults /\ pushed \in 0..MaxPushed

(* The phone never sees a report for a device it was not told to create:   *)
(* UHID_CREATE overtakes nothing and nothing overtakes it, also when the   *)
(* buffer is written again after a failure.                                *)
CreatedBeforeUse ==
  \A i \in 1..Len(wire) :
    wire[i].kind # "CREATE" =>
      \E j \in 1..(i - 1) : At(j, "CREATE", wire[i].dev)

(* A close() that returned Ok has destroyed the keyboard and the mouse,    *)
(* even if it is the retry of a close that failed half way; the gamepad    *)
(* too, as long as no send failed.                                         *)
CloseIsComplete ==
  closed =>
    /\ \A d \in {"kbd", "mouse"} : have[d] => ~OnDevice(d)
    /\ faults = 0 => ~OnDevice("gamepad")

(* If a UHID_CREATE fails inside open, every device opened before it is    *)
(* destroyed before the error reaches the caller, provided no second write *)
(* fails.                                                                  *)
OpenRollsBack ==
  pc = "gone" /\ ~opened /\ faults <= 1 =>
    \A d \in Devices : have[d] => ~OnDevice(d)

(* Nothing stays behind when the session is gone and the transport worked: *)
(* every UHID_CREATE on the wire is followed by exactly one UHID_DESTROY,  *)
(* whether the session was closed, dropped, or both.                       *)
CreatesArePaired ==
  pc = "gone" /\ faults = 0 =>
    \A i \in 1..Len(wire) :
      wire[i].kind = "CREATE" =>
        \E j \in (i + 1)..Len(wire) :
          /\ At(j, "DESTROY", wire[i].dev)
          /\ \A l \in 1..Len(wire) : At(l, "DESTROY", wire[i].dev) => l = j

=============================================================================
