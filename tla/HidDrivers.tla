----------------------------- MODULE HidDrivers -----------------------------
(***************************************************************************)
(* The HID drivers (src/hid/keyboard.rs, mouse.rs, gamepad.rs) and the     *)
(* session calls that use them (src/session.rs), over the coalescing       *)
(* writer.  A driver keeps what it believes the phone has been told: the   *)
(* keys held, the scroll not yet reported, the state of every pad.  It     *)
(* changes that state before the report is pushed, and the push may fail.  *)
(*                                                                         *)
(* A pad is a function of its fields; the setters differ in the fields they*)
(* write.  The left stick stands for both, the left trigger for both.      *)
(***************************************************************************)
EXTENDS Integers, Sequences, FiniteSets, SequencesExt

CONSTANTS HardLimit, Modes, MaxPushed, MaxFaults   \* of the writer
CONSTANTS
  Opened,      \* the sets of devices a session may be opened with
  Keys,        \* scancodes that take a slot of the report
  MaxKeys,     \* KEYBOARD_MAX_KEYS
  MaxStep,     \* the clamp of a wheel byte, 127
  Scrolls,     \* scroll inputs, in halves of a wheel step
  PadIds,      \* gamepad ids; 0 is GAMEPAD_ID_INVALID
  MaxPads,     \* MAX_GAMEPADS
  Mid,         \* 0x8000
  Raw,         \* raw axis values used
  Buttons      \* button bitmaps used, as sets of names

ASSUME DriverAssumption ==
  /\ IsFiniteSet(Keys) /\ "rollover" \notin Keys /\ MaxKeys \in Nat
  /\ MaxStep \in Nat \ {0} /\ Scrolls \subseteq Int
  /\ 0 \notin PadIds /\ MaxPads \in Nat \ {0}
  /\ Mid \in Nat /\ Raw \subseteq Int /\ \A v \in Raw : -Mid <= v /\ v < Mid

VARIABLES wire, pending, pendingLen, pushed, written, flushes, last, call,
          batch, serialized, direct, phase, faults, accepted     \* the writer
VARIABLES
  opened,     \* the devices of this session
  script,     \* the events the running call has still to make
  keys,       \* keyboard: scancodes held
  device_mod, \* keyboard: modifiers of the last event
  residual,   \* mouse: residual_hscroll and residual_vscroll, in halves
  slots,      \* gamepad: the slots, [id, pad]
  stale,      \* history: why the phone may differ from the driver's view:
              \* "no", a "report" it was not sent, or a "device" message lost
  asked,      \* history: the pads as the calls asked for them
  scrolled,   \* history: all the scroll asked for, in halves
  clipped     \* history: some scroll was cut off by the clamp

writer  == <<wire, pending, pendingLen, pushed, written, flushes, last, call,
             batch, serialized, direct, phase, faults, accepted>>
kbd     == <<keys, device_mod>>
mouse   == <<residual, scrolled, clipped>>
pads    == <<slots, asked>>
driverVars == <<writer, opened, script, kbd, mouse, pads, stale>>

W == INSTANCE CoalescingWriter WITH GamepadBytes <- 1, Sizes <- {1},
                                    ChunkFrames <- 1, MaxBatch <- 1

HID_ID_KEYBOARD == 1
HID_ID_MOUSE    == 2
HID_ID_GAMEPAD_FIRST == 3

\* The slots, named by their HID ids (slot_hid_id).
PadSlots == HID_ID_GAMEPAD_FIRST..(HID_ID_GAMEPAD_FIRST + MaxPads - 1)
Axes     == {"h", "v"}
Sticks   == {"left_x", "left_y"}
Fields   == Sticks \cup {"left_trigger", "buttons"}
Failed   == last' = "Err"

Message(dev, kind, body) ==
  [id |-> pushed + 1, size |-> 1, critical |-> kind # "input",
   dev |-> dev, kind |-> kind, body |-> body]

\* axis_rescale.
axis_rescale(v) == v + Mid

\* What a setter stores for a raw value of a field.
Stored(f, v) == CASE f \in Sticks        -> axis_rescale(v)
                  [] f = "left_trigger"  -> IF v < 0 THEN 0 ELSE v
                  [] f = "buttons"       -> v

Neutral == [f \in Fields |-> IF f = "buttons" THEN {} ELSE Stored(f, 0)]

\* GamepadSlot::default, a slot that was never opened: raw zero everywhere,
\* which for a stick is its end, not its centre.
Unused == [f \in Fields |-> IF f = "buttons" THEN {} ELSE 0]

\* dpad_hat_value: the lookup of the four dpad bits; opposite directions, and
\* any three, give the centre.
Dpad == {"up", "down", "left", "right"}
dpad_hat_value(b) ==
  LET d == b \cap Dpad
      hat == << {"up"}, {"up", "right"}, {"right"}, {"right", "down"},
                {"down"}, {"down", "left"}, {"left"}, {"left", "up"} >>
  IN IF \E i \in 1..8 : hat[i] = d THEN CHOOSE i \in 1..8 : hat[i] = d ELSE 0

\* slot_to_payload.
slot_to_payload(p) == [p EXCEPT !["buttons"] = <<@ \ Dpad, dpad_hat_value(@)>>]

DriverInit ==
  /\ W!Init
  /\ opened \in Opened
  /\ script = <<>>
  /\ keys = {} /\ device_mod = "none"
  /\ residual = [a \in Axes |-> 0] /\ scrolled = [a \in Axes |-> 0]
  /\ clipped = FALSE
  /\ slots = [i \in PadSlots |-> [id |-> 0, pad |-> Unused]]
  /\ asked = [i \in PadSlots |-> Unused]
  /\ stale = [d \in PadSlots \cup {HID_ID_KEYBOARD} |-> "no"]

-----------------------------------------------------------------------------
(* Sending.                                                                *)

Idle == W!Ready /\ script = <<>> /\ pushed < MaxPushed

\* A report was pushed for d, or refused.
Reported(d) ==
  stale' = [stale EXCEPT ![d] = IF @ = "device" THEN @
                                ELSE IF Failed THEN "report" ELSE "no"]

\* A report that did not come from the driver's state.
Bypassed(d) ==
  stale' = [stale EXCEPT ![d] = IF @ = "device" THEN @ ELSE "report"]

-----------------------------------------------------------------------------
(* The keyboard.                                                           *)

Mods == {"none", "ctrl"}

\* Mutant: the roll-over starts one key late.
AddKeyLate(r, k, held) ==
  IF k \notin held \/ r = {"rollover"} THEN r
  ELSE IF Cardinality(r) > MaxKeys THEN {"rollover"} ELSE r \cup {k}

\* One key of build_report's scan; one key too many replaces them all.
AddKey(r, k, held) ==
  IF k \notin held \/ r = {"rollover"} THEN r
  ELSE IF Cardinality(r) >= MaxKeys THEN {"rollover"} ELSE r \cup {k}

\* The keys of the report after 0, 1, ... keys of the scan.
KeyScan(order, held) ==
  LET scan[n \in 0..Len(order)] ==
        IF n = 0 THEN {} ELSE AddKey(scan[n - 1], order[n], held)
  IN scan

build_report(held, m) ==
  LET order == SetToSeq(Keys)
  IN [mods |-> m, keys |-> KeyScan(order, held)[Len(order)]]

KeyEvent(k, down, m) == [code |-> k, down |-> down, mods |-> m]

\* set_key: a modifier's scancode is accepted and takes no slot.
set_key(e) == IF e.code \in Keys
                THEN IF e.down THEN keys \cup {e.code} ELSE keys \ {e.code}
                ELSE keys

\* HidSession::key: a scancode out of range changes nothing; else the state
\* is recorded, then the whole report is sent.
KeyStep ==
  /\ script # <<>> /\ W!Ready
  /\ LET e == Head(script) IN
     \/ /\ e.code = "invalid"
        /\ last' = "Err" /\ script' = <<>>
        /\ UNCHANGED <<wire, pending, pendingLen, pushed, written, flushes,
                       call, batch, serialized, direct, phase, faults,
                       accepted, kbd, stale>>
     \/ /\ e.code # "invalid" /\ pushed < MaxPushed
        /\ keys' = set_key(e) /\ device_mod' = e.mods
        /\ W!Push(Message(HID_ID_KEYBOARD, "input", build_report(keys', e.mods)))
        /\ script' = IF Failed THEN <<>> ELSE Tail(script)
        /\ Reported(HID_ID_KEYBOARD)
  /\ UNCHANGED <<opened, mouse, pads>>

\* key: one event.
Key ==
  /\ Idle /\ "kbd" \in opened
  /\ \E k \in Keys \cup {"modifier", "invalid"}, d \in BOOLEAN, m \in Mods :
       script' = <<KeyEvent(k, d, m)>>
  /\ UNCHANGED <<writer, opened, kbd, mouse, pads, stale>>

\* type_text and type_text_strict: down and up of each character; one the
\* layout does not have is skipped by the first and ends the second.
TypeText ==
  /\ Idle /\ "kbd" \in opened
  /\ \E k \in Keys, m \in Mods, strict \in BOOLEAN :
       LET tap == <<KeyEvent(k, TRUE, m), KeyEvent(k, FALSE, m)>>
           rest == <<KeyEvent("invalid", TRUE, m)>>
       IN script' = IF strict THEN tap \o rest ELSE tap
  /\ UNCHANGED <<writer, opened, kbd, mouse, pads, stale>>

-----------------------------------------------------------------------------
(* The mouse.                                                              *)

trunc(h) == IF h >= 0 THEN h \div 2 ELSE -((-h) \div 2)
clamp(h) == IF h > 2 * MaxStep THEN 2 * MaxStep
            ELSE IF h < -2 * MaxStep THEN -2 * MaxStep ELSE h

\* Mutant: the fraction is dropped with the steps.
consume_scroll_drops(h) == [steps |-> trunc(clamp(h)), rest |-> 0]

\* consume_scroll_integer.
consume_scroll_integer(h) ==
  [steps |-> trunc(clamp(h)), rest |-> clamp(h) - 2 * trunc(clamp(h))]

\* mouse_scroll: the residual is consumed, then the report pushed; no report
\* without a whole step.
MouseScroll ==
  /\ Idle /\ "mouse" \in opened
  /\ \E d \in [Axes -> Scrolls] :
       LET sum == [a \in Axes |-> residual[a] + d[a]]
           got == [a \in Axes |-> consume_scroll_integer(sum[a])]
           steps == [a \in Axes |-> got[a].steps]
       IN /\ residual' = [a \in Axes |-> got[a].rest]
          /\ scrolled' = [a \in Axes |-> scrolled[a] + d[a]]
          /\ clipped' = (clipped \/ \E a \in Axes : clamp(sum[a]) # sum[a])
          /\ IF \A a \in Axes : steps[a] = 0
               THEN UNCHANGED writer
               ELSE W!Push(Message(HID_ID_MOUSE, "input",
                                   [buttons |-> {}, wheel |-> steps]))
  /\ UNCHANGED <<opened, script, kbd, pads, stale>>

\* mouse_motion, mouse_buttons and each frame of mouse_frame_batch: no state.
MouseMove ==
  /\ Idle /\ "mouse" \in opened
  /\ \E b \in {{}, {"left"}} :
       W!Push(Message(HID_ID_MOUSE, "input",
                      [buttons |-> b, wheel |-> [a \in Axes |-> 0]]))
  /\ UNCHANGED <<opened, script, kbd, mouse, pads, stale>>

-----------------------------------------------------------------------------
(* The gamepads.                                                           *)

With(id) == {i \in PadSlots : slots[i].id = id}
First(s) == CHOOSE i \in s : \A j \in s : i <= j

\* The message of an open or a close: what is lost with it is the device.  A
\* CREATE behind a lost DESTROY finds the old device, which keeps its state.
SendDevice(i, kind) ==
  /\ W!Push(Message(i, kind, Neutral))
  /\ stale' = [stale EXCEPT ![i] = IF Failed THEN "device"
                                   ELSE IF kind = "create" /\ @ = "device" THEN "report"
                                   ELSE "no"]

TakeSlot(i, id) ==
  /\ slots' = [slots EXCEPT ![i] = [id |-> id, pad |-> Neutral]]
  /\ asked' = [asked EXCEPT ![i] = Neutral]

\* GamepadHid::open with its message sent: an id that is open keeps its slot
\* and only has its CREATE sent again; NoGamepadSlot when none is free.
PadOpen ==
  /\ Idle /\ "pad" \in opened
  /\ \E id \in PadIds :
       \/ /\ With(id) # {}
          /\ W!Push(Message(First(With(id)), "create", Neutral))
          /\ stale' = [stale EXCEPT ![First(With(id))] =
                         IF @ = "no" THEN "no" ELSE IF Failed THEN @ ELSE
                           IF @ = "device" THEN "report" ELSE @]
          /\ UNCHANGED pads
       \/ /\ With(id) = {} /\ With(0) # {}
          /\ TakeSlot(First(With(0)), id)
          /\ SendDevice(First(With(0)), "create")
  /\ UNCHANGED <<opened, script, kbd, mouse>>

\* close and close_slot_idx.
PadClose ==
  /\ Idle /\ "pad" \in opened
  /\ \E i \in PadSlots : /\ slots[i].id # 0
                         /\ slots' = [slots EXCEPT ![i].id = 0]
                         /\ SendDevice(i, "destroy")
  /\ UNCHANGED <<opened, script, kbd, mouse, asked>>

\* The fields a setter writes: one axis or trigger (set_stick_raw), the
\* buttons (set_button, set_buttons), a stick, all analog inputs, a frame.
Setters == { {"left_x"}, {"left_y"}, {"left_trigger"}, {"buttons"}, Sticks,
             Fields \ {"buttons"}, Fields }

\* The values a setter may be called with.  Bound: one value for all axes.
PadFrame(fs) == { [x \in fs |-> IF x = "buttons" THEN b ELSE v] :
                    v \in Raw, b \in Buttons }

\* The pad after a setter.
Apply(pad, f) ==
  [x \in Fields |-> IF x \in DOMAIN f THEN Stored(x, f[x]) ELSE pad[x]]

\* Mutant: a stick is compared by its x axis only.
SameIgnoresY(pad, f) ==
  \A x \in DOMAIN f \ {"left_y"} : pad[x] = Stored(x, f[x])

\* The setter changes nothing.
Same(pad, f) == \A x \in DOMAIN f : pad[x] = Stored(x, f[x])

\* The *_slot_idx_raw setters on slot i: recorded, then the whole pad is sent,
\* unless nothing changed.
Setter(i, f) ==
  /\ asked' = [asked EXCEPT ![i] = Apply(@, f)]
  /\ IF Same(slots[i].pad, f) THEN UNCHANGED <<writer, slots, stale>>
     ELSE /\ slots' = [slots EXCEPT ![i].pad = Apply(@, f)]
          /\ W!Push(Message(i, "input", slot_to_payload(slots'[i].pad)))
          /\ Reported(i)

\* The session's setters work on the slot it opened, the first, and do not
\* look whether it still is.
PadSet ==
  /\ Idle /\ "pad" \in opened
  /\ \E fs \in Setters : \E f \in PadFrame(fs) : Setter(HID_ID_GAMEPAD_FIRST, f)
  /\ UNCHANGED <<opened, script, kbd, mouse>>

\* The driver's events by id: as the setters, but an event that changes
\* nothing sends the pad all the same.  Id 0 finds a free slot.
PadEvent ==
  /\ Idle /\ "pad" \in opened
  /\ \E id \in PadIds \cup {0} : With(id) # {} /\
       \E fs \in Setters : \E f \in PadFrame(fs) :
         LET i == First(With(id)) IN
         \/ ~Same(slots[i].pad, f) /\ Setter(i, f)
         \/ /\ Same(slots[i].pad, f)
            /\ W!Push(Message(i, "input", slot_to_payload(slots[i].pad)))
            /\ asked' = [asked EXCEPT ![i] = Apply(@, f)]
            /\ Reported(i)
            /\ UNCHANGED slots
  /\ UNCHANGED <<opened, script, kbd, mouse>>

\* set_frame_raw_unchecked, set_frame_raw_packed, inject_raw_gamepad_report.
PadUnchecked ==
  /\ Idle /\ "pad" \in opened
  /\ \E f \in PadFrame(Fields) :
       W!Push(Message(HID_ID_GAMEPAD_FIRST, "input", slot_to_payload(Apply(Neutral, f))))
  /\ Bypassed(HID_ID_GAMEPAD_FIRST)
  /\ UNCHANGED <<opened, script, kbd, mouse, pads>>

-----------------------------------------------------------------------------

SessionFlush == /\ W!Ready /\ script = <<>> /\ W!ExplicitFlush
         /\ UNCHANGED <<opened, script, kbd, mouse, pads, stale>>

DriverNext == \/ Key \/ TypeText \/ KeyStep
              \/ MouseScroll \/ MouseMove
              \/ PadOpen \/ PadClose \/ PadSet \/ PadEvent \/ PadUnchecked
              \/ SessionFlush

DriverSpec == DriverInit /\ [][DriverNext]_driverVars

-----------------------------------------------------------------------------
(* What must hold.                                                         *)

\* What the phone will have been sent when the buffer is out.
Sent == wire \o pending

\* The phone's view of a pad after a message: none before CREATE and after
\* DESTROY; a CREATE of a device that exists is ignored.
Seen(v, m, i) ==
  IF m.dev # i THEN v
  ELSE IF m.kind = "destroy" THEN <<"none">>
  ELSE IF m.kind = "create"
    THEN IF v = <<"none">> THEN <<"on", slot_to_payload(Neutral)>> ELSE v
    ELSE IF v = <<"none">> THEN v ELSE <<"on", m.body>>

\* The views after 0, 1, ... messages of s.
PhoneViews(s, i) ==
  LET view[k \in 0..Len(s)] ==
        IF k = 0 THEN <<"none">> ELSE Seen(view[k - 1], s[k], i)
  IN view

PhonePad(i) == PhoneViews(Sent, i)[Len(Sent)]

AskedPad(i) == IF slots[i].id = 0 THEN <<"none">>
               ELSE <<"on", slot_to_payload(asked[i])>>

(* Suppressing a report that changes nothing is sound: the phone has, or   *)
(* will have when the buffer is out, the pad the calls asked for, through  *)
(* flushes that failed, slots that were reused and events for a closed     *)
(* pad.  The exceptions are those of the code: a report that the transport *)
(* refused, a report past the driver, a lost CREATE or DESTROY.            *)
PadAsAsked ==
  \A i \in PadSlots : stale[i] = "no" => PhonePad(i) = AskedPad(i)

(* A keyboard report carries everything: whatever was refused or cut short *)
(* before, after a report that was taken the phone has exactly the keys    *)
(* held, or roll-over when they are too many.                              *)
KeyboardHeals ==
  stale[HID_ID_KEYBOARD] = "no" =>
    \A n \in 1..Len(Sent) :
      /\ Sent[n].dev = HID_ID_KEYBOARD
      /\ \A l \in (n + 1)..Len(Sent) : Sent[l].dev # HID_ID_KEYBOARD
      => Sent[n].body = [mods |-> device_mod,
                         keys |-> IF Cardinality(keys) <= MaxKeys THEN keys
                                  ELSE {"rollover"}]

Turned(n, m, a) == IF m.dev = HID_ID_MOUSE THEN n + m.body.wheel[a] ELSE n

\* The wheel steps on axis a in the first 0, 1, ... messages of s.
WheelSums(s, a) ==
  LET sum[k \in 0..Len(s)] ==
        IF k = 0 THEN 0 ELSE Turned(sum[k - 1], s[k], a)
  IN sum

\* What of all the scroll asked for the reports and the residual do not show.
ScrollGap(a) == 2 * WheelSums(accepted, a)[Len(accepted)] + residual[a] - scrolled[a]

(* Scrolling is neither lost nor invented: the steps reported and the      *)
(* fraction kept back add up to what was asked for.  Only the clamp, and   *)
(* in direct mode a refused report - one report for each error - take away.*)
ScrollConserved ==
  ~clipped =>
    \A a \in Axes :
      LET lost == IF direct THEN 2 * MaxStep * faults ELSE 0
      IN -lost <= ScrollGap(a) /\ ScrollGap(a) <= lost
=============================================================================
