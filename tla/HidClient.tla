------------------------------ MODULE HidClient ------------------------------
(***************************************************************************)
(* HidClient and its dispatcher thread (src/client.rs): clones of a client *)
(* send commands over a bounded channel; the dispatcher owns the session   *)
(* and runs them one by one, keeping the first error for the next          *)
(* flush_wait.  The session is one with a single keyboard: a command is    *)
(* the messages it pushes into the coalescing writer (module               *)
(* CoalescingWriter), and session.close() is its one UHID_DESTROY.         *)
(***************************************************************************)
EXTENDS Naturals, Sequences, FiniteSets, Functions, TLC

CONSTANTS HardLimit, Modes, MaxPushed, MaxFaults   \* of the writer
CONSTANTS
  Producers,   \* clones of the client, each used by one thread
  Bound,       \* bound of the channel
  Uses(_),     \* the calls a producer makes
  MaxCalls(_), \* bound: calls of a producer
  MaxCmds,     \* bound: commands of all producers
  None         \* Option::None

VARIABLES wire, pending, pendingLen, pushed, written, flushes, last, call,
          batch, serialized, direct, phase, faults, accepted     \* the writer
VARIABLES
  chan,         \* the channel
  pc,           \* producer: "idle", "sending", "waiting" on its slot, "gone"
  job,          \* producer: [call, at, result, calls], its running or latest call
  out,          \* producer: the command it is sending, or has sent last
  slot,         \* producer: the FlushSlot of its flush_wait
  disp,         \* dispatcher: "recv", "run", "inner", "unwind", "drop",
                \* "joined" or "panicked"
  cur,          \* dispatcher: the command it runs, and
  step,         \* the number of its messages that were pushed
  pendingError, \* dispatcher: pending_error, the command that failed first
  clean,        \* history: no message of the running command has failed
  log           \* history: the commands run, with their outcome

writer  == <<wire, pending, pendingLen, pushed, written, flushes, last, call,
             batch, serialized, direct, phase, faults, accepted>>
clients == <<pc, job, out, slot>>
vars    == <<writer, chan, clients, disp, cur, step, clean, pendingError,
             log>>

W == INSTANCE CoalescingWriter WITH GamepadBytes <- 1, Sizes <- {1},
                                    ChunkFrames <- 1, MaxBatch <- 1

-----------------------------------------------------------------------------
(* The commands: how many messages the session call behind each pushes     *)
(* (two stand for any number), and whether an error ends it or the loop of *)
(* the dispatcher goes on with the rest of the batch.                      *)

One   == [parts |-> 1, stops |-> TRUE]
Chain == [parts |-> 2, stops |-> TRUE]
Each  == [parts |-> 2, stops |-> FALSE]
Local == [parts |-> 0, stops |-> TRUE]

KeyboardCommands ==
  [TypeText |-> Chain, TypeTextStrict |-> Chain, Key |-> One, KeyTap |-> Chain,
   KeyBatchFixed |-> Each]

MouseCommands ==
  [MouseMotion |-> One, MouseButtons |-> One, MouseScroll |-> One,
   MouseBatchFixed |-> Each]

AndroidKeyCommands ==
  [InjectKeycode |-> One, AndroidKeyTap |-> Chain, AndroidKeyBatchFixed |-> Each,
   BackOrScreenOn |-> One]

TouchCommands ==
  [c \in {"MultitouchDown", "MultitouchMove", "MultitouchUp", "MultitouchCancel",
          "InjectScroll"} |-> One]
    @@ [c \in {"TouchBatchFixed", "InjectScrollBatchFixed"} |-> Each]

GamepadCommands ==
  [c \in {"GamepadButton", "GamepadButtons", "GamepadStick", "GamepadStickRaw",
          "GamepadLeftStickRaw", "GamepadRightStickRaw", "GamepadTriggersRaw",
          "GamepadSticksRaw", "GamepadFrameRaw", "GamepadFrameRawUnchecked",
          "GamepadPackedFrame"} |-> One]

GamepadBatches ==
  [c \in {"GamepadFrameRawBatch", "GamepadFrameRawBatchFixed",
          "GamepadFrameRawBatchUnchecked", "GamepadFrameRawBatchFixedUnchecked",
          "GamepadPackedFrameBatch", "GamepadPackedFrameBatchFixed"} |-> Chain]

SystemCommands ==
  [c \in {"SetScreenPower", "ShowNotifications", "ShowQuickSettings", "CollapsePanels",
          "RotateDevice", "ResizeDisplay", "SetTorch", "CameraZoomIn", "CameraZoomOut",
          "OpenHardKeyboardSettings", "ResetVideo", "AiConfig", "AiQuery", "AiPause",
          "LaunchApp", "SetClipboard", "SetClipboardSequenced", "GetClipboard"} |-> One]

ControlCommands ==
  [c \in {"SetScreenSize", "Flush", "FlushAck", "Close"} |-> Local]

Shape == KeyboardCommands @@ MouseCommands @@ AndroidKeyCommands @@ TouchCommands
           @@ GamepadCommands @@ GamepadBatches @@ SystemCommands @@ ControlCommands

Messages(k) == Shape[k].parts

\* The session has no mouse and no gamepad: it refuses their commands.
Refused == DOMAIN MouseCommands \cup DOMAIN GamepadCommands \cup DOMAIN GamepadBatches

-----------------------------------------------------------------------------
(* The methods of the client: the commands each sends.  A try_ method      *)
(* sends the same command, and a batch of one frame the frame's command.   *)

KeyboardCalls ==
  [type_text |-> <<"TypeText">>, type_text_strict |-> <<"TypeTextStrict">>]
    @@ [m \in {"key", "key_scancode", "press_key", "release_key"} |-> <<"Key">>]
    @@ [m \in {"tap_key", "tap_scancode"} |-> <<"KeyTap">>]
    @@ [m \in {"key_chord", "scancode_chord", "send_key_batch_fixed"}
          |-> <<"KeyBatchFixed">>]

MouseCalls ==
  [m \in {"mouse_motion", "mouse_motion_buttons"} |-> <<"MouseMotion">>]
    @@ [m \in {"mouse_buttons", "mouse_button_state"} |-> <<"MouseButtons">>]
    @@ [mouse_scroll |-> <<"MouseScroll">>, send_mouse_batch_fixed |-> <<"MouseBatchFixed">>]

GamepadCalls ==
  [send_button |-> <<"GamepadButton">>, send_buttons |-> <<"GamepadButtons">>,
   send_stick |-> <<"GamepadStick">>, send_stick_raw |-> <<"GamepadStickRaw">>,
   send_left_stick_raw |-> <<"GamepadLeftStickRaw">>,
   send_right_stick_raw |-> <<"GamepadRightStickRaw">>,
   send_triggers_raw |-> <<"GamepadTriggersRaw">>, send_sticks_raw |-> <<"GamepadSticksRaw">>]

\* Without a ring; module GamepadFastPath has the calls of a client with one.
FrameCalls ==
  [send_frame |-> <<"GamepadFrameRaw">>,
   send_frame_unchecked |-> <<"GamepadFrameRawUnchecked">>]

FrameBatchCalls ==
  [send_frame_batch |-> <<"GamepadFrameRawBatch">>,
   send_frame_batch_unchecked |-> <<"GamepadFrameRawBatchUnchecked">>,
   send_frame_batch_fixed |-> <<"GamepadFrameRawBatchFixed">>,
   send_frame_batch_fixed_unchecked |-> <<"GamepadFrameRawBatchFixedUnchecked">>]

PackedFrameCalls ==
  [send_frame_packed |-> <<"GamepadPackedFrame">>,
   send_frame_packed_batch |-> <<"GamepadPackedFrameBatch">>,
   send_frame_packed_batch_fixed |-> <<"GamepadPackedFrameBatchFixed">>]

AndroidKeyCalls ==
  [m \in {"inject_keycode", "inject_android_keycode", "inject_android_key_event",
          "press_android_key", "release_android_key"} |-> <<"InjectKeycode">>]
    @@ [m \in {"tap_android_keycode", "tap_android_key", "tap_android_key_with_metastate"}
          |-> <<"AndroidKeyTap">>]

AndroidKeyBatchCalls == [send_android_key_batch_fixed |-> <<"AndroidKeyBatchFixed">>]

\* The named keys are pressed, not tapped: DOWN only.
NamedKeyCalls ==
  [back_or_screen_on |-> <<"BackOrScreenOn">>]
    @@ [m \in {"press_home", "press_back", "open_recents", "volume_up", "volume_down",
               "volume_mute"} |-> <<"InjectKeycode">>]

SystemCalls ==
  [set_screen_size |-> <<"SetScreenSize">>, set_screen_power |-> <<"SetScreenPower">>,
   show_notifications |-> <<"ShowNotifications">>,
   show_quick_settings |-> <<"ShowQuickSettings">>, collapse_panels |-> <<"CollapsePanels">>,
   rotate_device |-> <<"RotateDevice">>, resize_display |-> <<"ResizeDisplay">>,
   set_torch |-> <<"SetTorch">>, camera_zoom_in |-> <<"CameraZoomIn">>,
   camera_zoom_out |-> <<"CameraZoomOut">>,
   open_hard_keyboard_settings |-> <<"OpenHardKeyboardSettings">>,
   reset_video |-> <<"ResetVideo">>, configure_ai |-> <<"AiConfig">>,
   query_ai |-> <<"AiQuery">>, pause_ai |-> <<"AiPause">>, launch_app |-> <<"LaunchApp">>,
   set_clipboard |-> <<"SetClipboard">>,
   set_clipboard_sequenced |-> <<"SetClipboardSequenced">>]

ClipboardCalls ==
  [m \in {"request_clipboard", "request_clipboard_key"} |-> <<"GetClipboard">>]

\* The checked gestures end with a barrier; long_press has one in the middle.
GestureCalls ==
  [m \in {"tap", "tap_pointer", "double_tap", "double_tap_pointer"}
     |-> <<"TouchBatchFixed", "FlushAck">>]
    @@ [m \in {"swipe", "swipe_pointer", "three_finger_screenshot"}
          |-> <<"TouchBatchFixed", "TouchBatchFixed", "FlushAck">>]
    @@ [m \in {"long_press", "long_press_pointer"}
          |-> <<"TouchBatchFixed", "FlushAck", "TouchBatchFixed", "FlushAck">>]

\* Only the blocking forms have the barrier.
ScrollCalls ==
  [m \in {"scroll", "scroll_with_buttons"} |-> <<"InjectScroll", "FlushAck">>]
    @@ [m \in {"cancel_touch", "cancel_touch_pointer"} |-> <<"MultitouchCancel", "FlushAck">>]
    @@ [try_scroll |-> <<"InjectScroll">>, try_cancel_touch |-> <<"MultitouchCancel">>,
        send_scroll_batch_fixed |-> <<"InjectScrollBatchFixed">>]

TouchBatchCalls == [send_touch_batch_fixed |-> <<"TouchBatchFixed">>]

BarrierCalls ==
  [flush |-> <<"Flush">>, flush_wait |-> <<"FlushAck">>,
   close |-> <<"Close">>, close_wait |-> <<"FlushAck", "Close">>]

Program == KeyboardCalls @@ MouseCalls @@ GamepadCalls @@ FrameCalls @@ FrameBatchCalls
             @@ PackedFrameCalls @@ AndroidKeyCalls @@ AndroidKeyBatchCalls @@ NamedKeyCalls
             @@ SystemCalls @@ ClipboardCalls @@ GestureCalls @@ ScrollCalls
             @@ TouchBatchCalls @@ BarrierCalls

\* The calls that end with their own barrier.
Checked == {m \in DOMAIN Program : Len(Program[m]) > 1 /\ m # "close_wait"}

ASSUME ClientAssumption ==
  /\ \A p \in Producers : Uses(p) \subseteq DOMAIN Program
  /\ Bound \in Nat \ {0} /\ MaxCmds \in Nat
  /\ \A p \in Producers : MaxCalls(p) \in Nat

\* The tables fit together: what a call sends is a command, the checked calls
\* end with their barrier and do not close, and the commands that the
\* dispatcher handles itself push no message.
ASSUME TablesAgree ==
  /\ \A m \in DOMAIN Program : Program[m] \in Seq(DOMAIN Shape) /\ Program[m] # <<>>
  /\ "none" \notin DOMAIN Program
  /\ \A m \in Checked : /\ Program[m][Len(Program[m])] = "FlushAck"
                         /\ \A i \in 1..Len(Program[m]) : Program[m][i] # "Close"
  /\ \A k \in DOMAIN Shape : Messages(k) \in Nat
  /\ \A k \in {"SetScreenSize", "Flush", "FlushAck", "Close"} : Messages(k) = 0

\* Option::None is neither a command nor a result.
ASSUME NoneAssumption ==
  None \notin [by : Producers, n : Nat, kind : DOMAIN Shape] \cup {"Ok", "Err"}

Command(p, n, k) == [by |-> p, n |-> n, kind |-> k]
Idle == Command(None, 0, "none")

Report(c, part) == [id |-> pushed + 1, size |-> 1, critical |-> FALSE,
                    cmd |-> c, part |-> part]
Destroy == [id |-> pushed + 1, size |-> 1, critical |-> TRUE,
            cmd |-> Idle, part |-> 0]
Failed  == last' = "Err"

\* The receiver exists until the thread has ended.
Alive == disp \notin {"joined", "panicked"}

\* The session has been opened: its UHID_CREATE is on the wire.
Init ==
  /\ LET create == [id |-> 1, size |-> 1, critical |-> TRUE, cmd |-> Idle,
                    part |-> 0]
     IN wire = <<create>> /\ accepted = <<create>>
  /\ pending = <<>> /\ pendingLen = 0
  /\ pushed = 1 /\ written = 1 /\ flushes = 1 /\ last = "Critical"
  /\ call = "idle" /\ batch = <<>> /\ serialized = 0 /\ phase = "live"
  /\ direct \in Modes
  /\ faults = 0
  /\ chan = <<>>
  /\ pc = [p \in Producers |-> "idle"]
  /\ job = [p \in Producers |-> [call |-> "none", at |-> 0, result |-> "Ok", calls |-> 0]]
  /\ out = [p \in Producers |-> Idle]
  /\ slot = [p \in Producers |-> None]
  /\ disp = "recv" /\ cur = Idle /\ step = 0 /\ clean = TRUE
  /\ pendingError = None /\ log = <<>>

-----------------------------------------------------------------------------
(* The client.                                                             *)

dispatcher == <<writer, disp, cur, step, clean, pendingError, log>>

\* Bound: the commands issued so far.
Issued == FoldFunction(LAMBDA c, n : c.n + n, 0, out)

\* The i-th command of a call goes out.
Sending(p, m, i, result) ==
  /\ job' = [job EXCEPT ![p] = [call |-> m, at |-> i, result |-> result,
                               calls |-> IF i = 1 THEN @.calls + 1 ELSE @.calls]]
  /\ out' = [out EXCEPT ![p] = Command(p, out[p].n + 1, Program[m][i])]
  /\ pc' = [pc EXCEPT ![p] = "sending"]

Returned(p, result) ==
  /\ pc' = [pc EXCEPT ![p] = "idle"]
  /\ job' = [job EXCEPT ![p].result = result]
  /\ UNCHANGED out

Call(p, m) ==
  /\ pc[p] = "idle"
  /\ job[p].calls < MaxCalls(p) /\ Issued + Len(Program[m]) <= MaxCmds
  /\ Sending(p, m, 1, "Ok")
  /\ UNCHANGED <<chan, slot, dispatcher>>

\* A step of the call succeeded or failed.  An error returns from it, but
\* close_wait closes in any case and then reports its barrier's result, and
\* close() drops the error of its send.
Advance(p, ok) ==
  LET j == job[p]
      result == IF ok \/ out[p].kind = "Close" THEN j.result ELSE "Err"
  IN IF j.at < Len(Program[j.call]) /\ (ok \/ j.call = "close_wait")
     THEN Sending(p, j.call, j.at + 1, result)
     ELSE Returned(p, result)

Enqueue(p) ==
  /\ pc[p] = "sending" /\ Alive /\ Len(chan) < Bound
  /\ chan' = Append(chan, out[p])
  /\ IF out[p].kind = "FlushAck"
     THEN pc' = [pc EXCEPT ![p] = "waiting"] /\ UNCHANGED <<job, out>>
     ELSE Advance(p, TRUE)
  /\ UNCHANGED <<slot, dispatcher>>

\* The receiver is gone: DispatcherDown.
SendFails(p) ==
  /\ pc[p] = "sending" /\ ~Alive
  /\ Advance(p, FALSE)
  /\ UNCHANGED <<chan, slot, dispatcher>>

\* A try_ call gives its command back when the channel is full; with room it
\* is a call that does not block.
TryFull(p) ==
  /\ pc[p] = "sending" /\ Alive /\ Len(chan) >= Bound
  /\ Len(Program[job[p].call]) = 1
  /\ Returned(p, "Err")
  /\ UNCHANGED <<chan, slot, dispatcher>>

\* FlushSlot::wait returns.
Wake(p) ==
  /\ pc[p] = "waiting" /\ slot[p] # None
  /\ slot' = [slot EXCEPT ![p] = None]
  /\ Advance(p, slot[p] = "Ok")
  /\ UNCHANGED <<chan, dispatcher>>

DropClient(p) ==
  /\ pc[p] = "idle"
  /\ pc' = [pc EXCEPT ![p] = "gone"]
  /\ UNCHANGED <<chan, job, out, slot, dispatcher>>

-----------------------------------------------------------------------------
(* dispatcher_loop and dispatch_to_session.                                *)

Recv ==
  /\ disp = "recv" /\ chan # <<>>
  /\ cur' = Head(chan) /\ chan' = Tail(chan)
  /\ disp' = "run"
  /\ UNCHANGED <<writer, clients, step, clean, pendingError, log>>

\* The command is done with this outcome: the loop receives the next one.
Done(outcome) ==
  /\ log' = Append(log, [cmd |-> cur, ok |-> outcome])
  /\ disp' = "recv" /\ cur' = Idle /\ step' = 0 /\ clean' = TRUE

\* Mutant: a later success clears the error.
RecordLatest(err) == pendingError' = IF err THEN cur ELSE None

\* record_first_error.
RecordFirstError(err) ==
  pendingError' = IF err /\ pendingError = None THEN cur ELSE pendingError

RunMessage ==
  /\ disp = "run" /\ cur.kind \notin Refused /\ step < Messages(cur.kind)
  /\ pushed < MaxPushed
  /\ W!Push(Report(cur, step + 1))
  /\ RecordFirstError(Failed)
  /\ IF step + 1 = Messages(cur.kind) \/ (Shape[cur.kind].stops /\ Failed)
       THEN Done(clean /\ ~Failed)
       ELSE /\ step' = step + 1 /\ clean' = (clean /\ ~Failed)
            /\ UNCHANGED <<disp, cur, log>>
  /\ UNCHANGED <<chan, clients>>

\* The session refuses the call: the device is not open, or a character has
\* no key.
RunRefused ==
  /\ disp = "run" /\ step = 0 /\ cur.kind \in Refused \cup {"TypeTextStrict"}
  /\ RecordFirstError(TRUE)
  /\ Done(FALSE)
  /\ UNCHANGED <<writer, chan, clients>>

RunLocal ==
  /\ disp = "run" /\ cur.kind = "SetScreenSize"
  /\ Done(TRUE)
  /\ UNCHANGED <<writer, chan, clients, pendingError>>

RunFlush ==
  /\ disp = "run" /\ cur.kind = "Flush"
  /\ W!ExplicitFlush
  /\ RecordFirstError(Failed)
  /\ Done(~Failed)
  /\ UNCHANGED <<chan, clients>>

\* Mutant: the barrier does not flush.
RunAckNoFlush ==
  /\ disp = "run" /\ cur.kind = "FlushAck"
  /\ slot' = [slot EXCEPT ![cur.by] =
                IF pendingError # None THEN "Err" ELSE "Ok"]
  /\ pendingError' = None
  /\ Done(pendingError = None)
  /\ UNCHANGED <<writer, chan, pc, job, out>>

\* Mutant: an error leaves the handler before the slot is notified.
RunAckNoNotify ==
  /\ disp = "run" /\ cur.kind = "FlushAck"
  /\ W!ExplicitFlush
  /\ slot' = IF pendingError # None \/ Failed THEN slot
             ELSE [slot EXCEPT ![cur.by] = "Ok"]
  /\ pendingError' = None
  /\ Done(slot'[cur.by] = "Ok")
  /\ UNCHANGED <<chan, pc, job, out>>

\* FlushAck: the error of an earlier command goes before the flush's own,
\* which is then kept for the next barrier.
RunAck ==
  /\ disp = "run" /\ cur.kind = "FlushAck"
  /\ W!ExplicitFlush
  /\ slot' = [slot EXCEPT ![cur.by] =
                IF pendingError # None \/ Failed THEN "Err" ELSE "Ok"]
  /\ pendingError' = IF pendingError # None /\ Failed THEN cur ELSE None
  /\ Done(slot'[cur.by] = "Ok")
  /\ UNCHANGED <<chan, pc, job, out>>

\* session.close(); its error is dropped, but into_inner asserts it succeeded.
CloseSession ==
  /\ pushed < MaxPushed
  /\ W!Push(Destroy)
  /\ disp' = IF Failed THEN "unwind" ELSE "inner"

RunClose ==
  /\ disp = "run" /\ cur.kind = "Close"
  /\ CloseSession
  /\ log' = Append(log, [cmd |-> cur, ok |-> ~Failed])
  /\ UNCHANGED <<chan, clients, cur, step, clean, pendingError>>

\* Mutant: the loop tries again on a disconnected channel.
RecvDisconnectedRetries ==
  /\ disp = "recv" /\ chan = <<>>
  /\ \A p \in Producers : pc[p] = "gone"
  /\ UNCHANGED vars

\* Every clone is gone and the channel is empty.
RecvDisconnected ==
  /\ disp = "recv" /\ chan = <<>>
  /\ \A p \in Producers : pc[p] = "gone"
  /\ CloseSession
  /\ UNCHANGED <<chan, clients, cur, step, clean, pendingError, log>>

\* What the channel still holds is dropped with the receiver.
IntoInner ==
  /\ disp = "inner"
  /\ W!IntoInner
  /\ disp' = IF Failed THEN "drop" ELSE "joined"
  /\ chan' = IF Failed THEN chan ELSE <<>>
  /\ UNCHANGED <<clients, cur, step, clean, pendingError, log>>

\* The assertion unwinds: Drop closes the session once more, then the writer
\* and the receiver are dropped.
Unwind ==
  /\ disp = "unwind" /\ pushed < MaxPushed
  /\ W!Push(Destroy)
  /\ disp' = "drop"
  /\ UNCHANGED <<chan, clients, cur, step, clean, pendingError, log>>

DropThread ==
  /\ disp = "drop"
  /\ W!DropWriter
  /\ disp' = "panicked" /\ chan' = <<>>
  /\ UNCHANGED <<clients, cur, step, clean, pendingError, log>>

-----------------------------------------------------------------------------

ClientStep(p) == Enqueue(p) \/ SendFails(p) \/ Wake(p)

Dispatch == \/ Recv \/ RunMessage \/ RunRefused \/ RunLocal \/ RunFlush \/ RunAck \/ RunClose
            \/ RecvDisconnected \/ IntoInner \/ Unwind \/ DropThread

Next == \/ Dispatch
        \/ \E p \in Producers :
             \/ ClientStep(p) \/ TryFull(p) \/ DropClient(p)
             \/ \E k \in Uses(p) : Call(p, k)

Spec == Init /\ [][Next]_vars

\* The dispatcher thread runs, and so does a producer inside a call; nobody
\* has to start a call or to drop its client.
FairSpec == /\ Spec
            /\ WF_vars(Dispatch)
            /\ \A p \in Producers : WF_vars(ClientStep(p))
-----------------------------------------------------------------------------
(* What must hold.                                                         *)

Commands == [by : Producers, n : 1..MaxCmds, kind : DOMAIN Shape]

TypeOK ==
  /\ chan \in Seq(Commands) /\ Len(chan) <= Bound
  /\ pc \in [Producers -> {"idle", "sending", "waiting", "gone"}]
  /\ job \in [Producers -> [call : DOMAIN Program \cup {"none"}, at : 0..4,
                           result : {"Ok", "Err"}, calls : Nat]]
  /\ out \in [Producers -> Commands \cup {Idle}]
  /\ slot \in [Producers -> {None, "Ok", "Err"}]
  /\ disp \in {"recv", "run", "inner", "unwind", "drop", "joined", "panicked"}
  /\ cur \in Commands \cup {Idle} /\ step \in 0..2 /\ clean \in BOOLEAN
  /\ pendingError \in Commands \cup {None}
  /\ log \in Seq([cmd : Commands, ok : BOOLEAN])

Ran == 1..Len(log)

\* A copy of this message of command c is among the first y on the wire.
OnWire(c, part, y) ==
  \E x \in 1..y : wire[x].cmd = c /\ wire[x].part = part

\* Run b is a flush_wait.
Barrier(b) == log[b].cmd.kind = "FlushAck"

\* The runs of the latest call of p.
Mine(p) == {c \in Ran : /\ log[c].cmd.by = p
                        /\ log[c].cmd.n > out[p].n - Len(Program[job[p].call])}

\* Another clone's barrier ran among them: it may have taken their error.
Disturbed(p) ==
  \E d \in Ran : /\ Barrier(d) /\ log[d].cmd.by # p
                 /\ \E c, e \in Mine(p) : c < d /\ d < e

(* A checked gesture that returned Ok happened: every one of its touches   *)
(* has reached the transport, through the channel, the coalescing buffer   *)
(* and failing writes - unless another clone's barrier came in between,    *)
(* which takes the error of the gesture with it.                           *)
OkCallIsDelivered ==
  \A p \in Producers :
    /\ pc[p] = "idle" /\ job[p].result = "Ok" /\ job[p].call \in Checked
    /\ ~Disturbed(p)
    => /\ Cardinality(Mine(p)) = Len(Program[job[p].call])
       /\ \A c \in Mine(p) :
            \A i \in 1..Messages(log[c].cmd.kind) : OnWire(log[c].cmd, i, Len(wire))

(* No error is lost while a barrier is still to come: a command that fails *)
(* after the last flush_wait is remembered until the next one.             *)
ErrorIsRemembered ==
  \A c \in Ran :
    ~log[c].ok /\ log[c].cmd.kind \notin {"FlushAck", "Close"}
      /\ (\A d \in (c + 1)..Len(log) : ~Barrier(d))
    => pendingError # None

(* flush_wait returns as long as the dispatcher thread does not end first. *)
BarrierReturns ==
  \A p \in Producers : pc[p] = "waiting" ~> pc[p] # "waiting" \/ ~Alive

(* Once every clone has been dropped the dispatcher thread ends.           *)
DispatcherEnds == (\A p \in Producers : pc[p] = "gone") ~> ~Alive

(* The comment at flush_wait: wait until the dispatcher has processed all  *)
(* commands queued before this barrier - so the wait is over when it has.  *)
FlushWaitReturns ==
  \A p \in Producers : pc[p] = "waiting" ~> pc[p] # "waiting"
=============================================================================
