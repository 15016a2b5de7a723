---------------------------- MODULE FrameBatcher ----------------------------
(***************************************************************************)
(* The frame batchers of src/client.rs: a buffer on the caller's thread    *)
(* that collects frames and hands them to the client as one command when   *)
(* it is full, on flush, and once more when it is dropped.  Seven kinds    *)
(* share two mechanics.  The touch, keyboard, Android key, mouse and       *)
(* scroll batchers flush before they store a frame that does not fit; the  *)
(* gamepad and packed batchers also flush right after the frame that fills *)
(* them, and with a batch size above the fixed array they keep a Vec.      *)
(*                                                                         *)
(* The client is its bounded channel, drained by a dispatcher that may     *)
(* end, or (gamepad fast path) a ring in front of a channel whose receiver *)
(* is gone.  A frame is the call that made it, its place in that call, and *)
(* for keys what it presses or releases and whether it carries modifiers   *)
(* (a keyboard's) or a metastate (an Android key's).                       *)
(***************************************************************************)
EXTENDS Naturals, Sequences, SequencesExt, SequenceOps

CONSTANTS
  Kinds,       \* kinds of batchers
  FixedFrames, \* *_BATCH_FRAMES, DIRECT_GAMEPAD_BATCH_FRAMES
  BatchSizes,  \* batch sizes asked for (gamepad and packed)
  ChordKeys,   \* KEYBOARD_CHORD_KEYS
  Bound,       \* bound of the channel
  RingSlots,   \* RING_CAPACITY
  MaxFrames,   \* bound: frames of all calls
  MaxTries     \* bound: times one such call is made

ASSUME BatcherAssumption ==
  /\ Kinds \subseteq {"touch", "keyboard", "android_key", "mouse", "scroll",
                      "gamepad", "packed"}
  /\ FixedFrames \in Nat \ {0} /\ BatchSizes \subseteq Nat
  /\ ChordKeys \in Nat \ {0} /\ Bound \in Nat \ {0} /\ RingSlots \in Nat \ {0}

VARIABLES
  kind, size, vec,  \* the batcher: its kind, its capacity, Vec or array
  fast,      \* the client has a gamepad ring
  buf,       \* frames in the batcher
  pc,        \* "idle", "loop" in a push, "flush", "ring" (a batch goes into
             \* the ring frame by frame), "dropped"
  todo,      \* frames of the running call that are not stored yet
  slice,     \* the running call copies whole slices
  try,       \* the running call does not block
  at,        \* next frame of buf to go into the ring,
  spilled,   \* and how many the ring refused
  chan, alive, ring, \* the channel, its receiver, the ring
  delivered, \* history: frames taken out of the channel or the ring
  calls      \* history: the calls, with their frames, result and tries

batcher == <<kind, size, vec, fast>>
running == <<todo, slice, try>>
flush   == <<at, spilled>>
client  == <<chan, alive, ring, delivered>>
batcherVars == <<batcher, buf, pc, running, flush, client, calls>>

-----------------------------------------------------------------------------
(* The frames of a call.  c is the number of the call.                     *)

Frame(c, i, act, key, mods) ==
  [call |-> c, at |-> i, act |-> act, key |-> key, mods |-> mods]
Plain(c, n) == [i \in 1..n |-> Frame(c, i, "data", "none", FALSE)]

\* Mutant: the modifiers of a chord stay set on its last release.
edge_frames_keeps_mods(c, keys) ==
  LET n == Len(keys) IN
    [i \in 1..(2 * n) |->
       IF i <= n THEN Frame(c, i, "press", keys[i], TRUE)
       ELSE Frame(c, i, "release", keys[2 * n + 1 - i], TRUE)]

\* The edges of a chord: pressed in order, released in reverse order, the
\* modifiers cleared with the last release.
edge_frames(c, keys) ==
  LET n == Len(keys) IN
    [i \in 1..(2 * n) |->
       IF i <= n THEN Frame(c, i, "press", keys[i], TRUE)
       ELSE Frame(c, i, "release", keys[2 * n + 1 - i], i < 2 * n)]

\* KeyboardChordFrame::try_new: at most ChordKeys keys, no modifier.
Chords == {ks \in {<<"a">>, <<"a", "b">>, <<"b", "a", "c">>, <<"shift">>} :
             Len(ks) <= ChordKeys /\ ks # <<"shift">>}

\* down, move_to, up and cancel are one frame each.
TouchCalls(c)      == {Plain(c, 1)}
Tap(c, k, mods)    == <<Frame(c, 1, "press", k, mods),
                        Frame(c, 2, "release", k, FALSE)>>
\* tap_keycode and tap_key_with_metastate pass the metastate to both events.
AndroidTap(c, k, meta) == <<Frame(c, 1, "press", k, meta),
                            Frame(c, 2, "release", k, meta)>>
KeyboardCalls(c)   == {Tap(c, "a", TRUE)} \cup {edge_frames(c, ks) : ks \in Chords}
AndroidKeyCalls(c) == {AndroidTap(c, "home", m) : m \in BOOLEAN}
MouseCalls(c)      == {Plain(c, 1)}
ScrollCalls(c)     == {Plain(c, 1)}
GamepadCalls(c)    == {Plain(c, n) : n \in {1, 3}}
PackedCalls(c)     == {Plain(c, n) : n \in {1, 3}}

Frames(k, c) ==
  CASE k = "touch"       -> TouchCalls(c)
    [] k = "keyboard"    -> KeyboardCalls(c)
    [] k = "android_key" -> AndroidKeyCalls(c)
    [] k = "mouse"       -> MouseCalls(c)
    [] k = "scroll"      -> ScrollCalls(c)
    [] k = "gamepad"     -> GamepadCalls(c)
    [] k = "packed"      -> PackedCalls(c)

-----------------------------------------------------------------------------
(* The kinds: capacity, and whether the buffer is a Vec.                   *)

Batcher(k, n, v) == kind = k /\ size = n /\ vec = v

TouchFrameBatcher      == Batcher("touch", FixedFrames, FALSE)
KeyboardFrameBatcher   == Batcher("keyboard", FixedFrames, FALSE)
AndroidKeyFrameBatcher == Batcher("android_key", FixedFrames, FALSE)
MouseFrameBatcher      == Batcher("mouse", FixedFrames, FALSE)
ScrollFrameBatcher     == Batcher("scroll", FixedFrames, FALSE)

\* batch_size.max(1); use_fixed when it fits the array.
Sized(k, b) == LET n == IF b = 0 THEN 1 ELSE b IN Batcher(k, n, n > FixedFrames)
GamepadFrameBatcher       == \E b \in BatchSizes : Sized("gamepad", b)
PackedGamepadFrameBatcher == \E b \in BatchSizes : Sized("packed", b)

\* The gamepad and packed batchers flush after the frame that fills them.
Eager == kind \in {"gamepad", "packed"}

BatcherInit ==
  /\ kind \in Kinds
  /\ \/ TouchFrameBatcher \/ KeyboardFrameBatcher \/ AndroidKeyFrameBatcher
     \/ MouseFrameBatcher \/ ScrollFrameBatcher
     \/ GamepadFrameBatcher \/ PackedGamepadFrameBatcher
  /\ fast \in {FALSE, kind = "gamepad"}
  /\ buf = <<>> /\ pc = "idle" /\ todo = <<>> /\ slice = FALSE /\ try = FALSE
  /\ at = 1 /\ spilled = 0
  /\ chan = <<>> /\ alive = ~fast /\ ring = <<>> /\ delivered = <<>>
  /\ calls = <<>>

-----------------------------------------------------------------------------
(* The calls.                                                              *)

Full == Len(buf) >= size

Start(fs, sl) == /\ pc' = "loop" /\ todo' = fs
                 /\ slice' = sl /\ try' \in BOOLEAN
                 /\ UNCHANGED <<batcher, buf, flush, client>>

\* Bound: the frames of the calls made so far.
Handed == FoldSeq(LAMBDA c, n : Len(c.frames) + n, 0, calls)

\* push, push_many, push_many_slice, the helpers and their try_ forms: a tap
\* pushes its edges one by one, a chord copies a slice.
Push ==
  /\ pc = "idle"
  /\ \E fs \in Frames(kind, Len(calls) + 1), sl \in BOOLEAN :
       /\ Handed + Len(fs) <= MaxFrames
       /\ calls' = Append(calls, [frames |-> fs, slice |-> sl, res |-> "Busy",
                                  tries |-> 1])
       /\ Start(fs, sl)

\* Bound: a batch that failed may leave copies in the ring each time it is
\* flushed again.
FewCopies == Len(delivered) + Len(ring) < MaxFrames

\* The caller makes the call that failed once more.
Retry ==
  LET c == Len(calls) IN
  /\ pc = "idle" /\ c > 0 /\ calls[c].res = "Err" /\ calls[c].tries < MaxTries /\ FewCopies
  /\ calls' = [calls EXCEPT ![c].res = "Busy", ![c].tries = @ + 1]
  /\ Start(calls[c].frames, calls[c].slice)

Return(r) ==
  /\ pc' = "idle" /\ todo' = <<>> /\ slice' = FALSE /\ try' = FALSE
  /\ at' = 1 /\ spilled' = 0
  /\ calls' = IF calls # <<>> /\ calls[Len(calls)].res = "Busy"
                THEN [calls EXCEPT ![Len(calls)].res = r] ELSE calls

\* The batch is full before a frame is stored; a Vec takes it all the same.
Blocked == Full /\ ~(vec /\ ~slice)

\* How many frames one turn of the loop stores.
Turn == IF ~slice THEN 1
        ELSE IF size - Len(buf) < Len(todo) THEN size - Len(buf) ELSE Len(todo)

Store ==
  /\ pc = "loop" /\ todo # <<>> /\ ~Blocked
  /\ buf' = buf \o SubSeq(todo, 1, Turn)
  /\ todo' = SubSeq(todo, Turn + 1, Len(todo))
  /\ pc' = IF Len(buf') >= size /\ (Eager \/ slice) THEN "flush" ELSE "loop"
  /\ UNCHANGED <<batcher, slice, try, flush, client, calls>>

PushReturn ==
  /\ pc = "loop" /\ todo = <<>>
  /\ Return("Ok")
  /\ UNCHANGED <<batcher, buf, client>>

\* flush and try_flush called by the user.
Flush ==
  /\ pc = "idle" /\ buf # <<>>
  /\ FewCopies
  /\ pc' = "flush" /\ try' \in BOOLEAN
  /\ UNCHANGED <<batcher, buf, todo, slice, flush, client, calls>>

-----------------------------------------------------------------------------
(* One flush.                                                              *)

Flushing == pc = "flush" \/ (pc = "loop" /\ todo # <<>> /\ Blocked)

\* The frames are taken: the loop, or the user, goes on with an empty batch.
Flushed ==
  /\ buf' = <<>>
  /\ IF todo = <<>> THEN Return("Ok")
     ELSE pc' = "loop" /\ at' = 1 /\ spilled' = 0 /\ UNCHANGED <<running, calls>>

\* A single frame of a gamepad batcher goes through send_frame, which tries
\* the ring first; a batch goes into the ring only from the array and when the
\* call may block.  Everything else goes to the channel.
RingSingle == fast /\ Len(buf) = 1
RingBatch  == fast /\ Len(buf) > 1 /\ ~vec /\ ~try
ToChannel  == ~RingSingle /\ ~RingBatch

SendOk ==
  /\ Flushing /\ ToChannel /\ alive /\ Len(chan) < Bound
  /\ chan' = Append(chan, buf)
  /\ Flushed
  /\ UNCHANGED <<batcher, alive, ring, delivered>>

\* Mutant: the frames are gone although the send failed.
SendErrClears ==
  /\ Flushing /\ ToChannel /\ (~alive \/ (try /\ Len(chan) >= Bound))
  /\ Return("Err") /\ buf' = <<>>
  /\ UNCHANGED <<batcher, client>>

\* Mutant: only a full channel is an error.
SendErrFullOnly ==
  /\ Flushing /\ ToChannel /\ try /\ Len(chan) >= Bound
  /\ Return("Err")
  /\ UNCHANGED <<batcher, buf, client>>

\* Disconnected, or full and the call does not block: the batch stays.
SendErr ==
  /\ Flushing /\ ToChannel /\ (~alive \/ (try /\ Len(chan) >= Bound))
  /\ Return("Err")
  /\ UNCHANGED <<batcher, buf, client>>

RingOne ==
  /\ Flushing /\ RingSingle
  /\ IF Len(ring) < RingSlots THEN ring' = Append(ring, buf[1]) /\ Flushed
                              ELSE Return("Err") /\ UNCHANGED <<ring, buf>>
  /\ UNCHANGED <<batcher, chan, alive, delivered>>

RingBegin ==
  /\ Flushing /\ RingBatch
  /\ pc' = "ring" /\ at' = 1 /\ spilled' = 0
  /\ UNCHANGED <<batcher, buf, running, client, calls>>

RingPush ==
  /\ pc = "ring" /\ at <= Len(buf)
  /\ IF Len(ring) < RingSlots
       THEN ring' = Append(ring, buf[at]) /\ UNCHANGED spilled
       ELSE spilled' = spilled + 1 /\ UNCHANGED ring
  /\ at' = at + 1
  /\ UNCHANGED <<batcher, buf, pc, running, chan, alive, delivered, calls>>

\* Mutant: what the ring refused is not handed on, the batch counts as sent.
RingEndDropsSpill ==
  /\ pc = "ring" /\ at > Len(buf)
  /\ Flushed
  /\ UNCHANGED <<batcher, client>>

\* What was spilled goes to the channel, which is disconnected: the whole
\* batch is put back, with the frames the ring has taken.
RingEnd ==
  /\ pc = "ring" /\ at > Len(buf)
  /\ IF spilled = 0 THEN Flushed ELSE Return("Err") /\ UNCHANGED buf
  /\ UNCHANGED <<batcher, client>>

\* Mutant: the batcher is dropped without a last flush.
DropSilent ==
  /\ pc = "idle"
  /\ pc' = "dropped" /\ buf' = <<>>
  /\ UNCHANGED <<batcher, running, flush, client, calls>>

\* Drop: one try_flush; its error is swallowed and the frames are gone.
Drop ==
  /\ pc = "idle"
  /\ pc' = "dropped" /\ buf' = <<>>
  /\ chan' = IF buf # <<>> /\ ~fast /\ alive /\ Len(chan) < Bound
               THEN Append(chan, buf) ELSE chan
  /\ ring' = IF RingSingle /\ Len(ring) < RingSlots THEN Append(ring, buf[1])
             ELSE ring
  /\ UNCHANGED <<batcher, running, flush, alive, delivered, calls>>

-----------------------------------------------------------------------------
(* The other end.                                                          *)

\* The dispatcher runs the next command, or the ring's consumer the next frame.
Dispatch ==
  /\ \/ /\ alive /\ chan # <<>>
        /\ delivered' = delivered \o Head(chan) /\ chan' = Tail(chan)
        /\ UNCHANGED ring
     \/ /\ ring # <<>>
        /\ delivered' = Append(delivered, Head(ring)) /\ ring' = Tail(ring)
        /\ UNCHANGED chan
  /\ UNCHANGED <<batcher, buf, pc, running, flush, alive, calls>>

\* The dispatcher ends; what the channel holds is dropped with the receiver.
DispatcherEnds ==
  /\ alive
  /\ alive' = FALSE /\ chan' = <<>>
  /\ UNCHANGED <<batcher, buf, pc, running, flush, ring, delivered, calls>>

CallStep == \/ Store \/ PushReturn \/ SendOk \/ SendErr
            \/ RingOne \/ RingBegin \/ RingPush \/ RingEnd

BatcherNext == Push \/ Retry \/ Flush \/ Drop \/ CallStep \/ Dispatch \/ DispatcherEnds

BatcherSpec == BatcherInit /\ [][BatcherNext]_batcherVars

\* A call goes on, and the dispatcher keeps draining as long as it lives.
BatcherFairSpec == BatcherSpec /\ WF_batcherVars(CallStep) /\ WF_batcherVars(Dispatch)

-----------------------------------------------------------------------------
(* What must hold.                                                         *)

\* What was delivered, and what is still under way, in order.
Stream == delivered \o FlattenSeq(chan) \o ring \o buf

\* A call whose outcome the caller can rely on: it succeeded at once, or it is
\* one push of a batcher that stores after it has flushed, however often it
\* was tried; a failed call of that sort has stored nothing.
OneFrame(c) == Len(calls[c].frames) = 1 /\ ~calls[c].slice /\ ~Eager
Settled(c)  == \/ calls[c].res = "Ok" /\ calls[c].tries = 1
               \/ calls[c].res # "Busy" /\ OneFrame(c)
StoredBy(c) == IF calls[c].res = "Ok" THEN calls[c].frames ELSE <<>>

Settle == [c \in 1..Len(calls) |-> IF Settled(c) THEN StoredBy(c) ELSE <<>>]

(* Back-pressure neither loses, repeats nor reorders a frame: while the    *)
(* dispatcher lives and the batcher has not been dropped, the frames of    *)
(* the calls that returned Ok are delivered, queued or buffered exactly    *)
(* once and in the order of the calls - whatever failed in between, and    *)
(* for single frames of the five array batchers even when the caller tried *)
(* again - and a refused single frame is nowhere.  And no call that has    *)
(* returned Ok is missing a frame, also on the gamepad fast path, where a  *)
(* full ring takes a batch in part: only a batch it took whole counts as   *)
(* sent.                                                                   *)
OkFramesOnceInOrder ==
  /\ alive /\ pc # "dropped" =>
       Only(Stream, {f \in Range(Stream) : Settled(f.call)}) = FlattenSeq(Settle)
  /\ (alive \/ fast) /\ pc # "dropped" =>
       \A c \in 1..Len(calls) :
         calls[c].res = "Ok" => Range(calls[c].frames) \subseteq Range(Stream)

(* Drop loses frames only when the channel had no room for them: a batcher *)
(* dropped with room in the channel has handed over every frame.           *)
DropHandsOver ==
  [][pc # "dropped" /\ pc' = "dropped" /\ alive /\ Len(chan) < Bound =>
       delivered' \o FlattenSeq(chan') = Stream]_batcherVars

\* The keys call c has down after the frames s: pressed and not released.
Down(s, c) == {f.key : f \in {s[i] : i \in {j \in 1..Len(s) :
                 s[j].call = c /\ s[j].act = "press"
                 /\ \A l \in (j + 1)..Len(s) :
                      ~(s[l].call = c /\ s[l].act = "release" /\ s[l].key = s[j].key)}}}

(* A tap or a chord that returned Ok lets go of everything: each of its    *)
(* keys is released after it was pressed, and a keyboard's last frame      *)
(* holds no modifier.  (An Android key is released with the metastate it   *)
(* was pressed with, which says nothing of later events.)                  *)
TapsLetGo ==
  alive /\ pc # "dropped" /\ kind \in {"keyboard", "android_key"} =>
    \A c \in 1..Len(calls) : calls[c].res = "Ok" =>
      /\ Down(Stream, c) = {}
      /\ \E i \in 1..Len(Stream) :
           /\ Stream[i].call = c /\ (kind = "keyboard" => ~Stream[i].mods)
           /\ \A j \in (i + 1)..Len(Stream) : Stream[j].call # c

(* A blocking push returns: the dispatcher drains the channel, or ends and *)
(* makes the send fail.                                                    *)
CallReturns == pc \in {"loop", "flush", "ring"} ~> pc = "idle"
=============================================================================
