# android-hid-connect: a TLA+ model

`android-hid-connect` is a Rust workspace that lets a program act as a
keyboard, mouse, gamepad and touch screen of an Android phone. The library
writes scrcpy-style control messages (UHID_CREATE, UHID_INPUT, UHID_DESTROY,
touch and key injection, ...) to a byte transport and reads the server's
answers; the `ai-device-kernel` crate puts an observation stream, predicates,
plans and a daemon on top of it.

This directory models both: the path from a caller's method to the bytes on the
wire (buffering, failure, rollback, a lock-free ring, many clones sharing a
dispatcher, batchers, HID drivers), the way back (receivers), and the kernel
(stream, memory, daemon threads, bridge, plans). TLC checks small instances of
all of it; TLAPS proves the writer, the session, touch input, the client with
its dispatcher, the ring and the fast path on it, the batchers, the HID drivers,
the receivers, the daemon and the plan executor for every value of their
parameters.

Files: `*.tla` modules, `*.cfg` TLC configurations, `PROJECT.json` (components,
runs, mutants, the map from definitions to source lines, hazards, findings,
theorems). `tlc -config X.cfg M` runs one check, `tlapm M.tla` one proof.

## 1. Inventory

Paths are relative to the repository; `lib` is `src/`, `kernel` is
`ai-device-kernel/src/`, `protocol` is `android-hid-protocol/src/`.

| component | state | operations | talks to | module |
|---|---|---|---|---|
| coalescing writer (`lib/coalesce.rs`) | `pending` buffer, statistics, mode | push (buffered, critical, direct), gamepad batches, flush_now, into_inner, Drop | the transport, by write_all + flush | CoalescingWriter |
| session (`lib/session.rs`) | devices opened, gamepad slot, `closed` | open, input senders, flush_now, close, into_inner, Drop | owns the writer | HidSession |
| gesture helpers, guards (`lib/session.rs`) | progress of one helper, pressed pointers in a guard | tap, long press, double tap, swipe, drag, pinch, multi-finger tap, screenshot, chord, type_text | session sends | Gestures |
| multi-touch handle (`lib/multitouch.rs`) | one flag per pointer | down, move_to, up, cancel, pinch, release_all, flush_now | borrows the session | MultitouchHandle |
| HID drivers (`lib/hid/*.rs`) | key bitmap, scroll residual, gamepad slots | report builders, deduplicating setters | used by the session | HidDrivers |
| gamepad ring (`lib/gamepad_ring.rs`) | two atomic counters, slots | push, pop, len | one producer and one consumer thread | GamepadRing |
| gamepad fast path (`lib/client.rs`) | ring, close flag, error flag | send_frame*, close, consumer loop, join | consumer thread owns the session | GamepadFastPath |
| client and dispatcher (`lib/client.rs`) | bounded channel, `pending_error`, FlushSlots | blocking and try_ commands, checked gestures, flush_wait, close, clone, drop, join | dispatcher thread owns the session | HidClient |
| frame batchers (`lib/client.rs`) | arrays or Vecs of frames | push, slices, taps, chords, flush, try_ forms, Drop | the client | FrameBatcher |
| receivers (`lib/device.rs`, `lib/async_device.rs`) | read buffer, channel, latest frame | pumps, recv, wait for a frame, close | the phone's answers | DeviceReceiver |
| kernel stream engine (`kernel/stream_engine.rs`) | history, subscriber queues, sequence numbers | produce, subscribe with gap-fill, poll, unsubscribe | daemon, plan executor | StreamEngine |
| kernel memory (`kernel/memory*.rs`) | LRU of screens, SQLite rows | record, look up, evict, persist, open | daemon | KernelMemory |
| kernel daemon (`kernel/bin/adk.rs`) | shared state behind mutexes | one thread per connection: action, plan, query, observe, end | all of the kernel | KernelDaemon |
| kernel bridge (`kernel/bridge.rs`) | a session | apply, apply_many, maybe_flush | session | ActionBridge |
| kernel predicates, plans (`kernel/predicate*.rs`, `kernel/plan_executor.rs`) | registered predicates, step index, trace | register, tick, wait_for, execute, verify, abort | bridge, stream | PlanExecutor |
| control messages (`lib/control/message.rs`) | - | serialize_into, is_critical | used by the writer | in CoalescingWriter |
| transport (`lib/transport/mod.rs`) | sockets, adb child | connect, read, write | the operating system | what the writer relies on |
| kernel rest (capability, egress, LLM stubs, JSON), protocol crate | tables | lookups, codecs | kernel parts | not modelled |

Behaviours that are hard to test, in one line each (the full list, with the
lines where they bite, is `hazards` in `PROJECT.json`):

* a write fails after an unknown part of the buffer arrived, and is retried;
* critical messages that bypass the buffer must not reorder anything;
* open, close, Drop, gestures, batches and plans consist of several sends, any
  of which may fail, and are rolled back, retried or abandoned half way;
* drivers record a new state before the report that carries it is sent;
* a lock-free ring with wrapping counters and stale loads;
* close() racing a push, a barrier, a blocked send or a dying thread;
* one error slot shared by all clones;
* a socket that goes quiet, or ends, in the middle of a message;
* condition variables and watch channels whose newest value is replaced while a
  waiter is on its way;
* connection threads that draw a number under one lock and publish it under
  another; a crash between the memory and its file;
* verification against an observation older than the action;
* liveness: barriers return, calls return, waiters wake, threads end.

## 2. Modules

```
CoalescingWriter [P]
   |  INSTANCEd by
   +-- HidSession [P]
   +-- Gestures --------------+
   +-- MultitouchHandle ------+--> TouchInput [P]
   +-- HidDrivers [I] <- MCHidDrivers
   +-- HidClient [P]  <- MCHidClient

BoundedFifo <= GamepadRing [I] <- GamepadFastPath [I]

StreamEngine --+-- KernelMemory --> KernelDaemon [K] <- MCKernelDaemon
               +-- ActionBridge --> PlanExecutor [K] <- MCPlanExecutor

FrameBatcher [I]                         DeviceReceiver [P]
```

[P]: the theorems about module M, with their proofs, are in module MProofs.
[I]: they are in InputProofs. [K]: they are in KernelProofs. The modules of [I],
and those of [K], have no state in common and are proved one after the other;
what several of them need to know about sequences is in SequenceLemmas.
SequenceOps, used by FrameBatcher and StreamEngine, is a selection on sequences
as a recursive function.

The session, the gestures, the touch handle, the drivers and the dispatcher run
over the *real* writer, with its buffer, its retries and its faults, not over a
perfect channel. GamepadFastPath runs over the real ring. StreamEngine,
KernelMemory and ActionBridge have no thread of their own in the code; they are
operators on values, and the modules that extend them decide who calls them and
under which lock. The MC modules hold only the constants of an instance.

### CoalescingWriter

`pending` is kept as a sequence of messages with `pendingLen` its byte length;
`pushed`, `written`, `flushes` are the statistics; `last` is what the last call
returned; `direct` is the mode the constructor chose. A call is one step, as
the writer is used through `&mut self`; a batch is one step per frame
(`BatchFrame`) or per chunk (`BatchChunk`), since every write inside it may
fail. The clock is abstracted: at each check the window may or may not have
elapsed. The transport (`WriteOk`, `WriteErr`) takes the buffer or fails after
any prefix of whole messages, all of it included (only `flush()` failed). The
history variable `accepted` is the sequence of messages the writer has taken
responsibility for.

* `NothingLost`: an accepted message is on the wire or in the buffer.
* `ExactlyOnceInOrder`: without errors coalescing is invisible.
* `CausalOrder`: retries repeat messages but never reorder them.
* `FlushedMeansDelivered`: a reported flush has left nothing behind.

### HidSession

`have` is which of kbd / mouse / gamepad is `Some`, `slot` the driver's own
record that the gamepad is open, `closed` the flag. open, close (`closing`) and
Drop (`dropping`) are one step per send. What the phone has is not a variable
but read off the wire (`OnDevice`), so no assumption about the phone enters.
`CreatedBeforeUse`, `CloseIsComplete`, `OpenRollsBack` and `CreatesArePaired`
relate the wire to what the caller was told.

### Gestures, MultitouchHandle, TouchInput

Each helper of Gestures is the sequence of messages it sends (`Script`),
executed send by send. The guards are modelled as the code has them:
tap_pointer has TouchGuard, multi_finger_tap calls release_all, key_chord has
KbdChordGuard, no other helper has one. `pressed` is the guard's list; a
message whose push reported an error is not in it. In MultitouchHandle `active`
is the handle's array of flags; pinch moves its two pointers one send at a time
(`PinchStep`), release_all lifts the lowest pointer that is still active and
stops at the first error (`ReleaseStep`). TouchInput puts both on one session: the handle
borrows it mutably, so a helper runs only while no handle is held, but what a
dropped handle left pressed (`stray`) is still there for the next helper.

* `NeverHalfPressed`: between two calls nothing is pressed, within exactly the
  conditions under which the code achieves it (no fault; or direct mode and one
  send that failed, delivered nothing and cut short no unguarded helper) and but
  for the modifier of type_text; `RollbackOnlyReleases`: a rollback undoes and
  never presses.
* `FlagsMirrorPhone`, `WellFormedTouchStream`: the handle's flags against the
  touch stream the phone gets, fingers an earlier handle left down apart.

### HidDrivers

What a driver believes the phone has been told (`keys`, `device_mod`,
`residual`, `slots`), the calls that change it, and the reports, through the
real writer. A call is a `script` of events, each one driver update and one
push. The history variables record what was asked (`asked`, `scrolled`) and the
reasons the code has for a difference (`stale`, `clipped`). f32 scrolling is
fixed point in halves, so that a residual below a whole step exists. A slot that
was never opened is raw zero (`Unused`), an opened one has its sticks in the
middle (`Neutral`). The scan
of build_report over the key bitmap is a recursive function (`KeyScan`, one key
in `AddKey`), and so is what the phone makes of the messages it is sent
(`PhoneViews`, `WheelSums`): the proofs do induction over them. The wire's
CREATE after a DESTROY that was lost finds the old device, whose state the new
slot does not know; `stale` says so.

* `PadAsAsked`: the deduplication is sound: the phone has, or will have, the
  pad the calls asked for, except for what `stale` names (section 4).
* `KeyboardHeals`: any accepted keyboard report repairs what was lost before.
* `ScrollConserved`: steps reported and residual add up to what was asked.

### GamepadRing and BoundedFifo

push is three steps (load tail and test, write slot, publish head) and so is
pop. head and tail count modulo `Wrap`, which stands for 2^64; the slot is the
remainder by `Capacity`. The producer's Relaxed load may return any value of
tail between the last one it saw and the current one (`Loadable`). The
consumer's view of head is the current one: the Acquire load pairs with the
Release store, and reading an older head is the same as having run earlier.
`SlotExclusive` is what both `unsafe` blocks rest on, `NoUninitRead` what
`assume_init_read` rests on, and `RingIsFifo` says the ring implements
`BoundedFifo` under the mapping `q <- Queue` (what lies between tail and head),
`taken <- got`. `len` and `is_empty` are diagnostics and are left out.

### GamepadFastPath

Extends the ring: the producer's send calls (one frame or a batch), the
spill-over to a channel whose receiver is gone, close() from any clone, and the
consumer thread: pop, inject, look at the close flag, close the session, take
the transport out. `DeliveredInOrder`, and the liveness properties `CloseStops`
and `PushedIsInjected`. The ring's own properties are checked on this
composition, so that they hold with the callers the code really has.

### HidClient

Clones (`Producers`) call methods; a method is the sequence of commands it puts
on a channel of `Bound` entries (`Program`), each a step to enqueue or to be
refused, and for flush_wait a step to wake up. Checked gestures (tap,
long_press, ...) end in their own barrier. The dispatcher takes commands in
order and pushes their messages into the writer one step each (`Messages`);
commands differ in whether they stop at their first failing message, go on, are
refused before any message, flush, acknowledge or close. `close` ends with
into_inner, which panics when the session did not close; the panic drops the
session (one more attempt), the writer and the receiver. `log` is the history
of commands and outcomes.

* `OkCallIsDelivered`: a checked gesture that returned Ok is on the wire,
  unless another clone's barrier took its error.
* `ErrorIsRemembered`: an error waits for the next barrier.
* `BarrierReturns`, `DispatcherEnds`: liveness.

### FrameBatcher

The seven batchers of client.rs share two mechanics, fill-then-flush and
flush-then-store; `kind`, `size` and `vec` choose. A push, slice, tap or chord
is a loop over its frames with a flush inside; a flush takes the frames out,
sends them (channel, or ring frame by frame with spill-over) and puts them back
when the send fails. The dispatcher drains the channel or ends. `calls` is the
history of calls and results; a caller may try a refused call again.

* `OkFramesOnceInOrder`: back-pressure neither loses, repeats nor reorders; and
  a call that returned Ok misses no frame, also on the gamepad fast path, where
  a full ring takes a batch in part.
* `TapsLetGo`: an Ok tap or chord releases every key it pressed, and a
  keyboard's ends without a modifier. An Android key goes up with the metastate
  it went down with, as tap_keycode and tap_key_with_metastate send it.
* `DropHandsOver`: Drop loses frames only when the channel has no room.
* `CallReturns`: a blocking call ends.

### DeviceReceiver

A message is two halves on the socket, because `read_exact` can time out or
meet the end of the stream between them. The pump reads, decodes (a payload
parses or is InvalidData) and hands on in one of four modes: two channels, a
mutex with a condition variable, a watch channel. A waiter notes the version it
has seen, checks, and sleeps. With the condition variable the check and the
sleep are one critical section, and a publish wakes every sleeper (a wake-up
may also be spurious); with the watch channel a handle keeps the version it has
seen, and sleeps until there is another or the sender is gone.

* `ChannelFaithful`: what consumers get is a prefix of what was sent, then at
  most one error.
* `FreshFrame`: a wait never returns a frame older than its boundary.
* `WaiterWakes`: a waiter whose frame, or whose pump's error, is there wakes.

### StreamEngine, KernelMemory, KernelDaemon

StreamEngine: `produce` numbers an observation, appends it to the bounded
history and offers it to each subscriber's bounded queue, which drops its
oldest and counts. `subscribe` replays from history. KernelMemory: the LRU map
and the rowid order of its SQLite table (INSERT OR REPLACE moves a row to the
end); opening the file is a recursive function over its rows and their actions.
KernelDaemon: connection threads whose step is one critical section or
one atomic operation; building an observation holds the stream lock across the
state lock (`Produce`, `Record`). An empty plan goes straight to its final
observation. A link may be lost, a response write or a
persist may fail, and a crash keeps only `rows`.

* `StateFollowsStream`: the state model sees what the subscribers see.
* `RestartRemembers`: a restart rebuilds the memory, recency included.
* `AnswersInOrder`: sequence numbers on one connection increase, and plans stop
  where abort_on_error says.

### ActionBridge, PlanExecutor

A call of the bridge yields the set of its possible results over a `link`
(buffer, wire, faults). An action is refused before anything is staged (a read,
a closed gamepad, a payload too large for the wire: `bad = "early"`, with either
of the codes classify_session_error gives these), or after (text with a
character it cannot type: `"char"`), or staged and flushed. PlanExecutor is a host on one thread: it runs plans
(wait_before, action, drain, verify_after, record, checkpoint), waits for
predicates with a deadline, applies single actions and chunks, subscribes and
polls, while observations queue in a feed. An observation carries how many
actions had been applied when it was captured. What a batch may do is a
recursive function over its actions (`ApplyRuns`), what a helper may stage one
over its messages (`Stages`), and the gap-fill one over the history (`Pushes`):
the sets of possible results after 0, 1, ... of them.

* `WaitEndsAtDeadline`: a late wait looks at one observation and returns.
* `CleanCallDelivered`, `PlanDelivered`: what a clean outcome vouches for.
* `CopiesBounded`: how often a retried action can reach the phone.
* `SubscribersAccounted`: polled, queued or counted as dropped.

## 3. Runs

| run | instance | distinct states | shows |
|---|---|---|---|
| writer | limit 5, messages of 2 and 3 bytes, chunks of 2, 5 pushes, batches to 3, 2 faults, both modes | 452 thousand | the four writer properties |
| session | any subset of devices, 3 inputs, 2 faults, both modes | 2.2 million | life cycle with a failure between any two sends |
| touch | ten helpers, 2 pointers, 1 handle, 1 helper, 1 fault, both modes | 1.6 million | guards and flags on one session |
| fast_path | capacity 3, counters mod 6, 8 frames, batches to 4, 1 fault, fair | 57 thousand | atomic grain, wrap, FIFO refinement, consumer thread, liveness |
| client | 2 clones, channel of 1, at most 5 commands, 1 fault, fair | 270 thousand | checked gestures, barriers, errors, close, liveness |
| batchers | 7 kinds, array of 2, sizes 0, 2, 3, chords to 2 keys, channel of 1, ring of 2, 4 frames, 2 tries, fair | 398 thousand | back-pressure, retries, Drop, liveness |
| drivers | 3 keys with roll-over above 2, 2 pads, 3 reports, scrolls of -3, 0, 1 and 5 halves, clamp at 2 steps, 1 fault, both modes | 2.9 million | drivers against the phone |
| receiver | 4 modes, 4 message kinds, 2 messages in halves, channel of 1, 2 waiters, fair | 494 thousand | framing, freshness, wake-ups |
| daemon | 2 connections, 2 requests, 1 restart, history 2, queue 1, event queue 2, memory of 1 entry, 2 screens | 636 thousand | threads, locks, persistence |
| plan | 2 plans of 2 steps, 2 chunks, 2 waits, 2 calls, 2 captures, 1 fault, history 2, queue 1 | 1.3 million | plans over a failing bridge |
| client_hang | as client, fair | - | violated, section 4 |
| plan_verify_stale | as plan | - | violated, section 4 |

Why the bounds are enough.

* Writer: limit 5 with sizes 2 and 3 reaches a buffer one below, at and above
  the limit, batches that just fit and batches cut by a flush; two faults give
  a failed retry.
* Session: two faults are a failing open whose rollback fails as well, or a
  failing close whose retry fails.
* Touch: one fault is a failed send inside a helper or a handle call; a helper
  runs before, after or without the handle, so each meets what the other has
  left on the phone and in the buffer.
* Fast path: 8 frames wrap counters modulo 6 with every slot reused; three
  slots keep "empty", "full" and "in between" apart; a batch of 4 overruns the
  ring.
* Client: two clones give every pairwise race of the code, which treats clones
  alike; a channel of one entry makes sends block; one clone has the
  fire-and-forget and checked calls, the other barriers and close.
* Batchers: four frames overfill an array of two twice; two tries are a retry
  after a refusal; size 0 and 3 are the two sides of the array's size.
* Drivers: three keys are one too many for a report of two; two pads make slots
  reused; scroll inputs of half steps leave and complete a residual of either
  sign, and 5 halves are beyond the clamp.
* Receiver: two messages are a newest frame and one it replaces while a waiter
  is between its boundary and its check, or asleep.
* Daemon: a queue of one drops, a memory of one entry evicts with two screens,
  two threads race for every lock, a restart follows any step.
* Plan: two steps are a first and a last one; one capture before and one after
  an action make verification stale; a queue of one drops.

The theorems of section 5 remove the bounds of the writer, session, touch,
client, fast_path, batchers, drivers, receiver, daemon and plan runs for the
properties they name; the bounds on calls and faults are parameters there.

Deadlock is not checked: the bounds on calls end every behaviour, and a caller
may stop calling. What must not block is stated as liveness instead.

Fairness. `WF` on the consumer thread, on the dispatcher thread, on the pump,
on a producer, batcher call or waiter that is inside a call: the operating
system (or the async runtime) runs runnable threads, and the transport returns
from a write, with or without an error. Nobody is obliged to start a call, to
send a message, to close or to drop a client. CloseStops needs the producer to
pause at some time (the number of frames is bounded): the consumer looks at the
close flag only when it finds the ring empty. `CallReturns` of the batchers
rests on the dispatcher's fairness: a full channel is drained or its receiver
goes away. The session, touch, drivers, daemon and plan runs are safety only:
there the code runs on the caller's thread, or ends with its connection.

Every property of a passing run has a mutant in `PROJECT.json`: a plausible
slip in one definition under which the run fails (OkFramesOnceInOrder has two,
one for the channel and one for the ring). They stand before the
definitions they replace, each with a comment that says what the slip is.

## 4. Where code and documentation disagree

Two runs show a disagreement (findings in `PROJECT.json`, with the lines):

* `client_hang`: flush_wait queued behind another clone's close() never
  returns.
* `plan_verify_stale`: the observation that satisfies verify_after may have
  been captured before the action, although the comment calls it the
  post-action ground truth.

Seen while modelling, visible in the models but without a run of their own.

Writer, session, touch:

* after a failed flush the buffer grows past `hard_limit` with every push
  (`BufferBounded` is stated for a transport that works);
* a close() that failed at the gamepad, called again, returns Ok although the
  phone still has it: the driver's slot is freed before the DESTROY is sent
  (session.rs:1524 against 1043-1044; hence the fault clause of
  `CloseIsComplete`);
* Drop gives up at the first UHID_DESTROY that fails, though its comment says
  it tries every device;
* swipe_pointer and the other unguarded helpers leave the finger down when a
  send fails (session.rs:534; tests/rollback_guards.rs:6-7 lists it as
  guarded);
* type_text ends with the modifier of its last character in the report, so that
  after a shifted one LSHIFT is held until the next keyboard report
  (session.rs:425-449); `NeverHalfPressed` permits it;
* through the buffer even a guarded gesture can leave a press behind: the push
  that reported the error has left its DOWN in the buffer (`NeverHalfPressed`
  is stated for direct mode when a write failed).

Drivers:

* an event with id 0 reaches a free gamepad slot;
* unchecked reports bypass the driver, so the deduplication afterwards compares
  with a state the phone does not have; a refused direct report is recorded
  too, and its retry is suppressed with Ok (the "report" cases of `stale`);
* a scroll report carries an empty button byte, which releases held buttons;
  relative motion is clamped to 127, and a failed flush plays it again;
* a NaN scroll input stays in the residual.

Ring and fast path:

* after the consumer thread has died the ring accepts frames until it is full;
* a frame pushed just before close() can be left behind (client.rs:871 against
  850-852);
* a failing close makes the consumer panic, and join() loses the transport it
  is documented to give back (client.rs:878 against 794-797).

Client:

* another clone's barrier takes the error of one's own command, whose own
  barrier then returns Ok (`Disturbed` in `OkCallIsDelivered`);
* long_press returns early on any earlier error and leaves its finger down;
* press_home, press_back and the volume calls send only the DOWN.

Batchers:

* the error of a gamepad, packed or slice push does not tell whether the frame
  was stored, so a retry may repeat it (single frames of the five array
  batchers are exact); a ring batch that was taken in part is restored whole;
* in ring mode try_push with a batch of two or more never flushes;
* a Vec batcher grows under back-pressure; Drop swallows errors; half a tap can
  stay queued behind a full channel.

Receivers:

* tokio's channel panics for a bound of 0, which the blocking one accepts;
* a direct read_next that timed out inside a message, or an async one that was
  cancelled there, desynchronises the stream when called again;
* a dropped handle leaves its pump blocked until the next event;
* every timeout ends a pump; frames between two waits are conflated.

Kernel:

* handle_observe never unsubscribes (adk.rs:780); an injector that died is
  never reopened (adk.rs:284);
* the sequence number of an observation is drawn (adk.rs:802) before the adb
  calls and published after them (839-840), so that the stream can carry
  numbers out of order; obs_seq restarts at 0 with the daemon;
* the screen that was evicted and comes back overwrites its row; bridge actions
  bypass memory and state; nobody reads record_action_result; the request id is
  ignored; a wait_before that timed out goes on with its action;
* `landed` is set before the terminal flush (bridge.rs:73): an action of a
  chunk can be reported landed and still be in the buffer;
* a verify mismatch or a closed stream ends a plan also without abort_on_error;
  a checkpoint fires at zero landed actions; drains inside a wait do not update
  the final observation;
* a silent stream never times out: the deadline is looked at only after an
  observation, at the bottom of the loop whose comment says the top
  (predicate_wait.rs:95); SceneStable and A11yIdle are stubs.

## 5. Proofs

Each proof follows one plan: an inductive invariant that contains the property
or implies it, one lemma per action that the action keeps it, `Spec => []Inv`
by temporal logic, and the properties as corollaries. The invariants are
conjunctions of named parts. TLC checked every one of them on the instance of
the module's run before it was proved. The bounds on calls, messages and faults
are arbitrary in every theorem.

**CoalescingWriterProofs.** For every limit, message sizes, batch and chunk
lengths and both modes. Assumptions: `LimitAssumption`, `SizeAssumption`,
`BoundAssumption` (naturals, positive sizes). The invariant is `TypeOK /\
WriterInv`. NothingLost and ExactlyOnceInOrder are not inductive alone: a batch
carries its remaining frames from step to step, so the invariant ties the
running call to the mode and to what it has reported; direct mode must be known
never to use the buffer; and the ratio needs every counted flush to be paid for
by a message that has left both buffer and batch (`flushes + Len(pending) +
Len(batch) <= pushed`). CausalOrder needs a second invariant, `CausalInv`: the
buffer is the tail of what was accepted and all that was accepted before it is
on the wire (`Backed`), in the order of the calls, so that a write of the
buffer, whole or cut and however often repeated, brings no message before one
it follows. The proof has one lemma per operation over lemmas on concatenation,
prefixes and ranges of sequences. Theorems: WriterInvariant, WriterNothingLost,
WriterExactlyOnceInOrder, WriterFlushedMeansDelivered, WriterCausalOrder, and,
without a run of their own, WriterBufferBounded (the buffer stays within
`hard_limit` without errors) and WriterRatioAtLeastOne (the coalescing ratio
never drops below one).

**HidSessionProofs.** The four session properties, for every byte limit, both
modes, every subset of devices and any pattern of failing sends. The lemma that
carries the proof is about the writer: every step lets the wire grow by
messages of one buffer, what was pending and the message that is sent, in
their order, all of them when the call returned Ok. The invariant `SessionInv`
then says what can be in that buffer (`BufferOK`: input reports of devices that
are created; creates and destroys are critical and never wait), what a field
that is `Some` says about the wire (`UseOK`), that the list a close or Drop
still works on is what is not handled yet (`TodoOK`, `CloseOK`), how many sends
must have failed for a rollback to be incomplete (`RollbackOK`), and without
failures the exact pairing (`PairedOK`). Theorems: SessionInvariant,
SessionCreatedBeforeUse, SessionCloseIsComplete, SessionOpenRollsBack,
SessionCreatesArePaired.

**TouchInputProofs.** Handles and helpers on one session, for any number of
pointers (`PointerAssumption`: at least one) and any use of the ten helpers
(`HelpersKnown`). A helper is half done most of the time, so that nothing about
the stream alone is inductive. The argument looks ahead: `Ahead` is the stream
followed by what the running helper still has to send. Each script, put behind
any stream that has its fingers up, is well formed and lets go of everything
(`Proper`, shown script by script in `ScriptFacts`); a send that succeeds moves
one message over and leaves `Ahead` as it was (`AheadKept`); a failed one
replaces the rest by the guard's releases, which lift just what the stream has
down (`RollbackFacts`, with `pressed` the guard's list). The parts of
`TouchInv` are the writer's (`WriterOK`), the handle's (`HandleOK`, `MirrorOK`)
and the helper's (`HelperOK`, `StreamOK`, `ReleaseOK`). Theorems:
TouchInvariant, TouchNeverHalfPressed, TouchFlagsMirrorPhone,
TouchWellFormedStream, and the action property TouchRollbackOnlyReleases.

**HidClientProofs.** Clones, channel and dispatcher over the writer, for any
set of clones, any calls of the program, every channel bound,
byte limit and mode. Assumptions: `ClientAssumption`; `TablesAgree`, which says
what the proof uses of the command tables (a call sends commands that exist, a
checked call ends with its barrier and does not close, the commands the
dispatcher handles itself push no message) because tlapm does not compute with
`@@`, and which TLC evaluates on the tables themselves; and `NoneAssumption`
(None is neither a command nor a result). Neither property says anything about
what is on its way, so `ClientInv` follows every command through channel,
dispatcher and log: a clone's commands are in these three places in the order
of their numbers (`OrderOK`); a barrier on its way has its clone waiting
(`WaitsOK`); what a clone has sent of its call is in one of the places and its
barriers so far found no error (`ProgressOK`), so that when the last barrier
answers Ok all of the call is in the log. `MemoryOK` is the first-error slot: the
error of a failed command is pending, or the first barrier after it reported
an error. `ServingOK` and `DeliveredOK` connect it to the writer: what a
successful command pushed was accepted, what was accepted is on the wire or in
the buffer, and a barrier without error has emptied the buffer. A failed
command of a gesture that returned Ok then had its error taken by a barrier
inside the gesture that is another clone's, the case the property excludes.
Theorems: ClientInvariant, ClientErrorIsRemembered, ClientOkCallIsDelivered.

**SequenceLemmas.** The library states induction over an operator, which the provers
cannot instantiate. `SeqSetInduction` states it over a set: a set of sequences
that has the empty one and, with a sequence, every longer one by an element has
them all. It follows from the library's theorem that a well-founded relation has
minimal elements and that `<` on the naturals is well-founded. With it
`FlattenSeq`, `Only` (the elements of a sequence in a set, in order) and the
drivers' recursive functions are shown to do what they are for on an append and
a concatenation. FoldLeft and SelectSeq stay closed to the provers; the modules
proved here use recursive functions of the same meaning instead.

**InputProofs.** The batchers, the drivers, and the gamepad ring with its fast
path.

*Batchers.* For every set of kinds, array size, batch sizes, chord length,
channel bound and ring size (`BatcherAssumption`: the sizes are positive, the
kinds are those of the code). All frames that are stored, queued or taken are one
stream, whatever of it lies in which place (`Stream`); a flush, a send that
fails and is put back, a spill-over and the dispatcher's steps leave it as it
is, so that the proof is about what a call does to it. `Batching` says that the
frames of the calls that can be trusted (Ok at the first try, or a single frame
of an array batcher at any) are in the stream just once, in the order of the
calls (`Kept`); that a refused single frame is not in it (`RefusedGone`); that
what the running call has stored is the end of the stream (`Halfway`) and what
an Ok call stored is there in one piece (`Landed`). For TapsLetGo the last frame
of a tap or chord releases its keys and nothing of the call comes after it
(`KeysLetGo`). The remaining parts are where frames are held (`Parts`) and how
far the call is (`Progress`). On the gamepad fast path a batch that was taken in
part is in the ring and in the batcher, so the stream there is followed with a
weaker invariant, `RingModeInv`, that claims no order: as long as the ring has refused none of a
running batch (`spilled` is 0), its frames up to `at` are in the ring or delivered
(`InRing`), so that emptying the batcher after it loses no frame of a call that
returned or will return Ok (`Complete`). Theorems: BatcherInvariant,
BatcherFramesOnceInOrder, BatcherTapsLetGo, and the action property
BatcherDropHandsOver.

*Drivers.* For every finite set of keys, report size, scroll step, pads and
stick range (`DriverAssumption`), byte limit and mode. Everything the writer can
do with a report is one of four outcomes (`Outcome`): it is sent or buffered
behind everything else; or the push failed and it is lost, or the buffer, with
or without it, was partly sent and is there to be sent again. What was sent
twice then are input reports only (`WriterOK`: creates and destroys never wait),
and `ReportsView` shows that reports neither create nor destroy a device and
that the last of them decides what the phone sees, so that repeating them
changes nothing. `PadOK` relates slot, request and the phone's view in each of
the states of `stale`; `KeyboardOK` says that the last keyboard report carries
the held keys or the roll-over code (`Slotted`), which is what the scan computes
for any order of the keys; `MouseOK` bounds the difference between wheel steps,
residual and request by what refused reports took with them, and it is zero with
the buffer. Theorems: DriverInvariant, DriverPadAsAsked, DriverKeyboardHeals,
DriverScrollConserved. The attempt corrected the model: the CREATE behind a lost
DESTROY was taken to reset the device, where the phone keeps the old one and its
state. It takes more reports than the bound of the run to see that.

*Ring and fast path.* First the ring, about `RingSpec`. For every capacity and
every counter width it divides and is smaller than (64 and 2^64 in the code),
any number of pushes. Assumptions: `CapacityAssumption`, `FrameAssumption`. The invariant
`RingInv` orders the three counters on the circle: from the tail the producer
last saw, through tail, to head, in at most Capacity steps, fewer during a
push. From that two different counter values inside the window have different
slots (`IdxDistinct`), which gives exclusivity; that the window survives the
wrap is `IdxShift`, which is where divisibility is used. `PublishFacts` and
`TakeFacts` show that the two publishing steps are the Put and Take of
BoundedFifo and every other step a stutter. Theorems: RingInvariant,
RingSlotExclusive, RingNoUninitRead, RingNoFrameLost, RingImplementsFifo.

Then the fast path on it. It implements `RingSpec`
(FastPathUsesRing: every step of the game loop, the clones and the consumer
thread is one of the ring's or leaves it alone), so that the ring's theorems
hold of it (FastPathRingInv, FastPathSlotExclusive, FastPathRingIsFifo).
FastPathDeliveredInOrder needs `FastInv`: the type invariant, the ring's, the
numbering of frames by the producer (`ProducerInv`), and that what was popped
is what was injected plus the frame in the consumer's hand (`ConsumerInv`).
Assumptions: the ring's, and `BoundsAreNatural`.

**DeviceReceiverProofs.** For every channel bound, stream and finite set of
waiters (`WaitersFinite`). Both properties rest on one count, `Consumed`: the
halves the pump has taken off the socket. Every half still on the socket has
its place in the stream, so while the pump lives the count says which message
it is inside of; a pump that lost its place hands on nothing more. `DevInv`
adds the version a waiter noted, which stays at or below that of the frame
published last, and that a watch sender goes only after its error is out.
Theorems: ReceiverInvariant, ReceiverChannelFaithful, ReceiverFreshFrame.

**KernelProofs.** The daemon and the plan executor.

*Daemon.* For any set of connection threads, requests known to
the daemon (`RequestsKnown`), an event queue of at least one entry
(`EventCapPositive`), any other capacity, any number of crashes. `DaemonInv`
says where each thread is in its plan and that the number it has drawn is above
the last one it sent, that the stream lock is held exactly while an observation
is produced and not yet recorded, and that history and state model are tails of
one log. Theorems: DaemonInvariant, DaemonStateFollowsStream,
DaemonAnswersInOrder, DaemonMemoryInvariant, DaemonRestartRemembers. The attempt corrected the model: an empty plan had been
given a first step (adk.rs:895 goes on to the final observation at once).

*The daemon's memory.* One assumption more: the memory holds at least one
screen (`MaxEntriesPositive`). Only Remember and Crash touch memory and file, so
the invariant, `MemoryInv`, is independent of the threads'. It reads a memory as
the `Image` of a window: at most MaxEntries rows of different screens, oldest
first. Recording a success is `Put` on the window (`StoreImage`: drop the
screen's row, append the new one, drop the oldest if there is one too many), and
INSERT OR REPLACE is the same on the whole file, so the window stays the file's
last MaxEntries rows (`PersistWindow`), whether the screen was in it, or had been
evicted and came back. open() replays every row success by success;
`HydrateRow` shows that each replay after the first of a row finds its screen
last and changes nothing else, and `OpenImage` that the whole replay, evictions
included, ends up with exactly those last rows. Once a persist has failed only
`memory \in Images` is left, until a restart reads the file again.
RestartRemembers is not inductive by itself: it says nothing of the rows, and a
file with two rows of one screen, or an empty one, would replay to something
else after the next success (`Saved` excludes both). An upsert that keeps a
row's place, the run's mutant, breaks `PersistWindow`.

*Plan executor.* For any facts, plans, batches of actions, waits, capacities
and any number of calls, captures and failed writes. Assumptions: `CapsPositive`
(the history and the queues hold at least one observation) and `HostAssumption`
(plans, batches and predicates are of their types). The invariant is `PlanInv`.

The bridge first. `Fits` bounds the copies of a message twice: those in the
buffer by the applies of its action, those in the buffer and on the wire by the
applies times one more than the writes that failed. CopiesBounded is the second
half and not inductive without the first: what a failed write may play again is
what the buffer holds. `StageFacts`, `ApplyFacts` and `ApplyManyFacts` carry both
halves, and what a clean outcome says of the order of messages, through the
recursive functions, each by induction over the messages or the actions. From
them, `AllFit` (Fits, for every message) and CleanCallDelivered are kept.

PlanDelivered speaks of the end of a plan; `PlanPlayed` says it of every point
inside: the steps so far, if all landed, end what the phone has received or
will, and after the first of them nothing waits in the buffer, because a step
lands only with its flush. Between an action and its record the step is already
on the wire but not in the results, the case `PlanPlayed` has of its own.
`PlanAt` ties the program counter to the number of results.

The stream: `EngineOK` says that the history is the tail of what was produced
and that every live subscriber is `Counted` against what it was offered (`Offer`:
the gap-fill out of the history as it was when it joined, and everything since,
through its filter): polled, queued and dropped add up, and the queue is the
newest of it. `PushCounts` is the step everything rests on, `PushesCount` the
gap-fill, `OfferMore` that one more observation is one more offer. Theorems:
PlanInvariant, PlanWaitEndsAtDeadline, PlanCleanCallDelivered,
PlanPlanDelivered, PlanCopiesBounded, PlanSubscribersAccounted.

Only model-checked: liveness (BarrierReturns, DispatcherEnds, CallReturns,
WaiterWakes, CloseStops, PushedIsInjected), which is beyond the prover. Every
safety invariant of the passing runs is a theorem.

## 6. Abstractions and what is left out

* A message cut in the middle of its bytes counts as not delivered; the framing
  of the byte stream towards the phone after such a cut is not modelled. On the
  way back (DeviceReceiver) messages do break in the middle.
* Time is a free choice; durations and sleeps (long_press, swipe) are dropped.
* Coordinates, key codes and axis values do not matter to these properties; one
  MOVE stands for a run of them, two messages of a command for any longer run,
  one stick and one trigger for both.
* type_text is its shifted character; unshifted ones press nothing but the key.
* The packed-frame variants of the fast path have the same control flow as the
  plain ones.
* ActionBridge has the writer's buffer without its byte limit: at each message
  the buffer may or may not be flushed on the way, which covers the window, the
  limit and critical messages; a message whose write failed stays in it, also
  where direct mode or a critical message would not keep it (more copies, never
  fewer).
* adb, the phone's screen, PNG sizes and command-line flags of the daemon are
  choices of the environment.
* What a predicate looks for is one fact of an observation; predicates with
  their own window are stubs in the code.

Not modelled:

* HID descriptors, control-message layouts, AI intents, the protocol crate,
  identifiers and JSON of the kernel: codecs and tables without state, whose
  properties are about bytes and which unit tests reach;
* sockets and adb: pure I/O; their failures are the faults of the models;
* capability and egress policy: tables decided once from configuration;
* language-model adapters, the chunk planner (a pure function from a prompt to
  actions) and the benchmark;
* session_state.rs and selector_cache.rs: bounded maps no other part uses.

## 7. Plan

Done: the write path from client and batchers through drivers and session to
the transport, the receivers, the kernel's stream, memory, daemon, bridge and
plans; the proofs of writer, session, touch input, client, ring with its
refinement, fast path, batchers, drivers, receivers, daemon and plan executor.

Next:

1. The daemon's plans over the bridge: KernelDaemon answers with what the bridge
   may answer and does not run PlanExecutor's bridge underneath.
