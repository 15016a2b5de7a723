-------------------------- MODULE GamepadFastPath --------------------------
(***************************************************************************)
(* into_client_with_gamepad_ring (src/client.rs): the game loop pushes     *)
(* frames into the ring of module GamepadRing, and a consumer thread that  *)
(* owns the session pops them and injects them until a send fails or the   *)
(* ring is found empty with the close flag set.  The channel of the client *)
(* is a stub whose receiver is gone, so a frame the ring refuses comes     *)
(* back as an error.  close() may be called from any clone of the client.  *)
(***************************************************************************)
EXTENDS GamepadRing

CONSTANTS
  MaxBatch,         \* bound: frames of one send call
  MaxErrors         \* bound: transport errors

\* Frames are numbered in the order they are handed to the send methods.
ASSUME FramesAreNumbered == PadFrames = 1..MaxPushes
ASSUME BoundsAreNatural == MaxBatch \in Nat /\ MaxErrors \in Nat

VARIABLES
  left,       \* producer: frames of the running call not pushed yet
  spill,      \* producer: the running call met a full ring
  made,       \* bound and frame numbers: frames handed over so far
  result,     \* what the latest call returned, "Busy" while it runs
  closeFlag,  \* gamepad_close
  errorFlag,  \* gamepad_error
  loop,       \* consumer: "pop", "inject", "check", "close", "inner", and
              \* "joined" or "panicked" once the thread has ended
  applied,    \* history: frames set_frame_raw accepted
  failures    \* history: transport errors

caller == <<left, spill, made, result>>
flags  == <<closeFlag, errorFlag>>
thread == <<loop, applied, failures>>
vars   == <<ringVars, caller, flags, thread>>

Ended == loop \in {"joined", "panicked"}

Init ==
  /\ RingInit
  /\ left = 0 /\ spill = FALSE /\ made = 0 /\ result = "Ok"
  /\ closeFlag = FALSE /\ errorFlag = FALSE
  /\ loop = "pop" /\ applied = <<>> /\ failures = 0

-----------------------------------------------------------------------------
(* The producer: send_frame (n = 1) and the batch sends.                   *)

SendCall ==
  /\ result # "Busy"
  /\ \E n \in 1..MaxBatch : made + n <= MaxPushes /\ left' = n
  /\ spill' = FALSE /\ result' = "Busy"
  /\ UNCHANGED <<ringVars, made, flags, thread>>

PushNext ==
  /\ left > 0
  /\ PushLoad(made + 1)
  /\ made' = made + 1
  /\ UNCHANGED <<left, spill, result, flags, thread>>

\* The ring is full: the frame goes to the spill-over.
SpillNext ==
  /\ left > 0
  /\ PushFull
  /\ made' = made + 1 /\ left' = left - 1 /\ spill' = TRUE
  /\ UNCHANGED <<result, flags, thread>>

PushStore == PushWrite /\ UNCHANGED <<caller, flags, thread>>

PushDone ==
  /\ PushPublish
  /\ left' = left - 1
  /\ UNCHANGED <<spill, made, result, flags, thread>>

\* What was spilled is sent to the stub channel, which is disconnected.
SendReturn ==
  /\ result = "Busy" /\ left = 0
  /\ result' = IF spill THEN "Err" ELSE "Ok"
  /\ UNCHANGED <<ringVars, left, spill, made, flags, thread>>

-----------------------------------------------------------------------------
(* close().                                                                *)

CloseClient ==
  /\ ~closeFlag
  /\ closeFlag' = TRUE
  /\ UNCHANGED <<ringVars, caller, errorFlag, thread>>

-----------------------------------------------------------------------------
(* gamepad_consumer_loop.                                                  *)

Consumer == UNCHANGED <<caller, closeFlag>>

PopSome == loop = "pop" /\ PopLoad
             /\ Consumer /\ UNCHANGED <<errorFlag, thread>>
PopTake == PopRead /\ Consumer /\ UNCHANGED <<errorFlag, thread>>
PopDone == PopPublish /\ loop' = "inject"
             /\ Consumer /\ UNCHANGED <<errorFlag, applied, failures>>
PopNone == loop = "pop" /\ PopEmpty /\ loop' = "check"
             /\ Consumer /\ UNCHANGED <<errorFlag, applied, failures>>

InjectOk ==
  /\ loop = "inject"
  /\ applied' = Append(applied, held)
  /\ loop' = "pop"
  /\ Consumer /\ UNCHANGED <<ringVars, errorFlag, failures>>

\* Mutant: the loop goes on after a failed send.
InjectErrContinues ==
  /\ loop = "inject" /\ failures < MaxErrors
  /\ failures' = failures + 1
  /\ errorFlag' = TRUE
  /\ loop' = "pop"
  /\ Consumer /\ UNCHANGED <<ringVars, applied>>

\* A failed send ends the loop.
InjectErr ==
  /\ loop = "inject" /\ failures < MaxErrors
  /\ failures' = failures + 1
  /\ errorFlag' = TRUE
  /\ loop' = "close"
  /\ Consumer /\ UNCHANGED <<ringVars, applied>>

\* Mutant: the close flag is not looked at.
CheckCloseIgnored ==
  /\ loop = "check"
  /\ loop' = "pop"
  /\ Consumer /\ UNCHANGED <<ringVars, errorFlag, applied, failures>>

\* Mutant: once the ring was empty the thread waits for the close flag only.
CheckCloseParks ==
  /\ loop = "check"
  /\ loop' = IF closeFlag THEN "close" ELSE "check"
  /\ Consumer /\ UNCHANGED <<ringVars, errorFlag, applied, failures>>

CheckClose ==
  /\ loop = "check"
  /\ loop' = IF closeFlag THEN "close" ELSE "pop"
  /\ Consumer /\ UNCHANGED <<ringVars, errorFlag, applied, failures>>

\* session.close(), then into_inner: a session that did not close and a last
\* flush that fails both panic.
EndSession(next) ==
  /\ \/ loop' = next /\ UNCHANGED failures
     \/ failures < MaxErrors /\ failures' = failures + 1 /\ loop' = "panicked"
  /\ Consumer /\ UNCHANGED <<ringVars, errorFlag, applied>>

CloseSession == loop = "close" /\ EndSession("inner")
IntoInner    == loop = "inner" /\ EndSession("joined")

-----------------------------------------------------------------------------

ProducerStep == PushNext \/ SpillNext \/ PushStore \/ PushDone \/ SendReturn
ConsumerStep == \/ PopSome \/ PopTake \/ PopDone \/ PopNone \/ InjectOk
                \/ InjectErr \/ CheckClose \/ CloseSession \/ IntoInner

Next == SendCall \/ ProducerStep \/ CloseClient \/ ConsumerStep

Spec == Init /\ [][Next]_vars

\* Both threads keep running: yield_now returns, and a send call that has
\* started goes on.  Nobody has to start a call or to close.
FairSpec == Spec /\ WF_vars(ProducerStep) /\ WF_vars(ConsumerStep)

-----------------------------------------------------------------------------
(* What must hold.                                                         *)

TypeOK ==
  /\ RingTypeOK
  /\ left \in 0..MaxBatch /\ spill \in BOOLEAN
  /\ made \in 0..MaxPushes
  /\ result \in {"Ok", "Err", "Busy"}
  /\ closeFlag \in BOOLEAN /\ errorFlag \in BOOLEAN
  /\ loop \in {"pop", "inject", "check", "close", "inner", "joined",
               "panicked"}
  /\ applied \in Seq(1..MaxPushes) /\ failures \in 0..MaxErrors

(* The session sees the frames the ring accepted in the order of the       *)
(* calls, none twice, and no gap before the first error: what it has seen  *)
(* is an initial part of what was pushed.                                  *)
DeliveredInOrder ==
  /\ Len(applied) <= Len(sent)
  /\ \A i \in 1..Len(applied) : applied[i] = sent[i]
  /\ \A i, j \in 1..Len(sent) : i < j => sent[i] < sent[j]

(* close() stops the consumer thread, so join() returns.                   *)
CloseStops == closeFlag ~> Ended

(* While the consumer runs, a frame that was pushed is injected.           *)
PushedIsInjected ==
  \A n \in 1..MaxPushes : Len(sent) >= n ~> Len(applied) >= n \/ Ended

=============================================================================
