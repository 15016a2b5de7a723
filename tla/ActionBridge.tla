---------------------------- MODULE ActionBridge ----------------------------
(***************************************************************************)
(* The kernel's action bridge (ai-device-kernel/src/bridge.rs): an         *)
(* ActionInjector turns an action into HID messages, stages them in its    *)
(* session's coalescing writer and flushes.                                *)
(*                                                                         *)
(* The injector belongs to one thread, so a call is one step of the model; *)
(* what can go wrong inside it is the transport, and a call is therefore   *)
(* an operator that yields the set of its possible results.  A link is     *)
(* [buf, wire, faults, ok]: the writer's buffer, what the phone has        *)
(* received, the failed writes so far and whether the last one went well.  *)
(***************************************************************************)
EXTENDS Integers, Sequences, SequencesExt

CONSTANTS
  MaxFaults     \* bound: transport writes that fail in a behaviour

NewLink == [buf |-> <<>>, wire |-> <<>>, faults |-> 0, ok |-> TRUE]

\* An action: how many messages it stages, and whether it is refused before
\* staging ("early") or after it ("char").
Action == [name : STRING, parts : Nat, bad : {"none", "early", "char"}]

Msgs(action) == [i \in 1 .. action.parts |-> [name |-> action.name, part |-> i]]

(***************************************************************************)
(* HidSession::flush_now: the buffer is cleared only when the write and    *)
(* the transport's flush went through; a failed write may have delivered   *)
(* any part of it.                                                         *)
(***************************************************************************)
WriteBreaks(link) ==
  IF link.faults = MaxFaults \/ link.buf = <<>>
  THEN {}
  ELSE {[link EXCEPT !.wire = @ \o SubSeq(link.buf, 1, k),
                     !.faults = @ + 1, !.ok = FALSE] : k \in 0 .. Len(link.buf)}

\* The buffer not cleared after a successful write.
WriteWorksKeeps(link) == [link EXCEPT !.wire = @ \o link.buf, !.ok = TRUE]

WriteWorks(link) ==
  [link EXCEPT !.wire = @ \o link.buf, !.buf = <<>>, !.ok = TRUE]

flush_now(link) == {WriteWorks(link)} \cup WriteBreaks(link)

\* One message into the coalescing writer: it stays in the buffer, or the
\* window or the hard limit flushes the buffer on the way.
PushMessage(link, m) ==
  LET staged == [link EXCEPT !.buf = Append(@, m), !.ok = TRUE]
  IN {staged} \cup flush_now(staged)

\* The and_then chain of a helper: the first error ends it.
\* The possible links after 0, 1, ... messages.
Stages(link, msgs) ==
  LET links[i \in 0..Len(msgs)] ==
        IF i = 0 THEN {[link EXCEPT !.ok = TRUE]}
        ELSE UNION {IF l.ok THEN PushMessage(l, msgs[i]) ELSE {l} : l \in links[i - 1]}
  IN links

Stage(link, msgs) == Stages(link, msgs)[Len(msgs)]

(***************************************************************************)
(* BridgeOutcome, and which codes the caller may retry.                    *)
(***************************************************************************)
Landed == [landed |-> TRUE, code |-> "none"]
Rejected(code) == [landed |-> FALSE, code |-> code]

retryable(outcome) == outcome.code \in {"Timeout", "KernelError", "SelectorMiss"}

\* The flush of a lone action left to the window as well.
MaybeFlushNever(link, batch_depth) == {link}

(***************************************************************************)
(* maybe_flush: inside apply_many only the terminal flush writes.          *)
(***************************************************************************)
maybe_flush(link, batch_depth) ==
  IF batch_depth = 0 THEN flush_now(link) ELSE {link}

Settle(link) ==
  [link |-> link, outcome |-> IF link.ok THEN Landed ELSE Rejected("KernelError")]

(***************************************************************************)
(* apply: a read or a closed gamepad (NotImplemented) and a payload too    *)
(* large for the wire (PermissionDenied) are refused at once; text with an *)
(* unsupported character is refused with the characters before it staged   *)
(* and not flushed; the rest stage all their messages, then flush.  A      *)
(* transport error is KernelError (classify_session_error), whatever had   *)
(* been staged.                                                            *)
(***************************************************************************)
apply(link, action, batch_depth) ==
  CASE action.bad = "early" ->
         {[link |-> link, outcome |-> Rejected(code)] :
            code \in {"NotImplemented", "PermissionDenied"}}
    [] action.bad = "char" ->
         {IF l.ok
          THEN [link |-> l, outcome |-> Rejected("PermissionDenied")]
          ELSE Settle(l) : l \in Stage(link, Msgs(action))}
    [] OTHER ->
         UNION {IF l.ok
                THEN {Settle(f) : f \in maybe_flush(l, batch_depth)}
                ELSE {Settle(l)} : l \in Stage(link, Msgs(action))}

(***************************************************************************)
(* apply_many: stop at the first failure, then flush what is staged; a     *)
(* flush that fails adds an outcome of its own if no action had failed.    *)
(***************************************************************************)
Failed(outcomes) == \E i \in DOMAIN outcomes : ~outcomes[i].landed

ApplyNext(runs, action) ==
  UNION {IF Failed(r.outcomes)
         THEN {r}
         ELSE {[link |-> a.link, outcomes |-> Append(r.outcomes, a.outcome)] :
                 a \in apply(r.link, action, 1)} : r \in runs}

TerminalFlush(run) ==
  {[link |-> f,
    outcomes |-> IF ~f.ok /\ ~Failed(run.outcomes)
                 THEN Append(run.outcomes, Rejected("KernelError"))
                 ELSE run.outcomes] : f \in flush_now(run.link)}

\* The possible runs after 0, 1, ... actions.
ApplyRuns(link, actions) ==
  LET runs[i \in 0..Len(actions)] ==
        IF i = 0 THEN {[link |-> link, outcomes |-> <<>>]}
        ELSE ApplyNext(runs[i - 1], actions[i])
  IN runs

apply_many(link, actions) ==
  UNION {TerminalFlush(r) : r \in ApplyRuns(link, actions)[Len(actions)]}
=============================================================================
