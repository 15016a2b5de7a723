--------------------------- MODULE MCKernelDaemon ---------------------------
(***************************************************************************)
(* The daemon with two connections at a time.  The requests cover every    *)
(* arm of handle_connection; two plans have two steps, one of them aborts  *)
(* on an error and one goes on with a checkpoint after every step, and one *)
(* plan is empty.  Plans come in on one connection, so that a plan meets   *)
(* every other request but not a second plan.                              *)
(***************************************************************************)
EXTENDS KernelDaemon

CONSTANTS c1, c2

Short ==
  {[kind |-> "action", bridge |-> TRUE],
   [kind |-> "action", bridge |-> FALSE],
   [kind |-> "observe", since |-> 0],
   [kind |-> "observe", since |-> 1],
   [kind |-> "query"],
   [kind |-> "end"]}

Plans ==
  {[kind |-> "plan", bridge |-> TRUE, steps |-> 2, abort |-> TRUE, checkpoint |-> 2],
   [kind |-> "plan", bridge |-> FALSE, steps |-> 2, abort |-> FALSE, checkpoint |-> 1],
   [kind |-> "plan", bridge |-> FALSE, steps |-> 0, abort |-> TRUE, checkpoint |-> 1]}

MCRequests == (c1 :> Plans \cup Short) @@ (c2 :> Short)
=============================================================================
