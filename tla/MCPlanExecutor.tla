--------------------------- MODULE MCPlanExecutor ---------------------------
(***************************************************************************)
(* Small plans: a tap (two messages) that waits for a screen, a gamepad    *)
(* report (one message) that verifies one; a text refused after staging    *)
(* and an action the bridge refuses at once.                               *)
(***************************************************************************)
EXTENDS PlanExecutor

Tap  == [name |-> "tap", parts |-> 2, bad |-> "none"]
Pad  == [name |-> "pad", parts |-> 1, bad |-> "none"]
Text == [name |-> "text", parts |-> 1, bad |-> "char"]
Read == [name |-> "read", parts |-> 0, bad |-> "early"]

Home   == [want |-> "home", never |-> FALSE]
Stable == [want |-> "home", never |-> TRUE]

PlainStep(a) == [action |-> a, wait_before |-> NoPredicate, verify_after |-> NoPredicate]

MCPlans ==
  {[steps |-> <<[PlainStep(Tap) EXCEPT !.wait_before = Home],
                [PlainStep(Pad) EXCEPT !.verify_after = Home]>>,
    abort_on_error |-> TRUE, checkpoint_every |-> 0],
   [steps |-> <<[PlainStep(Text) EXCEPT !.verify_after = Home], PlainStep(Pad)>>,
    abort_on_error |-> FALSE, checkpoint_every |-> 2]}

MCBatches == {<<Tap, Pad>>, <<Pad, Read>>}
MCWaits == {Home, Stable}
=============================================================================
