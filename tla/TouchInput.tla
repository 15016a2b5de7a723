----------------------------- MODULE TouchInput -----------------------------
(***************************************************************************)
(* One session used in both ways: the composite helpers of module Gestures *)
(* and the MultitouchHandle.  The handle borrows the session mutably, so a *)
(* helper runs only while no handle is held, and both go through the same  *)
(* writer to the same phone.                                               *)
(***************************************************************************)
EXTENDS MultitouchHandle

CONSTANTS Kinds, MaxGestures,
          MaxAll                 \* bound: messages of handles and helpers

VARIABLES gpc, kind, script, pressed, result, gestures, broken

helper == <<gpc, kind, script, pressed, result, gestures, broken>>
handle == <<active, pc, todo, handles, stray>>

G == INSTANCE Gestures WITH pc <- gpc, MaxPushed <- MaxAll

\* Every helper the caller uses is one of those Gestures describes.
ASSUME HelpersKnown == Kinds \subseteq DOMAIN G!Script

TouchInit == Init /\ G!Init

HandleStep == gpc = "idle" /\ Next /\ UNCHANGED helper
HelperStep == pc = "none" /\ G!Next /\ UNCHANGED handle

TouchNext == HandleStep \/ HelperStep

TouchSpec == TouchInit /\ [][TouchNext]_<<vars, helper>>

-----------------------------------------------------------------------------
(* Between two calls nothing is half pressed, where the code has means     *)
(* against it: a helper that returned Ok, or one with a guard whose        *)
(* rollback followed a failed direct send, has left no key down and no     *)
(* finger that a dropped MultitouchHandle had not.  The modifier of        *)
(* type_text may stay: the code does not take it back.                     *)
NeverHalfPressed == pc = "none" => G!ReleasedBetweenCalls(stray)

(* A rollback undoes and never presses.                                    *)
RollbackOnlyReleases == [][G!OnlyReleases]_<<vars, helper>>
=============================================================================
