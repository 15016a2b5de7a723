----------------------------- MODULE BoundedFifo -----------------------------
(***************************************************************************)
(* What the gamepad ring promises its two threads: a first-in first-out    *)
(* queue of at most Capacity frames.  A frame put in is taken out once, in *)
(* order, and never altered.                                               *)
(***************************************************************************)
EXTENDS Naturals, Sequences

CONSTANTS Capacity, PadFrames

VARIABLES
  q,      \* the frames in the queue
  taken   \* the frames taken out so far

Init == q = <<>> /\ taken = <<>>

Put(f) == /\ Len(q) < Capacity
          /\ q' = Append(q, f)
          /\ UNCHANGED taken

Take == /\ q # <<>>
        /\ taken' = Append(taken, Head(q))
        /\ q' = Tail(q)

Next == Take \/ \E f \in PadFrames : Put(f)

Spec == Init /\ [][Next]_<<q, taken>>
=============================================================================
