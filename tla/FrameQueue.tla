----------------------------- MODULE FrameQueue -----------------------------
(***************************************************************************)
(* What the decode-ahead ring of src/test_harness.c promises: decoded      *)
(* frames are shown in the order in which they were parked, each once, and *)
(* at most Capacity of them wait.  For want of memory a frame may be       *)
(* parked as a blank, which takes its turn and leaves the screen as it is. *)
(***************************************************************************)
EXTENDS Naturals, Sequences

CONSTANTS Frames, Capacity

VARIABLES q,      \* parked frames, oldest first
          shown   \* the frame on the screen

NoFrame == 0

Init == q = <<>> /\ shown = NoFrame

Park ==
  /\ Len(q) < Capacity
  /\ \E f \in Frames \cup {NoFrame} : q' = Append(q, f)
  /\ UNCHANGED shown

Show ==
  /\ q # <<>>
  /\ shown' = IF Head(q) = NoFrame THEN shown ELSE Head(q)
  /\ q' = Tail(q)

Spec == Init /\ [][Park \/ Show]_<<q, shown>>
=============================================================================
