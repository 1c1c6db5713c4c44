---------------------------- MODULE FrameChannel ----------------------------
(***************************************************************************)
(* What a stream of frames promises: frames come out as they were put in,  *)
(* in order, and all of them, until a write is cut short or fails.  After  *)
(* that nothing is promised.                                               *)
(***************************************************************************)
EXTENDS Naturals, Sequences

CONSTANT Frames

VARIABLES
  sent,         \* frames put in
  received,     \* frames taken out
  broken        \* a write was cut short or failed

vars == <<sent, received, broken>>

Init == sent = <<>> /\ received = <<>> /\ broken = FALSE

Send ==
  /\ ~broken
  /\ \E f \in Frames : sent' = Append(sent, f)
  /\ UNCHANGED <<received, broken>>

Receive ==
  /\ ~broken /\ Len(received) < Len(sent)
  /\ received' = Append(received, sent[Len(received) + 1])
  /\ UNCHANGED <<sent, broken>>

Break == ~broken /\ broken' /\ UNCHANGED <<sent, received>>

Next == Send \/ Receive \/ Break \/ (broken /\ broken')

InOrder == Init /\ [][Next]_vars

Spec == InOrder /\ WF_vars(Receive)
=============================================================================
