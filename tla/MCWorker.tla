------------------------------ MODULE MCWorker ------------------------------
(***************************************************************************)
(* Small instances of Worker.  A timer's name says what it is: one-shot or *)
(* cyclic, and its id.                                                     *)
(***************************************************************************)
EXTENDS Worker

CONSTANTS w1, w2, m1, m2, m3, oneShot1, cyclic1, cyclic2, oneShot0

\* The ids of the TimerEntry instances.
MCTimerId ==
  [t \in Timers |-> CASE t \in {oneShot1, cyclic1} -> 1
                      [] t = cyclic2 -> 2
                      [] t = oneShot0 -> 0]

MCCyclic == {cyclic1, cyclic2} \cap Timers
=============================================================================
