-------------------------------- MODULE MCFsm --------------------------------
(***************************************************************************)
(* A table for Fsm: guarded rows before unguarded ones, an event that leads *)
(* into a chain of catch-all rows, one of them guarded, and a row whose    *)
(* event may find no transition.                                           *)
(***************************************************************************)
EXTENDS Fsm

CONSTANTS off, warm, ready, on, go, halt

Row(s, e, g, t) == [start |-> s, event |-> e, guarded |-> g, next |-> t]

Chain ==
  << Row(off, go, TRUE, on), Row(off, go, FALSE, warm),
     Row(warm, AnyEvent, TRUE, on), Row(warm, AnyEvent, FALSE, ready),
     Row(ready, AnyEvent, FALSE, on), Row(on, halt, TRUE, off) >>
=============================================================================
