--------------------------- MODULE RunToCompletion ---------------------------
(***************************************************************************)
(* What a client of ml::Stm::FsmHandler sees: one event is processed at a  *)
(* time, and it takes the machine from one settled state to another.  The  *)
(* row of the event is taken, then the catch-all (ANY_EVENT) rows, until a *)
(* state without one is reached.  Guards are conditions on data this       *)
(* specification does not have: a guarded row may be taken or passed over. *)
(*                                                                         *)
(* Clients may also write the state, and while an event is processed that  *)
(* ends all of it but one thing: the machine comes to no state but those   *)
(* the rows of that event and the catch-all rows lead to, from the state   *)
(* before or from one that was written.                                    *)
(***************************************************************************)
EXTENDS Naturals, Sequences

CONSTANTS States, Events, AnyEvent, Table, None

VARIABLES
  state,          \* before the event that is being processed
  initialized,
  event,          \* the event that is being processed, or None
  written         \* states clients wrote meanwhile

\* Rows the table search can stop at: no earlier row of that state and event
\* is without a guard.
Selectable(s, e) ==
  {i \in DOMAIN Table :
     /\ Table[i].start = s /\ Table[i].event = e
     /\ \A j \in 1..(i - 1) :
          Table[j].start = s /\ Table[j].event = e => Table[j].guarded}

\* The search may also find no row whose guard holds.
MayPass(s, e) == \A i \in Selectable(s, e) : Table[i].guarded

HasAny(s) == \E i \in DOMAIN Table : Table[i].start = s /\ Table[i].event = AnyEvent

Successors(s, e) ==
  {Table[i].next : i \in Selectable(s, e)} \cup (IF MayPass(s, e) THEN {s} ELSE {})

\* The catch-all rows do not lead out of C.
Closed(C) == \A s \in C : HasAny(s) => Successors(s, AnyEvent) \subseteq C

\* Catch-all rows, none or more of them, lead from s to t.
Leads(s, t) == \A C \in SUBSET States : s \in C /\ Closed(C) => t \in C

Settled(s, t) == ~HasAny(t) /\ Leads(s, t)

\* Neither the rows of e nor the catch-all rows lead out of C.
ClosedFor(C, e) ==
  \A i \in DOMAIN Table :
    Table[i].start \in C /\ Table[i].event \in {e, AnyEvent} => Table[i].next \in C

\* Those rows lead to t from a state of W.
Strays(W, e, t) == \A C \in SUBSET States : W \subseteq C /\ ClosedFor(C, e) => t \in C

Init == state \in States /\ initialized = FALSE /\ event = None /\ written = {}

Write(s) ==
  \/ event = None /\ state' = s /\ UNCHANGED <<event, written>>
  \/ event # None /\ written' = written \cup {s} /\ UNCHANGED <<state, event>>

Initialize(s) == Write(s) /\ initialized' = TRUE

SetCurrentState(s) == Write(s) /\ UNCHANGED initialized

Take(e) ==
  /\ initialized
  /\ event = None
  /\ event' = e
  /\ UNCHANGED <<state, initialized, written>>

React ==
  /\ event # None
  /\ \/ /\ written = {}
        /\ \E s \in Successors(state, event) : Settled(s, state')
     \/ /\ written # {}
        /\ Strays({state} \cup written, event, state')
  /\ state' \in States
  /\ event' = None /\ written' = {}
  /\ UNCHANGED initialized

Next ==
  \/ \E s \in States : Initialize(s) \/ SetCurrentState(s)
  \/ \E e \in Events : Take(e)
  \/ React

Spec == Init /\ [][Next]_<<state, initialized, event, written>>
=============================================================================
