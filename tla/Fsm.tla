--------------------------------- MODULE Fsm ---------------------------------
(***************************************************************************)
(* ml::Stm::FsmHandler (MLCommon/inc/Stm/FsmHandler.h): a table-driven     *)
(* state machine any thread may fire events at.  fire_event takes _FsmMutex*)
(* and runs the machine to completion: the row of the event, then the      *)
(* ANY_EVENT rows of every state it comes to.  The parameter of the event  *)
(* is handed from row to row (PushAnyIfGuard) and deleted at the end.      *)
(*                                                                         *)
(* Initialize and SetCurrentState write _CurrentState without the mutex,   *)
(* also while the machine runs: what a search of the table reads then is   *)
(* any of the values of that time.                                         *)
(*                                                                         *)
(* A guard (conditionfn) looks at user data: its result is a choice.  An   *)
(* action (fn) takes time with the mutex held; it must not call fire_event,*)
(* which would lock the mutex a second time.                               *)
(***************************************************************************)
EXTENDS Naturals, Sequences, FiniteSets

CONSTANTS
  Callers,      \* threads that fire events
  States, Events,
  Params,       \* parameter objects, each passed to one fire_event
  AnyEvent,     \* ANY_EVENT
  Table,        \* the transition table: rows [start, event, guarded, next]
  FirstState,   \* the state _CurrentState() is initialised to
  MaxWrites,    \* bound: calls of Initialize and SetCurrentState
  None

ASSUME NoneAssumption == None \notin Callers /\ None \notin Events
ASSUME AnyEventAssumption == AnyEvent \notin Events
ASSUME MaxWritesAssumption == MaxWrites \in Nat
ASSUME FirstStateAssumption == FirstState \in States
ASSUME TableAssumption ==
  Table \in Seq([start : States, event : Events \cup {AnyEvent}, guarded : BOOLEAN,
                 next : States])

VARIABLES
  currentState,   \* _CurrentState
  seen,           \* its values since the thread that runs last looked
  eventQueue,     \* _EventQueue
  isPending,      \* _IsPendingEvent
  mutex,          \* the thread that holds _FsmMutex
  isInitialized,  \* _IsInitialized
  pc, call,       \* where each caller is in fire_event, and its arguments
  row,            \* the row whose action runs
  writes,
  fired,          \* history: parameters of the events fire_event took
  leaked,         \* history: parameters of the events it dropped
  deleted,        \* history: how often each parameter was deleted
  settledState,   \* history: the state when the mutex was free last
  written         \* history: the states written since then

stateVars == <<currentState, seen>>
paramVars == <<fired, leaked, deleted>>
restVars == <<settledState, written>>
vars == <<stateVars, eventQueue, isPending, mutex, isInitialized, pc, call, row, writes,
          paramVars, restVars>>

Calls == [event : Events \cup {AnyEvent}, param : Params]

TypeOK ==
  /\ currentState \in States /\ settledState \in States
  /\ seen \subseteq States /\ currentState \in seen /\ written \subseteq States
  /\ eventQueue \in Seq(Calls)
  /\ isPending \in BOOLEAN /\ isInitialized \in BOOLEAN
  /\ mutex \in Callers \cup {None}
  /\ pc \in [Callers -> {"idle", "lock", "run", "action", "push"}]
  /\ call \in [Callers -> Calls \cup {None}]
  /\ row \in 0..Len(Table)
  /\ writes \in 0..MaxWrites
  /\ fired \subseteq Params /\ leaked \subseteq Params
  /\ deleted \in [Params -> Nat]

Init ==
  /\ currentState = FirstState /\ seen = {FirstState}
  /\ settledState = FirstState /\ written = {}
  /\ eventQueue = <<>>
  /\ isPending = FALSE /\ isInitialized = FALSE
  /\ mutex = None
  /\ pc = [c \in Callers |-> "idle"]
  /\ call = [c \in Callers |-> None]
  /\ row = 0 /\ writes = 0
  /\ fired = {} /\ leaked = {}
  /\ deleted = [p \in Params |-> 0]

Quiet == mutex = None

-----------------------------------------------------------------------------
(* The table.  A test of a row reads _CurrentState: it may find the row's  *)
(* start among the values seen, and may find another value there unless    *)
(* that is the only one.                                                   *)

RowsFor(e) == {i \in DOMAIN Table : Table[i].event = e}

MayMiss(i) == seen # {Table[i].start}

\* The search may stop at row i: the tests or the guards of the rows before
\* it fail.
MayMatch(e, i) ==
  /\ i \in RowsFor(e) /\ Table[i].start \in seen
  /\ \A j \in RowsFor(e) : j < i => Table[j].guarded \/ MayMiss(j)

NoMatch(e) == \A i \in RowsFor(e) : Table[i].guarded \/ MayMiss(i)

AnyFound == \E i \in RowsFor(AnyEvent) : Table[i].start \in seen

AnyMissed == \A i \in RowsFor(AnyEvent) : MayMiss(i)

-----------------------------------------------------------------------------
(* The calls that do not lock. *)

Write(s) ==
  /\ writes < MaxWrites
  /\ writes' = writes + 1
  /\ currentState' = s
  /\ IF Quiet
     THEN seen' = {s} /\ settledState' = s /\ UNCHANGED written
     ELSE seen' = seen \cup {s} /\ written' = written \cup {s} /\ UNCHANGED settledState
  /\ UNCHANGED <<eventQueue, isPending, mutex, pc, call, row, paramVars>>

Initialize(s) == Write(s) /\ isInitialized' = TRUE

SetCurrentState(s) == Write(s) /\ UNCHANGED isInitialized

-----------------------------------------------------------------------------
(* fire_event. *)

\* Before Initialize the event is dropped, its parameter leaked.
FireEvent(c, e, p) ==
  /\ pc[c] = "idle"
  /\ p \notin fired \cup leaked
  /\ \/ /\ isInitialized
        /\ pc' = [pc EXCEPT ![c] = "lock"]
        /\ call' = [call EXCEPT ![c] = [event |-> e, param |-> p]]
        /\ fired' = fired \cup {p}
        /\ UNCHANGED leaked
     \/ /\ ~isInitialized
        /\ leaked' = leaked \cup {p}
        /\ UNCHANGED <<pc, call, fired>>
  /\ UNCHANGED <<stateVars, eventQueue, isPending, mutex, isInitialized, row, writes, deleted,
                 restVars>>

\* The push under the mutex.  isPending is only set while the mutex is held,
\* so the event is never left for another caller to process.
Lock(c) ==
  /\ pc[c] = "lock"
  /\ mutex = None
  /\ eventQueue' = Append(eventQueue, call[c])
  /\ mutex' = IF isPending THEN None ELSE c
  /\ pc' = [pc EXCEPT ![c] = IF isPending THEN "idle" ELSE "run"]
  /\ UNCHANGED <<stateVars, isPending, isInitialized, call, row, writes, paramVars, restVars>>

\* ProcessEvent finds a row and calls its action.
BeginAction(c) ==
  /\ pc[c] = "run"
  /\ eventQueue # <<>>
  /\ \E i \in DOMAIN Table : MayMatch(Head(eventQueue).event, i) /\ row' = i
  /\ isPending' = TRUE
  /\ pc' = [pc EXCEPT ![c] = "action"]
  /\ UNCHANGED <<stateVars, eventQueue, mutex, isInitialized, call, writes, paramVars, restVars>>

\* What was written to _CurrentState meanwhile is lost.
EndAction(c) ==
  /\ pc[c] = "action"
  /\ isPending' = FALSE
  /\ currentState' = Table[row].next /\ seen' = {Table[row].next}
  /\ row' = 0
  /\ pc' = [pc EXCEPT ![c] = "push"]
  /\ UNCHANGED <<eventQueue, mutex, isInitialized, call, writes, paramVars, restVars>>

\* "No possible transition": the state stays, its catch-all rows run.
NoTransition(c) ==
  /\ pc[c] = "run"
  /\ eventQueue # <<>>
  /\ NoMatch(Head(eventQueue).event)
  /\ seen' = {currentState}
  /\ pc' = [pc EXCEPT ![c] = "push"]
  /\ UNCHANGED <<currentState, eventQueue, isPending, mutex, isInitialized, call, row, writes,
                 paramVars, restVars>>

\* Mutant of Push: the parameter is deleted although it is passed on.
PushDelete(c) ==
  LET rescue == Head(eventQueue).param
      passed == [event |-> AnyEvent, param |-> rescue]
  IN /\ pc[c] = "push"
     /\ \/ AnyFound /\ eventQueue' = <<passed>> \o Tail(eventQueue)
        \/ AnyMissed /\ eventQueue' = Tail(eventQueue)
     /\ deleted' = [deleted EXCEPT ![rescue] = @ + 1]
     /\ seen' = {currentState}
     /\ pc' = [pc EXCEPT ![c] = "run"]
     /\ UNCHANGED <<currentState, isPending, mutex, isInitialized, call, row, writes, fired,
                    leaked, restVars>>

\* Mutant of Push: the catch-all rows are not looked at.
PushPlain(c) ==
  /\ pc[c] = "push"
  /\ eventQueue' = Tail(eventQueue)
  /\ deleted' = [deleted EXCEPT ![Head(eventQueue).param] = @ + 1]
  /\ seen' = {currentState}
  /\ pc' = [pc EXCEPT ![c] = "run"]
  /\ UNCHANGED <<currentState, isPending, mutex, isInitialized, call, row, writes, fired,
                 leaked, restVars>>

\* pop_front, PushAnyIfGuard and, if that finds no row, the delete.
Push(c) ==
  LET rescue == Head(eventQueue).param
      passed == [event |-> AnyEvent, param |-> rescue]
  IN /\ pc[c] = "push"
     /\ \/ /\ AnyFound
           /\ eventQueue' = <<passed>> \o Tail(eventQueue)
           /\ UNCHANGED deleted
        \/ /\ AnyMissed
           /\ eventQueue' = Tail(eventQueue)
           /\ deleted' = [deleted EXCEPT ![rescue] = @ + 1]
     /\ seen' = {currentState}
     /\ pc' = [pc EXCEPT ![c] = "run"]
     /\ UNCHANGED <<currentState, isPending, mutex, isInitialized, call, row, writes, fired,
                    leaked, restVars>>

\* The end of fire_event, seen from outside.
Release(c) ==
  /\ pc' = [pc EXCEPT ![c] = "idle"]
  /\ seen' = {currentState}
  /\ settledState' = currentState /\ written' = {}
  /\ UNCHANGED <<currentState, eventQueue, isPending, isInitialized, call, row, writes,
                 paramVars>>

\* Mutant of Unlock: the mutex is not released.
UnlockNot(c) == pc[c] = "run" /\ eventQueue = <<>> /\ UNCHANGED mutex /\ Release(c)

\* Mutant of Unlock: one event is processed instead of all.
UnlockEarly(c) == pc[c] = "run" /\ mutex' = None /\ Release(c)

Unlock(c) == pc[c] = "run" /\ eventQueue = <<>> /\ mutex' = None /\ Release(c)

Step(c) ==
  Lock(c) \/ BeginAction(c) \/ EndAction(c) \/ NoTransition(c) \/ Push(c) \/ Unlock(c)

Next ==
  \/ \E s \in States : Initialize(s) \/ SetCurrentState(s)
  \/ \E c \in Callers, e \in Events, p \in Params : FireEvent(c, e, p)
  \/ \E c \in Callers : Step(c)

Spec == Init /\ [][Next]_vars

\* A caller inside fire_event runs when it can.
FairSpec == Spec /\ \A c \in Callers : WF_vars(Step(c))

-----------------------------------------------------------------------------
Holders(p) ==
  {k \in DOMAIN eventQueue : eventQueue[k].param = p}
    \cup {c \in Callers : pc[c] = "lock" /\ call[c].param = p}

\* A parameter passed to fire_event is held in exactly one place, or has been
\* deleted exactly once: PushAnyIfGuard either takes it over or it is freed,
\* whatever is written to _CurrentState meanwhile.
ParamOwnedOrDeleted ==
  \A p \in fired : deleted[p] + Cardinality(Holders(p)) = 1

\* While the mutex is free no event waits in _EventQueue and no action is
\* pending, so the branch of fire_event that leaves the event to another
\* caller is never taken and no event is stranded.
NothingStranded == Quiet => eventQueue = <<>> /\ ~isPending

\* An event fired by one thread is never processed half way through another's,
\* and takes the machine from settled state to settled state; if somebody
\* writes _CurrentState meanwhile, to a state its own and the catch-all rows
\* lead to.
RTC == INSTANCE RunToCompletion
         WITH state <- settledState, initialized <- isInitialized,
              event <- IF Quiet THEN None ELSE call[mutex].event
RunsToCompletion == RTC!Spec

\* fire_event returns, provided catch-all rows are unguarded and not circular:
\* a guarded one whose guard is false is pushed again for ever (116, 132).
FireEventReturns == \A c \in Callers : pc[c] = "lock" ~> pc[c] = "idle"
=============================================================================
