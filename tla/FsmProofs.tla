------------------------------ MODULE FsmProofs ------------------------------
(***************************************************************************)
(* Fsm for every transition table, every number of callers and of          *)
(* parameters: types, nothing left in the queue, one owner for every       *)
(* parameter, and the refinement of RunToCompletion.                       *)
(***************************************************************************)
EXTENDS Fsm, FiniteSetTheorems, SequenceTheorems, TLAPS

\* Who runs the machine holds the mutex.
Exclusive == \A c \in Callers : mutex = c <=> pc[c] \in {"run", "action", "push"}

\* A caller inside fire_event came there after Initialize, with an event of
\* the table's own.
Called ==
  \A c \in Callers : pc[c] # "idle" =>
    isInitialized /\ call[c] \in [event : Events, param : Params]

\* Nothing is under way while the mutex is free.
Rest ==
  mutex = None =>
    /\ eventQueue = <<>> /\ ~isPending
    /\ currentState = settledState /\ seen = {currentState} /\ written = {}

\* State t can be come to in a call of c that is not over, by its own row and
\* catch-all rows ...
Came(c, t) == \E s \in RTC!Successors(settledState, call[c].event) : RTC!Leads(s, t)

\* ... and by any of those rows, also from states that were written.
Near(c, t) == RTC!Strays({settledState} \cup written, call[c].event, t)

\* The three parts of a run: the caller's own event, the catch-all rows, the end.
OwnEvent(c) == eventQueue = <<call[c]>>
CatchAll(c) == eventQueue = <<[event |-> AnyEvent, param |-> call[c].param]>>
Ended(c) == eventQueue = <<>> /\ pc[c] = "run"

\* Where the machine is in each of them, unless _CurrentState was written ...
Course(c) ==
  /\ seen = {currentState}
  /\ OwnEvent(c) /\ pc[c] # "push" => currentState = settledState
  /\ CatchAll(c) /\ pc[c] # "push" => RTC!HasAny(currentState) /\ Came(c, currentState)
  /\ Ended(c) => ~RTC!HasAny(currentState)
  /\ Ended(c) \/ pc[c] = "push" => Came(c, currentState)
  /\ pc[c] = "action" =>
       Table[row].next \in RTC!Successors(currentState, Head(eventQueue).event)

\* ... and in any case.
Bounds(c) ==
  /\ \A s \in seen : Near(c, s)
  /\ pc[c] = "action" => Near(c, Table[row].next)

Work(c) ==
  /\ OwnEvent(c) \/ CatchAll(c) \/ Ended(c)
  /\ pc[c] # "action" => ~isPending
  /\ written = {} => Course(c)
  /\ Bounds(c)

Running == \A c \in Callers : mutex = c => Work(c)

Inv == TypeOK /\ Exclusive /\ Called /\ Rest /\ Running

\* A caller that brings a parameter to the machine, or runs it with one.
Carries(c) == pc[c] = "lock" \/ (mutex = c /\ eventQueue # <<>>)

\* The parameters under way are fired ones that are not deleted, each with one
\* carrier, and every other fired one has been deleted once.
Carried ==
  /\ \A p \in Params : p \notin fired => deleted[p] = 0
  /\ \A c \in Callers : Carries(c) => call[c].param \in fired /\ deleted[call[c].param] = 0
  /\ \A c, d \in Callers : Carries(c) /\ Carries(d) /\ call[c].param = call[d].param => c = d
  /\ \A p \in fired : deleted[p] = 1 \/ \E c \in Callers : Carries(c) /\ call[c].param = p

-----------------------------------------------------------------------------
(* The table, as long as the machine sees one state. *)

\* The row at which ProcessEvent stops is one the table search may stop at.
LEMMA RowLeads ==
  ASSUME NEW s, seen = {s}, NEW e, NEW i, MayMatch(e, i)
  PROVE  Table[i].next \in RTC!Successors(s, e)
<1>1. i \in DOMAIN Table /\ Table[i].start = s /\ Table[i].event = e
  BY DEF MayMatch, RowsFor
<1>2. ASSUME NEW j \in 1..(i - 1), Table[j].start = s, Table[j].event = e
      PROVE  Table[j].guarded
  <2>1. i \in 1..Len(Table)
    BY <1>1, TableAssumption
  <2>2. j \in DOMAIN Table /\ j < i
    BY <2>1, TableAssumption
  <2> QED
    BY <1>2, <2>2 DEF MayMatch, RowsFor, MayMiss
<1> QED
  BY <1>1, <1>2 DEF RTC!Successors, RTC!Selectable

\* Where ProcessEvent finds no transition, an event may be passed over.
LEMMA NoRowStays ==
  ASSUME NEW s, seen = {s}, NEW e, NoMatch(e)
  PROVE  s \in RTC!Successors(s, e)
BY DEF NoMatch, RowsFor, MayMiss, RTC!Successors, RTC!MayPass, RTC!Selectable

\* PushAnyIfGuard and the abstract machine look for the same rows.
LEMMA SameCatchAll ==
  ASSUME NEW s, seen = {s}
  PROVE  (AnyFound <=> RTC!HasAny(s)) /\ (AnyMissed <=> ~RTC!HasAny(s))
BY DEF AnyFound, AnyMissed, MayMiss, RowsFor, RTC!HasAny

\* No row leads out of the states.
LEMMA RowsLeadToStates ==
  ASSUME NEW i \in DOMAIN Table
  PROVE  Table[i].next \in States
<1>1. Table[i] \in [start : States, event : Events \cup {AnyEvent}, guarded : BOOLEAN,
                    next : States]
  <2>1. i \in 1..Len(Table)
    BY TableAssumption, LenProperties
  <2> QED
    BY <2>1, TableAssumption, ElementOfSeq
<1> QED
  BY <1>1

\* A state leads to itself.
LEMMA LeadsNowhere ==
  ASSUME NEW s
  PROVE  RTC!Leads(s, s)
BY DEF RTC!Leads

\* One more catch-all row.
LEMMA LeadsOn ==
  ASSUME NEW s, NEW t, RTC!Leads(s, t), RTC!HasAny(t),
         NEW u \in RTC!Successors(t, AnyEvent)
  PROVE  RTC!Leads(s, u)
<1> SUFFICES ASSUME NEW C \in SUBSET States, s \in C, RTC!Closed(C)
             PROVE  u \in C
  BY DEF RTC!Leads
<1>1. t \in C
  BY DEF RTC!Leads
<1> QED
  BY <1>1 DEF RTC!Closed

\* What the rows of an event lead to: states, among them where they start.
LEMMA StraysAreStates ==
  ASSUME NEW W \in SUBSET States, NEW e, NEW t, RTC!Strays(W, e, t)
  PROVE  t \in States
<1>1. RTC!ClosedFor(States, e)
  BY RowsLeadToStates DEF RTC!ClosedFor
<1> QED
  BY <1>1 DEF RTC!Strays

LEMMA StraysNowhere ==
  ASSUME NEW W, NEW e, NEW t \in W
  PROVE  RTC!Strays(W, e, t)
BY DEF RTC!Strays

LEMMA StraysFromMore ==
  ASSUME NEW V, NEW W, V \subseteq W, NEW e, NEW t, RTC!Strays(V, e, t)
  PROVE  RTC!Strays(W, e, t)
BY DEF RTC!Strays

LEMMA StraysOn ==
  ASSUME NEW W, NEW e, NEW i \in DOMAIN Table, Table[i].event \in {e, AnyEvent},
         RTC!Strays(W, e, Table[i].start)
  PROVE  RTC!Strays(W, e, Table[i].next)
BY DEF RTC!Strays, RTC!ClosedFor

-----------------------------------------------------------------------------
(* One turn of the machine. *)

\* Who runs the machine with an event has it alone in the queue.
LEMMA OneEvent ==
  ASSUME NEW c \in Callers, Work(c), eventQueue # <<>>
  PROVE  \E x : /\ eventQueue = <<x>> /\ Head(eventQueue) = x /\ Tail(eventQueue) = <<>>
                /\ x.param = call[c].param
                /\ \/ x = call[c] /\ OwnEvent(c)
                   \/ x.event = AnyEvent /\ CatchAll(c)
<1>1. CASE OwnEvent(c)
  BY <1>1 DEF OwnEvent
<1>2. CASE CatchAll(c)
  <2>1. eventQueue = <<[event |-> AnyEvent, param |-> call[c].param]>>
    BY <1>2 DEF CatchAll
  <2> QED
    BY <1>2, <2>1
<1> QED
  BY <1>1, <1>2 DEF Work, Ended

\* Where the rows of the event at the head lead, the call has come to.
LEMMA RowAdvances ==
  ASSUME NEW c \in Callers, Work(c), written = {}, eventQueue # <<>>, pc[c] # "push",
         NEW t \in RTC!Successors(currentState, Head(eventQueue).event)
  PROVE  Came(c, t)
<1>1. PICK x : /\ Head(eventQueue) = x
               /\ \/ x = call[c] /\ OwnEvent(c)
                  \/ x.event = AnyEvent /\ CatchAll(c)
  BY OneEvent
<1>2. CASE x = call[c] /\ OwnEvent(c)
  BY <1>1, <1>2, LeadsNowhere DEF Came, Work, Course
<1>3. CASE x.event = AnyEvent /\ CatchAll(c)
  <2>1. RTC!HasAny(currentState) /\ Came(c, currentState)
    BY <1>3 DEF Work, Course
  <2>2. PICK s \in RTC!Successors(settledState, call[c].event) : RTC!Leads(s, currentState)
    BY <2>1 DEF Came
  <2>3. RTC!Leads(s, t)
    BY <1>1, <1>3, <2>1, <2>2, LeadsOn
  <2> QED
    BY <2>2, <2>3 DEF Came
<1> QED
  BY <1>1, <1>2, <1>3

\* The row ProcessEvent stops at keeps the machine near, whatever it saw.
LEMMA RowStaysNear ==
  ASSUME NEW c \in Callers, Work(c), eventQueue # <<>>,
         NEW i, MayMatch(Head(eventQueue).event, i)
  PROVE  Near(c, Table[i].next)
<1>1. PICK x : Head(eventQueue) = x /\ (x = call[c] \/ x.event = AnyEvent)
  BY OneEvent
<1>2. i \in DOMAIN Table /\ Table[i].event \in {call[c].event, AnyEvent} /\ Table[i].start \in seen
  BY <1>1 DEF MayMatch, RowsFor
<1>3. Near(c, Table[i].start)
  BY <1>2 DEF Work, Bounds
<1> QED
  BY <1>2, <1>3, StraysOn DEF Near

\* PushAnyIfGuard leaves the catch-all event or nothing, and deletes the
\* parameter exactly when it leaves nothing.
LEMMA Finished ==
  ASSUME NEW c \in Callers, Work(c), Push(c)
  PROVE  \/ /\ AnyFound
            /\ eventQueue' = <<[event |-> AnyEvent, param |-> call[c].param]>>
            /\ deleted' = deleted
         \/ /\ AnyMissed
            /\ eventQueue' = <<>>
            /\ deleted' = [deleted EXCEPT ![call[c].param] = @ + 1]
<1>1. eventQueue # <<>>
  BY DEF Push, Work, OwnEvent, CatchAll, Ended
<1>2. PICK x : /\ Head(eventQueue) = x /\ Tail(eventQueue) = <<>>
               /\ x.param = call[c].param
  BY <1>1, OneEvent
<1>3. CASE AnyFound /\ UNCHANGED deleted
           /\ eventQueue' = <<[event |-> AnyEvent, param |-> Head(eventQueue).param]>>
                              \o Tail(eventQueue)
  <2>1. \A y : <<y>> \o <<>> = <<y>>
    OBVIOUS
  <2> QED
    BY <1>2, <1>3, <2>1
<1>4. CASE AnyMissed /\ eventQueue' = Tail(eventQueue)
           /\ deleted' = [deleted EXCEPT ![Head(eventQueue).param] = @ + 1]
  BY <1>2, <1>4
<1> QED
  BY <1>3, <1>4 DEF Push

-----------------------------------------------------------------------------
(* The invariant. *)

LEMMA InvInit == Init => Inv
<1> SUFFICES ASSUME Init PROVE Inv
  OBVIOUS
<1>1. TypeOK
  <2>1. 0 \in 0..Len(Table)
    BY TableAssumption, LenProperties
  <2>2. <<>> \in Seq(Calls)
    OBVIOUS
  <2>3. 0 \in 0..MaxWrites
    BY MaxWritesAssumption
  <2> QED
    BY <2>1, <2>2, <2>3, FirstStateAssumption DEF Init, TypeOK
<1>2. Exclusive /\ Called /\ Rest /\ Running
  BY NoneAssumption DEF Init, Exclusive, Called, Rest, Running
<1> QED
  BY <1>1, <1>2 DEF Inv

\* What does not concern the machine leaves a run where it is.
LEMMA WorkSame ==
  ASSUME NEW c \in Callers, Work(c), call'[c] = call[c], pc'[c] = pc[c],
         UNCHANGED <<stateVars, eventQueue, isPending, row, restVars>>
  PROVE  Work(c)'
BY DEF Work, Course, Bounds, OwnEvent, CatchAll, Ended, Came, Near, stateVars, restVars

\* A write takes effect at once, or is one more value a run may see.
LEMMA WriteInv ==
  ASSUME Inv, NEW s \in States, Write(s), isInitialized' \in {TRUE, isInitialized}
  PROVE  Inv'
<1> USE DEF Inv
<1>1. UNCHANGED <<eventQueue, isPending, mutex, pc, call, row, fired, leaked, deleted>>
  BY DEF Write, paramVars
<1>2. TypeOK'
  <2>1. writes' \in 0..MaxWrites
    BY MaxWritesAssumption DEF Write, TypeOK
  <2>2. seen' \subseteq States /\ currentState' \in seen' /\ written' \subseteq States
        /\ currentState' \in States /\ settledState' \in States
    BY DEF Write, TypeOK
  <2> QED
    BY <1>1, <2>1, <2>2 DEF TypeOK
<1>3. Exclusive' /\ Called'
  <2>1. isInitialized => isInitialized'
    BY DEF TypeOK
  <2> QED
    BY <1>1, <2>1 DEF Exclusive, Called
<1>4. Rest'
  BY <1>1 DEF Rest, Write, Quiet
<1>5. ASSUME NEW c \in Callers, mutex = c
      PROVE  Work(c)'
  <2>1. /\ Work(c) /\ settledState' = settledState
        /\ seen' = seen \cup {s} /\ written' = written \cup {s}
    BY <1>5, NoneAssumption DEF Running, Write, Quiet
  <2>2. OwnEvent(c)' \/ CatchAll(c)' \/ Ended(c)'
    BY <1>1, <2>1 DEF Work, OwnEvent, CatchAll, Ended
  <2>3. ASSUME NEW t, Near(c, t)
        PROVE  Near(c, t)'
    <3>1. RTC!Strays({settledState} \cup written \cup {s}, call[c].event, t)
      BY <2>3, StraysFromMore DEF Near
    <3> QED
      BY <1>1, <2>1, <3>1 DEF Near, RTC!Strays, RTC!ClosedFor
  <2>4. Near(c, s)'
    BY <2>1 DEF Near, RTC!Strays
  <2>5. Bounds(c)'
    BY <1>1, <2>1, <2>3, <2>4 DEF Work, Bounds
  <2> QED
    BY <1>1, <2>1, <2>2, <2>5 DEF Work
<1>6. Running'
  BY <1>1, <1>5 DEF Running
<1> QED
  BY <1>2, <1>3, <1>4, <1>6

LEMMA FireEventInv ==
  ASSUME Inv, NEW c \in Callers, NEW e \in Events, NEW p \in Params, FireEvent(c, e, p)
  PROVE  Inv'
<1> USE DEF Inv
<1>1. /\ UNCHANGED <<currentState, seen, eventQueue, isPending, mutex, isInitialized, row,
                     writes, deleted, settledState, written>>
  BY DEF FireEvent, stateVars, restVars
<1>2. CASE ~isInitialized
  <2>1. UNCHANGED <<pc, call, fired>> /\ leaked' = leaked \cup {p}
    BY <1>2 DEF FireEvent
  <2>2. TypeOK'
    BY <1>1, <2>1 DEF TypeOK
  <2>3. Exclusive' /\ Called' /\ Rest'
    BY <1>1, <2>1 DEF Exclusive, Called, Rest
  <2>4. Running'
    BY <1>1, <2>1, WorkSame DEF Running, stateVars, restVars
  <2> QED
    BY <2>2, <2>3, <2>4
<1>3. CASE isInitialized
  <2>1. /\ pc[c] = "idle"
        /\ pc' = [pc EXCEPT ![c] = "lock"]
        /\ call' = [call EXCEPT ![c] = [event |-> e, param |-> p]]
        /\ fired' = fired \cup {p}
        /\ UNCHANGED leaked
    BY <1>3 DEF FireEvent
  <2>2. TypeOK'
    BY <1>1, <2>1 DEF TypeOK, Calls
  <2>3. pc \in [Callers -> {"idle", "lock", "run", "action", "push"}]
        /\ call \in [Callers -> Calls \cup {None}]
    BY DEF TypeOK
  <2>4. Exclusive'
    BY <1>1, <2>1, <2>3 DEF Exclusive
  <2>5. Called'
    BY <1>1, <1>3, <2>1, <2>3 DEF Called
  <2>6. Rest'
    BY <1>1 DEF Rest
  <2>7. ASSUME NEW d \in Callers, mutex = d
        PROVE  Work(d)'
    <3>1. Work(d) /\ d # c
      BY <2>1, <2>7 DEF Running, Exclusive
    <3>2. call'[d] = call[d] /\ pc'[d] = pc[d]
      BY <2>1, <2>3, <3>1
    <3> QED
      BY <1>1, <3>1, <3>2, WorkSame DEF stateVars, restVars
  <2>8. Running'
    BY <1>1, <2>7 DEF Running
  <2> QED
    BY <2>2, <2>4, <2>5, <2>6, <2>8
<1> QED
  BY <1>2, <1>3

LEMMA LockInv ==
  ASSUME Inv, NEW c \in Callers, Lock(c)
  PROVE  Inv'
<1> USE DEF Inv
<1>1. /\ pc[c] = "lock" /\ mutex = None /\ eventQueue = <<>> /\ ~isPending
      /\ currentState = settledState /\ seen = {currentState} /\ written = {}
      /\ isInitialized /\ call[c] \in [event : Events, param : Params]
  BY DEF Lock, Rest, Called
<1>2. /\ mutex' = c
      /\ pc' = [pc EXCEPT ![c] = "run"]
      /\ UNCHANGED <<currentState, seen, isPending, isInitialized, call, row, writes, fired,
                     leaked, deleted, settledState, written>>
  BY <1>1 DEF Lock, stateVars, paramVars, restVars
<1>3. eventQueue' = <<call[c]>>
  <2>1. eventQueue' = Append(<<>>, call[c])
    BY <1>1 DEF Lock
  <2> QED
    BY <2>1
<1>4. pc \in [Callers -> {"idle", "lock", "run", "action", "push"}]
  BY DEF TypeOK
<1>5. TypeOK'
  <2>1. eventQueue' \in Seq(Calls)
    <3>1. call[c] \in Calls
      BY <1>1 DEF Calls
    <3> QED
      BY <1>3, <3>1
  <2> QED
    BY <1>2, <2>1 DEF TypeOK
<1>6. Exclusive'
  BY <1>1, <1>2, <1>4, NoneAssumption DEF Exclusive
<1>7. Called'
  BY <1>1, <1>2, <1>4 DEF Called
<1>8. Rest'
  BY <1>2, NoneAssumption DEF Rest
<1>9. Running'
  <2>1. OwnEvent(c)' /\ eventQueue' # <<>>
    BY <1>2, <1>3 DEF OwnEvent
  <2>2. pc'[c] = "run" /\ ~isPending'
    BY <1>1, <1>2, <1>4
  <2>3. ~CatchAll(c)'
    <3>1. call[c].event # AnyEvent
      BY <1>1, AnyEventAssumption
    <3>2. \A x, y : <<x>> = <<y>> => x = y
      OBVIOUS
    <3> QED
      BY <1>3, <3>1, <3>2 DEF CatchAll
  <2>4. Course(c)'
    BY <1>1, <1>2, <2>1, <2>2, <2>3 DEF Course, Ended
  <2>5. Bounds(c)'
    <3>1. RTC!Strays({settledState} \cup written, call[c].event, settledState)
      BY StraysNowhere
    <3>2. seen' = {settledState}
      BY <1>1, <1>2
    <3>3. \A t \in seen' : Near(c, t)'
      BY <1>2, <3>1, <3>2 DEF Near, RTC!Strays, RTC!ClosedFor
    <3> QED
      BY <2>2, <3>3 DEF Bounds
  <2>6. Work(c)'
    BY <2>1, <2>2, <2>4, <2>5 DEF Work
  <2> QED
    BY <1>2, <2>6 DEF Running
<1> QED
  BY <1>5, <1>6, <1>7, <1>8, <1>9

\* The steps of the caller that runs the machine concern nobody else.
LEMMA RunnerInv ==
  ASSUME Inv, NEW c \in Callers, mutex = c, TypeOK', Work(c)',
         NEW l \in {"run", "action", "push"}, pc' = [pc EXCEPT ![c] = l],
         UNCHANGED <<mutex, isInitialized, call>>
  PROVE  Inv'
<1>1. pc \in [Callers -> {"idle", "lock", "run", "action", "push"}]
  BY DEF Inv, TypeOK
<1>2. Exclusive'
  BY <1>1 DEF Inv, Exclusive
<1>3. Called'
  <2>1. isInitialized /\ call[c] \in [event : Events, param : Params]
    BY DEF Inv, Exclusive, Called
  <2> QED
    BY <1>1, <2>1 DEF Inv, Called
<1>4. Rest' /\ Running'
  BY NoneAssumption DEF Rest, Running
<1> QED
  BY <1>2, <1>3, <1>4 DEF Inv

LEMMA BeginActionInv ==
  ASSUME Inv, NEW c \in Callers, BeginAction(c)
  PROVE  Inv'
<1>1. pc[c] = "run" /\ mutex = c /\ Work(c) /\ eventQueue # <<>>
  BY DEF BeginAction, Inv, Exclusive, Running
<1>2. /\ pc' = [pc EXCEPT ![c] = "action"] /\ isPending' = TRUE
      /\ UNCHANGED <<currentState, seen, eventQueue, mutex, isInitialized, call, writes, fired,
                     leaked, deleted, settledState, written>>
      /\ row' \in DOMAIN Table /\ MayMatch(Head(eventQueue).event, row')
  BY DEF BeginAction, stateVars, paramVars, restVars
<1>3. TypeOK'
  <2>1. row' \in 0..Len(Table)
    BY <1>2, TableAssumption
  <2> QED
    BY <1>2, <2>1 DEF Inv, TypeOK
<1>4. pc'[c] = "action"
  BY <1>2 DEF Inv, TypeOK
<1>5. OwnEvent(c)' \/ CatchAll(c)'
  BY <1>1, <1>2 DEF Work, OwnEvent, CatchAll, Ended
<1>6. ASSUME written = {}
      PROVE  Course(c)'
  <2>1. Course(c)
    BY <1>1, <1>6 DEF Work
  <2>2. Table[row'].next \in RTC!Successors(currentState, Head(eventQueue).event)
    BY <1>2, <2>1, RowLeads DEF Course
  <2>3. /\ OwnEvent(c)' => currentState = settledState
        /\ CatchAll(c)' => RTC!HasAny(currentState) /\ Came(c, currentState)'
    BY <1>1, <1>2, <2>1 DEF Course, OwnEvent, CatchAll, Came
  <2> QED
    BY <1>2, <1>4, <2>1, <2>2, <2>3 DEF Course, Ended
<1>7. Bounds(c)'
  <2>1. Near(c, Table[row'].next)
    BY <1>1, <1>2, RowStaysNear
  <2> QED
    BY <1>1, <1>2, <2>1 DEF Work, Bounds, Near
<1>8. Work(c)'
  BY <1>2, <1>4, <1>5, <1>6, <1>7 DEF Work
<1> QED
  BY <1>1, <1>2, <1>3, <1>8, RunnerInv

\* What EndAction and NoTransition have in common: the machine comes to state t,
\* with its event still in the queue.
LEMMA TurnInv ==
  ASSUME Inv, NEW c \in Callers, mutex = c, eventQueue # <<>>, pc[c] # "push",
         NEW t \in States, currentState' = t, seen' = {t}, isPending' = FALSE, Near(c, t),
         written = {} => t \in RTC!Successors(currentState, Head(eventQueue).event),
         row' \in 0..Len(Table), pc' = [pc EXCEPT ![c] = "push"],
         UNCHANGED <<eventQueue, mutex, isInitialized, call, writes, paramVars, restVars>>
  PROVE  Inv'
<1>1. Work(c)
  BY DEF Inv, Running
<1>2. TypeOK'
  BY DEF Inv, TypeOK, paramVars, restVars
<1>3. pc'[c] = "push"
  BY DEF Inv, TypeOK
<1>4. OwnEvent(c)' \/ CatchAll(c)'
  BY <1>1 DEF Work, OwnEvent, CatchAll, Ended
<1>5. ASSUME written = {}
      PROVE  Course(c)'
  <2>1. Came(c, t)
    BY <1>1, <1>5, RowAdvances
  <2>2. Came(c, currentState)'
    BY <2>1 DEF Came, restVars
  <2> QED
    BY <1>3, <2>2 DEF Course, Ended
<1>6. Bounds(c)'
  BY <1>3 DEF Bounds, Near, restVars
<1>7. Work(c)'
  BY <1>4, <1>5, <1>6 DEF Work, restVars
<1> QED
  BY <1>2, <1>7, RunnerInv

LEMMA EndActionInv ==
  ASSUME Inv, NEW c \in Callers, EndAction(c)
  PROVE  Inv'
<1>1. mutex = c /\ Work(c) /\ pc[c] = "action"
  BY DEF EndAction, Inv, Exclusive, Running
<1>2. eventQueue # <<>>
  BY <1>1 DEF Work, OwnEvent, CatchAll, Ended
<1>3. Near(c, Table[row].next)
  BY <1>1 DEF Work, Bounds
<1>4. written = {} => Table[row].next \in RTC!Successors(currentState, Head(eventQueue).event)
  BY <1>1 DEF Work, Course
<1>5. Table[row].next \in States
  BY <1>3, StraysAreStates DEF Near, Inv, TypeOK
<1>6. row' \in 0..Len(Table)
  BY TableAssumption, LenProperties DEF EndAction
<1> QED
  BY <1>1, <1>2, <1>3, <1>4, <1>5, <1>6, TurnInv DEF EndAction

LEMMA NoTransitionInv ==
  ASSUME Inv, NEW c \in Callers, NoTransition(c)
  PROVE  Inv'
<1>1. mutex = c /\ Work(c) /\ pc[c] = "run" /\ ~isPending
  BY DEF NoTransition, Inv, Exclusive, Running, Work
<1>2. Near(c, currentState) /\ currentState \in States
  BY <1>1 DEF Work, Bounds, Inv, TypeOK
<1>3. written = {} => currentState \in RTC!Successors(currentState, Head(eventQueue).event)
  BY <1>1, NoRowStays DEF NoTransition, Work, Course
<1>4. row' \in 0..Len(Table) /\ isPending' = FALSE
  BY <1>1 DEF NoTransition, Inv, TypeOK
<1> QED
  BY <1>1, <1>2, <1>3, <1>4, TurnInv DEF NoTransition

LEMMA PushInv ==
  ASSUME Inv, NEW c \in Callers, Push(c)
  PROVE  Inv'
<1>1. mutex = c /\ Work(c) /\ pc[c] = "push" /\ ~isPending
  BY DEF Push, Inv, Exclusive, Running, Work
<1>2. /\ seen' = {currentState} /\ pc' = [pc EXCEPT ![c] = "run"]
      /\ UNCHANGED <<currentState, isPending, mutex, isInitialized, call, row, writes, fired,
                     leaked, settledState, written>>
  BY DEF Push, restVars
<1>3. pc'[c] = "run"
  BY <1>2 DEF Inv, TypeOK
<1>4. call[c] \in [event : Events, param : Params]
  BY <1>1 DEF Inv, Called
<1>5. \/ CatchAll(c)' /\ AnyFound
      \/ eventQueue' = <<>> /\ AnyMissed
  BY <1>1, <1>2, Finished DEF CatchAll
<1>6. TypeOK'
  <2>1. eventQueue' \in Seq(Calls)
    <3>1. [event |-> AnyEvent, param |-> call[c].param] \in Calls
      BY <1>4 DEF Calls
    <3>2. CatchAll(c)' => eventQueue' \in Seq(Calls)
      BY <1>2, <3>1 DEF CatchAll
    <3>3. <<>> \in Seq(Calls)
      OBVIOUS
    <3> QED
      BY <1>5, <3>2, <3>3
  <2>2. deleted' \in [Params -> Nat]
    BY <1>1, <1>4, Finished DEF Inv, TypeOK
  <2> QED
    BY <1>2, <2>1, <2>2 DEF Inv, TypeOK
<1>7. ~OwnEvent(c)'
  <2>1. call[c].event # AnyEvent
    BY <1>4, AnyEventAssumption
  <2>2. \A x, y : <<x>> = <<y>> => x = y
    OBVIOUS
  <2> QED
    BY <1>2, <1>5, <2>1, <2>2 DEF OwnEvent, CatchAll
<1>8. ASSUME written = {}
      PROVE  Course(c)'
  <2>1. seen = {currentState} /\ Came(c, currentState)
    BY <1>1, <1>8 DEF Work, Course
  <2>2. Came(c, currentState)'
    BY <1>2, <2>1 DEF Came
  <2>3. CatchAll(c)' => RTC!HasAny(currentState)
    BY <1>5, <2>1, SameCatchAll DEF CatchAll
  <2>4. Ended(c)' => ~RTC!HasAny(currentState)
    BY <1>5, <2>1, SameCatchAll DEF CatchAll, Ended
  <2> QED
    BY <1>2, <1>3, <1>7, <2>1, <2>2, <2>3, <2>4 DEF Course
<1>9. Bounds(c)'
  <2>1. Near(c, currentState)
    BY <1>1 DEF Work, Bounds, Inv, TypeOK
  <2> QED
    BY <1>2, <1>3, <2>1 DEF Bounds, Near
<1>10. Work(c)'
  BY <1>1, <1>2, <1>3, <1>5, <1>8, <1>9 DEF Work, Ended
<1> QED
  BY <1>1, <1>2, <1>6, <1>10, RunnerInv

LEMMA UnlockInv ==
  ASSUME Inv, NEW c \in Callers, Unlock(c)
  PROVE  Inv'
<1> USE DEF Inv
<1>1. mutex = c /\ Work(c) /\ ~isPending /\ eventQueue = <<>>
  BY DEF Unlock, Exclusive, Running, Work
<1>2. /\ mutex' = None /\ pc' = [pc EXCEPT ![c] = "idle"]
      /\ seen' = {currentState} /\ settledState' = currentState /\ written' = {}
      /\ UNCHANGED <<currentState, eventQueue, isPending, isInitialized, call, row, writes,
                     fired, leaked, deleted>>
  BY DEF Unlock, Release, paramVars
<1>3. pc \in [Callers -> {"idle", "lock", "run", "action", "push"}]
  BY DEF TypeOK
<1>4. TypeOK'
  BY <1>2, <1>3 DEF TypeOK
<1>5. Exclusive' /\ Called'
  BY <1>1, <1>2, <1>3, NoneAssumption DEF Exclusive, Called
<1>6. Rest' /\ Running'
  BY <1>1, <1>2, NoneAssumption DEF Rest, Running
<1> QED
  BY <1>4, <1>5, <1>6

LEMMA InvNext ==
  ASSUME Inv, [Next]_vars
  PROVE  Inv'
<1>1. ASSUME NEW s \in States, Initialize(s) \/ SetCurrentState(s) PROVE Inv'
  BY <1>1, WriteInv DEF Initialize, SetCurrentState
<1>2. ASSUME NEW c \in Callers, NEW e \in Events, NEW p \in Params, FireEvent(c, e, p)
      PROVE  Inv'
  BY <1>2, FireEventInv
<1>3. ASSUME NEW c \in Callers, Step(c) PROVE Inv'
  BY <1>3, LockInv, BeginActionInv, EndActionInv, NoTransitionInv, PushInv, UnlockInv DEF Step
<1>4. CASE UNCHANGED vars
  <2>1. TypeOK' /\ Exclusive' /\ Called' /\ Rest'
    BY <1>4 DEF vars, stateVars, paramVars, restVars, Inv, TypeOK, Exclusive, Called, Rest
  <2>2. Running'
    BY <1>4, WorkSame DEF vars, Inv, Running
  <2> QED
    BY <2>1, <2>2 DEF Inv
<1> QED
  BY <1>1, <1>2, <1>3, <1>4 DEF Next

\* Types, the mutex and the parts of a run.
LEMMA Invariant == Spec => []Inv
<1>1. Init => Inv
  BY InvInit
<1>2. Inv /\ [Next]_vars => Inv'
  BY InvNext
<1> QED
  BY <1>1, <1>2, PTL DEF Spec

\* Every variable of FsmHandler keeps its type, with _CurrentState written at
\* any time: the rows of the table lead to no value that is not a state.
THEOREM TypeCorrect == Spec => []TypeOK
<1>1. Inv => TypeOK
  BY DEF Inv
<1> QED
  BY <1>1, Invariant, PTL

\* While _FsmMutex is free, _EventQueue is empty and _IsPendingEvent is false
\* (FsmHandler.h:188-194).
THEOREM NoEventStranded == Spec => []NothingStranded
<1>1. Inv => NothingStranded
  BY DEF Inv, Rest, NothingStranded, Quiet
<1> QED
  BY <1>1, Invariant, PTL

-----------------------------------------------------------------------------
(* The owner of a parameter. *)

LEMMA CarriedSame ==
  ASSUME Carried, UNCHANGED <<call, fired, deleted>>,
         \A c \in Callers : Carries(c)' <=> Carries(c)
  PROVE  Carried'
BY DEF Carried

LEMMA CarriedFire ==
  ASSUME Inv, Carried, NEW c \in Callers, NEW e \in Events, NEW p \in Params,
         FireEvent(c, e, p)
  PROVE  Carried'
<1>1. CASE ~isInitialized
  BY <1>1, CarriedSame DEF FireEvent, Carries
<1>2. CASE isInitialized
  <2>1. /\ pc[c] = "idle" /\ p \notin fired
        /\ pc' = [pc EXCEPT ![c] = "lock"]
        /\ call' = [call EXCEPT ![c] = [event |-> e, param |-> p]]
        /\ fired' = fired \cup {p}
        /\ UNCHANGED <<eventQueue, mutex, deleted>>
    BY <1>2 DEF FireEvent
  <2>2. pc \in [Callers -> {"idle", "lock", "run", "action", "push"}] /\ call \in [Callers -> Calls \cup {None}]
    BY DEF Inv, TypeOK
  <2>3. ~Carries(c) /\ Carries(c)' /\ call'[c].param = p
    BY <2>1, <2>2 DEF Carries, Inv, Exclusive
  <2>4. \A d \in Callers \ {c} : (Carries(d)' <=> Carries(d)) /\ call'[d] = call[d]
    BY <2>1, <2>2 DEF Carries
  <2>5. \A q \in Params : q \notin fired' => deleted'[q] = 0
    BY <2>1 DEF Carried
  <2>6. \A d \in Callers : Carries(d)' =>
          call'[d].param \in fired' /\ deleted'[call'[d].param] = 0
    BY <2>1, <2>3, <2>4 DEF Carried
  <2>7. \A d \in Callers \ {c} : Carries(d)' => call'[d].param # p
    BY <2>1, <2>4 DEF Carried
  <2>8. \A d, f \in Callers : Carries(d)' /\ Carries(f)' /\ call'[d].param = call'[f].param
          => d = f
    BY <2>3, <2>4, <2>7 DEF Carried
  <2>9. ASSUME NEW q \in fired'
        PROVE  deleted'[q] = 1 \/ \E d \in Callers : Carries(d)' /\ call'[d].param = q
    <3>1. CASE q = p
      BY <2>3, <3>1
    <3>2. CASE deleted[q] = 1
      BY <2>1, <3>2
    <3>3. CASE q \in fired /\ \E d \in Callers : Carries(d) /\ call[d].param = q
      BY <2>3, <2>4, <3>3
    <3> QED
      BY <2>1, <2>9, <3>1, <3>2, <3>3 DEF Carried
  <2> QED
    BY <2>5, <2>6, <2>8, <2>9 DEF Carried
<1> QED
  BY <1>1, <1>2

LEMMA CarriedLock ==
  ASSUME Inv, Carried, NEW c \in Callers, Lock(c)
  PROVE  Carried'
<1>1. /\ pc[c] = "lock" /\ mutex = None /\ eventQueue = <<>> /\ ~isPending
      /\ eventQueue' = Append(eventQueue, call[c])
  BY DEF Lock, Inv, Rest
<1>2. /\ mutex' = c /\ pc' = [pc EXCEPT ![c] = "run"]
      /\ UNCHANGED <<call, fired, deleted>>
  BY <1>1 DEF Lock, paramVars
<1>3. eventQueue' # <<>>
  <2>1. \A x : Append(<<>>, x) # <<>>
    OBVIOUS
  <2> QED
    BY <1>1, <2>1
<1>4. pc \in [Callers -> {"idle", "lock", "run", "action", "push"}]
  BY DEF Inv, TypeOK
<1>5. \A d \in Callers : Carries(d)' <=> Carries(d)
  BY <1>1, <1>2, <1>3, <1>4, NoneAssumption DEF Carries
<1> QED
  BY <1>2, <1>5, CarriedSame

LEMMA CarriedQuietly ==
  ASSUME Inv, Carried, NEW c \in Callers,
         BeginAction(c) \/ EndAction(c) \/ NoTransition(c) \/ Unlock(c)
  PROVE  Carried'
<1>1. /\ mutex = c /\ pc[c] \in {"run", "action"}
      /\ UNCHANGED <<eventQueue, call, fired, deleted>>
  BY DEF BeginAction, EndAction, NoTransition, Unlock, Release, paramVars, Inv, Exclusive
<1>2. mutex' = mutex \/ (mutex' = None /\ eventQueue = <<>>)
  BY DEF BeginAction, EndAction, NoTransition, Unlock
<1>3. \A d \in Callers : pc'[d] = "lock" <=> pc[d] = "lock"
  <2>1. pc \in [Callers -> {"idle", "lock", "run", "action", "push"}]
    BY DEF Inv, TypeOK
  <2>2. PICK l \in {"action", "push", "idle"} : pc' = [pc EXCEPT ![c] = l]
    BY DEF BeginAction, EndAction, NoTransition, Unlock, Release
  <2> QED
    BY <1>1, <2>1, <2>2
<1>4. \A d \in Callers : Carries(d)' <=> Carries(d)
  BY <1>1, <1>2, <1>3, NoneAssumption DEF Carries
<1> QED
  BY <1>1, <1>4, CarriedSame

\* The parameter is passed on to the catch-all event, or deleted.
LEMMA CarriedPush ==
  ASSUME Inv, Carried, NEW c \in Callers, Push(c)
  PROVE  Carried'
<1>1. /\ mutex = c /\ pc[c] = "push" /\ Work(c) /\ eventQueue # <<>>
      /\ call[c] \in [event : Events, param : Params]
      /\ UNCHANGED <<mutex, call, fired>>
  BY DEF Push, Inv, Exclusive, Running, Called, Work, OwnEvent, CatchAll, Ended
<1>2. \A d \in Callers : pc'[d] = "lock" <=> pc[d] = "lock"
  BY <1>1 DEF Push, Inv, TypeOK
<1>3. Carries(c) /\ pc[c] # "lock"
  BY <1>1 DEF Carries
<1>4. CASE eventQueue' = <<[event |-> AnyEvent, param |-> call[c].param]>> /\ deleted' = deleted
  <2>1. eventQueue' # <<>>
    BY <1>4
  <2>2. \A d \in Callers : Carries(d)' <=> Carries(d)
    BY <1>1, <1>2, <2>1 DEF Carries
  <2> QED
    BY <1>1, <1>4, <2>2, CarriedSame
<1>5. CASE eventQueue' = <<>> /\ deleted' = [deleted EXCEPT ![call[c].param] = @ + 1]
  <2>1. \A d \in Callers : Carries(d)' <=> Carries(d) /\ d # c
    BY <1>1, <1>2, <1>3, <1>5 DEF Carries
  <2> DEFINE p == call[c].param
  <2>2. p \in fired /\ p \in Params /\ deleted[p] = 0 /\ deleted \in [Params -> Nat]
    BY <1>1, <1>3 DEF Carried, Inv, TypeOK
  <2>3. deleted'[p] = 1 /\ \A q \in Params \ {p} : deleted'[q] = deleted[q]
    BY <1>5, <2>2
  <2>4. \A q \in Params : q \notin fired' => deleted'[q] = 0
    BY <1>1, <2>2, <2>3 DEF Carried
  <2>5. \A d \in Callers : Carries(d)' => call[d].param \in fired \ {p} /\ deleted[call[d].param] = 0
    BY <1>3, <2>1 DEF Carried
  <2>6. fired \subseteq Params
    BY DEF Inv, TypeOK
  <2>7. \A d \in Callers : Carries(d)' =>
          call'[d].param \in fired' /\ deleted'[call'[d].param] = 0
    BY <1>1, <2>3, <2>5, <2>6
  <2>8. \A d, f \in Callers : Carries(d)' /\ Carries(f)' /\ call'[d].param = call'[f].param
          => d = f
    BY <1>1, <2>1 DEF Carried
  <2>9. \A q \in fired' : deleted'[q] = 1 \/ \E d \in Callers : Carries(d)' /\ call'[d].param = q
    <3>1. TAKE q \in fired'
    <3>2. CASE q = p
      BY <2>3, <3>2
    <3>3. CASE q # p
      <4>1. deleted'[q] = deleted[q]
        BY <1>1, <2>3, <2>6, <3>3
      <4>2. deleted[q] = 1 \/ \E d \in Callers : Carries(d) /\ call[d].param = q
        BY <1>1 DEF Carried
      <4> QED
        BY <1>1, <2>1, <3>3, <4>1, <4>2
    <3> QED
      BY <3>2, <3>3
  <2> QED
    BY <2>4, <2>7, <2>8, <2>9 DEF Carried
<1> QED
  BY <1>1, <1>4, <1>5, Finished

LEMMA CarriedNext ==
  ASSUME Inv, Carried, [Next]_vars
  PROVE  Carried'
<1>1. ASSUME NEW s \in States, Initialize(s) \/ SetCurrentState(s) PROVE Carried'
  BY <1>1, CarriedSame DEF Initialize, SetCurrentState, Write, paramVars, Carries
<1>2. ASSUME NEW c \in Callers, NEW e \in Events, NEW p \in Params, FireEvent(c, e, p)
      PROVE  Carried'
  BY <1>2, CarriedFire
<1>3. ASSUME NEW c \in Callers, Step(c) PROVE Carried'
  BY <1>3, CarriedLock, CarriedQuietly, CarriedPush DEF Step
<1>4. CASE UNCHANGED vars
  BY <1>4, CarriedSame DEF vars, paramVars, Carries
<1> QED
  BY <1>1, <1>2, <1>3, <1>4 DEF Next

LEMMA OneOwner ==
  ASSUME Inv, Carried
  PROVE  ParamOwnedOrDeleted
<1> SUFFICES ASSUME NEW p \in fired
             PROVE  deleted[p] + Cardinality(Holders(p)) = 1
  BY DEF ParamOwnedOrDeleted
<1>1. \A k \in DOMAIN eventQueue :
        \E c \in Callers : mutex = c /\ eventQueue # <<>> /\ k = 1 /\ eventQueue[k].param = call[c].param
  <2> SUFFICES ASSUME NEW k \in DOMAIN eventQueue
               PROVE  \E c \in Callers : /\ mutex = c /\ eventQueue # <<>> /\ k = 1
                                         /\ eventQueue[k].param = call[c].param
    OBVIOUS
  <2>1. eventQueue # <<>>
    OBVIOUS
  <2>2. PICK c \in Callers : mutex = c
    BY <2>1 DEF Inv, TypeOK, Rest
  <2>3. PICK x : eventQueue = <<x>> /\ x.param = call[c].param
    BY <2>1, <2>2, OneEvent DEF Inv, Running
  <2>4. k = 1 /\ eventQueue[k] = x
    BY <2>3
  <2> QED
    BY <2>1, <2>2, <2>3, <2>4
<1>2. ASSUME NEW k \in Holders(p)
      PROVE  \E c \in Callers : Carries(c) /\ call[c].param = p
  BY <1>1, <1>2 DEF Holders, Carries
<1>3. CASE deleted[p] = 1
  <2>1. Holders(p) = {}
    BY <1>2, <1>3 DEF Carried
  <2> QED
    BY <1>3, <2>1, FS_EmptySet
<1>4. CASE \E c \in Callers : Carries(c) /\ call[c].param = p
  <2>1. PICK c \in Callers : Carries(c) /\ call[c].param = p
    BY <1>4
  <2>2. deleted[p] = 0
    BY <2>1 DEF Carried
  <2>3. \A d \in Callers : Carries(d) /\ call[d].param = p => d = c
    BY <2>1 DEF Carried
  <2>4. CASE pc[c] = "lock"
    <3>1. \A k \in DOMAIN eventQueue : eventQueue[k].param # p
      <4> SUFFICES ASSUME NEW k \in DOMAIN eventQueue, eventQueue[k].param = p
                   PROVE  FALSE
        OBVIOUS
      <4>1. PICK d \in Callers : mutex = d /\ eventQueue # <<>> /\ eventQueue[k].param = call[d].param
        BY <1>1
      <4>2. d = c
        BY <2>3, <4>1 DEF Carries
      <4> QED
        BY <2>4, <4>1, <4>2 DEF Inv, Exclusive
    <3>2. Holders(p) = {c}
      BY <2>1, <2>3, <2>4, <3>1 DEF Holders, Carries
    <3> QED
      BY <2>2, <3>2, FS_Singleton
  <2>5. CASE pc[c] # "lock"
    <3>1. mutex = c /\ eventQueue # <<>>
      BY <2>1, <2>5 DEF Carries
    <3>2. PICK x : eventQueue = <<x>> /\ x.param = call[c].param
      BY <3>1, OneEvent DEF Inv, Running
    <3>3. DOMAIN eventQueue = {1} /\ eventQueue[1].param = p
      BY <2>1, <3>2
    <3>4. \A d \in Callers : ~(pc[d] = "lock" /\ call[d].param = p)
      BY <2>3, <2>5 DEF Carries
    <3>5. Holders(p) = {1}
      BY <3>3, <3>4 DEF Holders
    <3> QED
      BY <2>2, <3>5, FS_Singleton
  <2> QED
    BY <2>4, <2>5
<1> QED
  BY <1>3, <1>4 DEF Carried

\* The parameter of every event is held in one place, or has been deleted once,
\* through any chain of catch-all rows and failed matches (FsmHandler.h:107-139),
\* whatever is written to _CurrentState meanwhile (65-68).
THEOREM OneOwnerAlways == Spec => []ParamOwnedOrDeleted
<1>1. Init => Carried
  BY NoneAssumption DEF Init, Carried, Carries
<1>2. Inv /\ Carried /\ [Next]_vars => Carried'
  BY CarriedNext
<1>3. Inv /\ Carried => ParamOwnedOrDeleted
  BY OneOwner
<1> QED
  BY <1>1, <1>2, <1>3, Invariant, PTL DEF Spec

-----------------------------------------------------------------------------
(* The refinement. *)

\* The event the abstract machine is processing.
Current == IF Quiet THEN None ELSE call[mutex].event

\* fire_event lets go of the mutex: the abstract machine reacts.
LEMMA UnlockReacts ==
  ASSUME Inv, NEW c \in Callers, Unlock(c)
  PROVE  RTC!React
<1>1. /\ mutex = c /\ Work(c) /\ eventQueue = <<>> /\ pc[c] = "run"
      /\ call[c] \in [event : Events, param : Params]
  BY DEF Unlock, Inv, Exclusive, Running, Called
<1>2. Current = call[c].event /\ Current # None /\ Current' = None
  BY <1>1, NoneAssumption DEF Current, Quiet, Unlock
<1>3. /\ settledState' = currentState /\ currentState \in States
      /\ isInitialized' = isInitialized /\ written' = {}
  BY DEF Unlock, Release, Inv, TypeOK
<1>4. ASSUME written = {}
      PROVE  \E s \in RTC!Successors(settledState, Current) : RTC!Settled(s, settledState')
  BY <1>1, <1>2, <1>3, <1>4 DEF Work, Course, Ended, Came, RTC!Settled
<1>5. RTC!Strays({settledState} \cup written, Current, settledState')
  <2>1. Near(c, currentState)
    BY <1>1 DEF Work, Bounds, Inv, TypeOK
  <2> QED
    BY <1>2, <1>3, <2>1 DEF Near
<1> QED
  BY <1>2, <1>3, <1>4, <1>5 DEF RTC!React, Current

\* It takes the mutex with an event: the abstract machine takes the event.
LEMMA LockTakes ==
  ASSUME Inv, NEW c \in Callers, Lock(c)
  PROVE  \E e \in Events : RTC!Take(e)
<1>1. /\ mutex = None /\ ~isPending /\ isInitialized
      /\ call[c] \in [event : Events, param : Params]
  BY DEF Lock, Inv, Rest, Called
<1>2. mutex' = c /\ UNCHANGED <<call, isInitialized, settledState, written>>
  BY <1>1 DEF Lock, restVars
<1>3. Current = None /\ Current' = call[c].event
  BY <1>1, <1>2, NoneAssumption DEF Current, Quiet
<1> QED
  BY <1>1, <1>2, <1>3 DEF RTC!Take, Current

\* Initialize and SetCurrentState are what they are there.
LEMMA WriteWrites ==
  ASSUME Inv, NEW s \in States, Write(s)
  PROVE  RTC!Write(s)
<1>1. UNCHANGED <<mutex, call>>
  BY DEF Write
<1>2. CASE Quiet
  BY <1>1, <1>2 DEF Write, RTC!Write, Quiet
<1>3. CASE ~Quiet
  <2>1. mutex \in Callers
    BY <1>3 DEF Quiet, Inv, TypeOK
  <2>2. call[mutex] \in [event : Events, param : Params]
    BY <2>1 DEF Inv, Exclusive, Called
  <2>3. call[mutex].event # None
    BY <2>2, NoneAssumption
  <2> QED
    BY <1>1, <1>3, <2>3 DEF Write, RTC!Write, Quiet
<1> QED
  BY <1>2, <1>3

\* Every other step is a stutter.
LEMMA StepRefines ==
  ASSUME Inv, [Next]_vars
  PROVE  [RTC!Next]_<<settledState, isInitialized, Current, written>>
<1>1. ASSUME NEW s \in States, Initialize(s) \/ SetCurrentState(s) PROVE RTC!Next
  BY <1>1, WriteWrites
     DEF Initialize, SetCurrentState, RTC!Next, RTC!Initialize, RTC!SetCurrentState
<1>2. ASSUME NEW c \in Callers, NEW e \in Events, NEW p \in Params, FireEvent(c, e, p)
      PROVE  UNCHANGED <<settledState, isInitialized, Current, written>>
  <2>1. UNCHANGED <<settledState, isInitialized, mutex, written>>
    BY <1>2 DEF FireEvent, restVars
  <2>2. ~Quiet => UNCHANGED call[mutex]
    <3>1. ~Quiet => mutex \in Callers /\ mutex # c
      BY <1>2 DEF FireEvent, Quiet, Inv, TypeOK, Exclusive
    <3> QED
      BY <1>2, <2>1, <3>1 DEF FireEvent, Inv, TypeOK
  <2> QED
    BY <2>1, <2>2 DEF Current, Quiet
<1>3. ASSUME NEW c \in Callers, Step(c)
      PROVE  RTC!Next \/ UNCHANGED <<settledState, isInitialized, Current, written>>
  <2>1. CASE Unlock(c)
    BY <2>1, UnlockReacts DEF RTC!Next
  <2>2. CASE Lock(c)
    BY <2>2, LockTakes DEF RTC!Next
  <2>3. CASE BeginAction(c) \/ EndAction(c) \/ NoTransition(c) \/ Push(c)
    BY <2>3 DEF BeginAction, EndAction, NoTransition, Push, restVars, Current, Quiet
  <2> QED
    BY <1>3, <2>1, <2>2, <2>3 DEF Step
<1>4. CASE UNCHANGED vars
  BY <1>4 DEF vars, restVars, Current, Quiet
<1> QED
  BY <1>1, <1>2, <1>3, <1>4 DEF Next

\* Seen when _FsmMutex is free, fire_event takes the machine from one settled
\* state to another in one step, whoever fires and however events interleave;
\* with Initialize and SetCurrentState called meanwhile, to a state that the
\* rows of the event and the catch-all rows lead to from one that was written.
THEOREM Refinement == Spec => RunsToCompletion
<1>1. Init => RTC!Init
  BY FirstStateAssumption DEF Init, RTC!Init, Quiet
<1>2. Inv /\ [Next]_vars => [RTC!Next]_<<settledState, isInitialized, Current, written>>
  BY StepRefines
<1> QED
  BY <1>1, <1>2, Invariant, PTL DEF Spec, RunsToCompletion, RTC!Spec, Current
=============================================================================
