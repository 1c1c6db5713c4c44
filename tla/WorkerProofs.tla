---------------------------- MODULE WorkerProofs ----------------------------
(***************************************************************************)
(* Safety of the worker and its timers for any number of clients, messages *)
(* and timers and any assignment of ids, and that it implements Mailbox,   *)
(* when it is stopped with StopWithJoin only, or is started once: then     *)
(* Stop, which detaches the thread, may come at any time.                  *)
(***************************************************************************)
EXTENDS Worker, SequenceTheorems, TLAPS

\* The dispatcher has called Timer::Stop on t and waits in its join.
Stopping(t) == \E w \in Threads : pc[w] = "join" /\ EventId(event[w]) = TimerId[t]

\* A dispatcher that handles an event holds one; one that joins does so for a
\* timer that is still registered.
HoldsEvent ==
  \A w \in Threads :
    /\ pc[w] \in {"dispatch", "join"} => event[w] \in Events
    /\ pc[w] = "join" => /\ event[w].type # "MESSAGE"
                         /\ GetTimer(EventId(event[w])) # {}

\* What Timer::Start establishes and only Timer::Stop undoes.
RegisteredRuns ==
  \A t \in timerList :
    /\ timerThread[t] # "none"
    /\ Stopping(t) => ~running[t]
    /\ ~Stopping(t) => running[t] /\ locked[t]

UnregisteredRests ==
  \A t \in Timers \ timerList :
    TimerId[t] # 0 => timerThread[t] = "none" /\ ~running[t]

JoinsThread == owner = "joining" => thread # None

\* A second thread is made only when the first one has been joined.
Supervised == ~MayDetach \/ \A v, w \in Threads : v = w

\* Then one dispatcher runs at a time, the one _Thread refers to as long as
\* none is detached.
OneLive == \A v, w \in Threads : Live(v) /\ Live(w) => v = w
Attached == ~MayDetach => SingleDispatcher

\* The inductive invariant.
IInv ==
  /\ TypeOK
  /\ HoldsEvent
  /\ OneLive
  /\ Attached
  /\ JoinsThread
  /\ RegisteredUnique
  /\ RegisteredRuns
  /\ UnregisteredRests

-----------------------------------------------------------------------------
(* Types. *)

LEMMA EventFields ==
  ASSUME NEW e \in Events
  PROVE  /\ e.type \in {"MESSAGE", "TIMERSTART", "TIMERSTOP", "TIMERCALLBACK"}
         /\ e.type = "MESSAGE" => e.msg \in Messages
         /\ e.type = "TIMERSTART" => e.timer \in Timers
         /\ e.type \in {"TIMERSTOP", "TIMERCALLBACK"} => e.id \in Ids
BY DEF Events, MessageEvent, StartEvent, StopEvent, CallbackEvent

LEMMA EventsMade ==
  /\ \A m \in Messages : MessageEvent(m) \in Events
  /\ \A t \in Timers : StartEvent(t) \in Events /\ CallbackEvent(TimerId[t]) \in Events
  /\ \A i \in Ids : StopEvent(i) \in Events
BY DEF Events, Ids

LEMMA TimerStartTypes ==
  ASSUME TypeOK, NEW t \in Timers, NEW u \in Timers,
         TimerStart(t, AfterJoin(u)) \/ TimerStart(t, timerThread)
  PROVE  /\ running' \in [Timers -> BOOLEAN]
         /\ locked' \in [Timers -> BOOLEAN]
         /\ timerThread' \in [Timers -> {"none", "sleeping", "firing", "pushing", "exited"}]
BY DEF TypeOK, TimerStart, AfterJoin

LEMMA OwnerTypes == TypeOK /\ OwnerNext => TypeOK'
BY DEF TypeOK, OwnerNext, Start, RequestStop, Stop, StopWithJoin, Joined,
       ownerVars, dispatchVars, timerVars, clientVars, historyVars

LEMMA ClientTypes ==
  ASSUME TypeOK, NEW c \in Clients, ClientNext(c)
  PROVE  TypeOK'
<1>1. ASSUME NEW e \in Events, SendEvent(c, e)
      PROVE  sending' \in [Clients -> Events \cup {None}]
  BY <1>1 DEF SendEvent, TypeOK
<1>2. ASSUME NEW m \in Messages, SendMessage(c, m) PROVE TypeOK'
  BY <1>1, <1>2, EventsMade
     DEF SendMessage, TypeOK, ownerVars, dispatchVars, timerVars, historyVars
<1>3. ASSUME NEW t \in Timers, StartTimer(c, t) PROVE TypeOK'
  BY <1>1, <1>3, EventsMade
     DEF StartTimer, TypeOK, ownerVars, dispatchVars, timerVars, historyVars
<1>4. ASSUME NEW i \in Ids, StopTimer(c, i) PROVE TypeOK'
  BY <1>1, <1>4, EventsMade, StopsAssumption
     DEF StopTimer, TypeOK, ownerVars, dispatchVars, timerVars, historyVars
<1>5. CASE Push(c)
  <2>1. sending[c] \in Events /\ (sending[c].type = "MESSAGE" => sending[c].msg \in Messages)
    BY <1>5, EventFields DEF Push, TypeOK
  <2>2. queue' \in Seq(Events) /\ taken' \in Seq(Messages)
    BY <1>5, <2>1 DEF Push, TypeOK
  <2> QED
    BY <1>5, <2>2 DEF Push, TypeOK, ownerVars, dispatchVars, timerVars
<1> QED
  BY <1>2, <1>3, <1>4, <1>5 DEF ClientNext

LEMMA TimerTypes ==
  ASSUME TypeOK, NEW t \in Timers, TimerNext(t)
  PROVE  TypeOK'
<1>1. CASE PushCallback(t)
  BY <1>1, EventsMade
     DEF PushCallback, TypeOK, ownerVars, dispatchVars, clientVars, historyVars
<1>2. CASE Abort(t)
  BY <1>2 DEF Abort, TypeOK, ownerVars, dispatchVars, clientVars, historyVars
<1>3. CASE Expire(t)
  BY <1>3 DEF Expire, TypeOK, ownerVars, dispatchVars, clientVars
<1>4. CASE CheckThread(t)
  BY <1>4 DEF CheckThread, TypeOK, ownerVars, dispatchVars, clientVars
<1> QED
  BY <1>1, <1>2, <1>3, <1>4 DEF TimerNext

LEMMA DispatcherTypes ==
  ASSUME TypeOK, NEW w \in Threads, HoldsEvent, DispatcherNext(w)
  PROVE  TypeOK'
<1> USE DEF TypeOK, ownerVars, clientVars
<1>1. CASE CheckStop(w) \/ HandleUnknown(w)
  BY <1>1 DEF CheckStop, HandleUnknown, timerVars, historyVars
<1>10. CASE Pop(w)
  <2>1. Head(queue) \in Events /\ Tail(queue) \in Seq(Events)
    BY <1>10 DEF Pop
  <2> QED
    BY <1>10, <2>1 DEF Pop, timerVars, historyVars
<1>2. pc[w] \in {"dispatch", "join"} =>
        /\ event[w] \in Events
        /\ event[w].type = "MESSAGE" => event[w].msg \in Messages
        /\ event[w].type = "TIMERSTART" => event[w].timer \in Timers
  BY EventFields DEF HoldsEvent
<1>3. CASE HandleMessage(w)
  BY <1>2, <1>3 DEF HandleMessage, Dispatching, timerVars
<1>4. CASE HandleStart(w)
  BY <1>2, <1>4, TimerStartTypes DEF HandleStart, Dispatching, AddTimer, historyVars
<1>5. CASE HandleStop(w)
  BY <1>5 DEF HandleStop, TimerStop, GetTimer, historyVars
<1>6. CASE HandleCallback(w)
  BY <1>6 DEF HandleCallback, TimerStop, GetTimer
<1>7. ASSUME NEW t \in Timers, FinishStop(w, t) PROVE TypeOK'
  BY <1>7 DEF FinishStop, AfterJoin, historyVars
<1>8. ASSUME NEW t \in Timers, FinishRestart(w, t) PROVE TypeOK'
  BY <1>8, TimerStartTypes DEF FinishRestart, historyVars
<1>9. ASSUME NEW t \in Timers, FinishReplace(w, t) PROVE TypeOK'
  BY <1>2, <1>9, TimerStartTypes DEF FinishReplace, Joining, AddTimer, historyVars
<1> QED
  BY <1>1, <1>3, <1>4, <1>5, <1>6, <1>7, <1>8, <1>9, <1>10 DEF DispatcherNext

-----------------------------------------------------------------------------
(* The inductive invariant. *)

LEMMA InitInv == Init => IInv
<1> SUFFICES ASSUME Init PROVE IInv
  OBVIOUS
<1>1. TypeOK
  <2>1. queue \in Seq(Events) /\ handled \in Seq(Messages)
    BY DEF Init
  <2>2. stops \in 0..MaxStops
    BY StopsAssumption DEF Init
  <2>3. /\ stopRequested \in BOOLEAN
        /\ thread \in Threads \cup {None}
        /\ owner \in {"idle", "joining"}
        /\ pc \in [Threads -> {"unborn", "check", "wait", "dispatch", "join", "done"}]
        /\ event \in [Threads -> Events \cup {None}]
    BY DEF Init
  <2>4. /\ timerList \subseteq Timers
        /\ running \in [Timers -> BOOLEAN]
        /\ locked \in [Timers -> BOOLEAN]
        /\ timerThread \in [Timers -> {"none", "sleeping", "firing", "pushing", "exited"}]
    BY DEF Init
  <2>5. /\ sending \in [Clients -> Events \cup {None}]
        /\ fresh \subseteq Messages \cup Timers
        /\ credit \in [Timers -> Int]
        /\ lost \subseteq Timers
    BY DEF Init
  <2>6. taken \in Seq(Messages)
    BY DEF Init
  <2> QED
    BY <2>1, <2>2, <2>3, <2>4, <2>5, <2>6 DEF TypeOK
<1>2. HoldsEvent /\ OneLive /\ Attached /\ JoinsThread
  BY DEF Init, HoldsEvent, OneLive, Attached, SingleDispatcher, Live, JoinsThread
<1>3. RegisteredUnique /\ RegisteredRuns /\ UnregisteredRests
  BY DEF Init, RegisteredUnique, RegisteredRuns, UnregisteredRests
<1> QED
  BY <1>1, <1>2, <1>3 DEF IInv

\* Every step that leaves the dispatchers and the timers alone.
LEMMA FrameInv ==
  ASSUME IInv, TypeOK', UNCHANGED <<thread, owner, pc, event, timerVars>>
  PROVE  IInv'
<1> USE DEF IInv, timerVars
<1>1. HoldsEvent'
  BY DEF HoldsEvent, GetTimer
<1>2. OneLive' /\ Attached' /\ JoinsThread' /\ RegisteredUnique'
  BY DEF OneLive, Attached, SingleDispatcher, Live, JoinsThread, RegisteredUnique
<1>3. RegisteredRuns' /\ UnregisteredRests'
  BY DEF RegisteredRuns, UnregisteredRests, Stopping
<1> QED
  BY <1>1, <1>2, <1>3

\* The owner does not touch the timers and moves no dispatcher to or from a
\* join; it makes a thread only when there is none.
LEMMA OwnerInv ==
  ASSUME Supervised, IInv, OwnerNext
  PROVE  IInv'
<1>1. TypeOK'
  BY OwnerTypes DEF IInv
<1>2. \A w \in Threads : pc'[w] = "join" <=> pc[w] = "join"
  BY DEF OwnerNext, Start, RequestStop, Stop, StopWithJoin, Joined, dispatchVars,
         IInv, TypeOK
<1>3. UNCHANGED <<event, timerVars>>
  BY DEF OwnerNext, Start, RequestStop, Stop, StopWithJoin, Joined, dispatchVars
<1>4. HoldsEvent'
  <2>1. \A w \in Threads : pc'[w] = "dispatch" => pc[w] = "dispatch"
    BY DEF OwnerNext, Start, RequestStop, Stop, StopWithJoin, Joined, dispatchVars,
           IInv, TypeOK
  <2> QED
    BY <1>2, <1>3, <2>1 DEF IInv, HoldsEvent, GetTimer, timerVars
<1>5. JoinsThread' /\ OneLive' /\ Attached'
  <2>1. JoinsThread'
    BY NoneAssumption
       DEF OwnerNext, Start, RequestStop, Stop, StopWithJoin, Joined, dispatchVars,
           IInv, TypeOK, JoinsThread
  <2>2. CASE ~MayDetach
    <3>1. SingleDispatcher'
      BY <2>2, NoneAssumption
         DEF OwnerNext, Start, RequestStop, Stop, StopWithJoin, Joined, dispatchVars,
             IInv, TypeOK, Attached, SingleDispatcher, Live
    <3> QED
      BY <2>1, <3>1 DEF OneLive, Attached, SingleDispatcher
  <2>3. CASE MayDetach
    BY <2>1, <2>3 DEF Supervised, OneLive, Attached
  <2> QED
    BY <2>2, <2>3
<1>6. RegisteredUnique'
  BY <1>3 DEF IInv, RegisteredUnique, timerVars
<1>7. RegisteredRuns' /\ UnregisteredRests'
  BY <1>2, <1>3 DEF IInv, RegisteredRuns, UnregisteredRests, Stopping, timerVars
<1> QED
  BY <1>1, <1>4, <1>5, <1>6, <1>7 DEF IInv

LEMMA ClientInv ==
  ASSUME IInv, NEW c \in Clients, ClientNext(c)
  PROVE  IInv'
<1>1. TypeOK'
  BY ClientTypes DEF IInv
<1>2. UNCHANGED <<thread, owner, pc, event, timerVars>>
  BY DEF ClientNext, SendMessage, StartTimer, StopTimer, Push, ownerVars, dispatchVars
<1> QED
  BY <1>1, <1>2, FrameInv

\* A timer thread only ever locks the mutex, and it exits without detaching
\* itself from the Timer.
LEMMA TimerInv ==
  ASSUME IInv, NEW t \in Timers, TimerNext(t)
  PROVE  IInv'
<1>1. TypeOK'
  BY TimerTypes DEF IInv
<1>2. UNCHANGED <<thread, owner, pc, event, timerList, running>>
  BY DEF TimerNext, Abort, Expire, CheckThread, PushCallback, ownerVars, dispatchVars
<1>3. \A s \in Timers : /\ timerThread'[s] = "none" <=> timerThread[s] = "none"
                        /\ locked[s] => locked'[s]
  BY DEF TimerNext, Abort, Expire, CheckThread, PushCallback, IInv, TypeOK
<1>4. timerList \subseteq Timers
  BY DEF IInv, TypeOK
<1>5. HoldsEvent' /\ OneLive' /\ Attached' /\ JoinsThread' /\ RegisteredUnique'
  BY <1>2 DEF IInv, HoldsEvent, OneLive, Attached, SingleDispatcher, Live, JoinsThread,
              RegisteredUnique, GetTimer
<1>6. RegisteredRuns' /\ UnregisteredRests'
  BY <1>2, <1>3, <1>4 DEF IInv, RegisteredRuns, UnregisteredRests, Stopping
<1> QED
  BY <1>1, <1>5, <1>6 DEF IInv

\* The dispatcher that takes a step is the only one: whether a timer is being
\* stopped depends on that dispatcher alone, before and after the step.
LEMMA OnlyDispatcher ==
  ASSUME IInv, NEW w \in Threads, DispatcherNext(w)
  PROVE  /\ TypeOK'
         /\ OneLive' /\ Attached' /\ JoinsThread'
         /\ \A x \in Threads \ {w} : pc'[x] \in {"unborn", "done"}
         /\ \A t \in Timers : Stopping(t) <=> pc[w] = "join" /\ EventId(event[w]) = TimerId[t]
         /\ \A t \in Timers : Stopping(t)' <=> pc'[w] = "join" /\ EventId(event'[w]) = TimerId[t]
<1>1. TypeOK'
  BY DispatcherTypes DEF IInv
<1>2. UNCHANGED <<thread, owner>>
  BY DEF DispatcherNext, CheckStop, Pop, HandleMessage, HandleStart, HandleStop,
         HandleCallback, HandleUnknown, FinishStop, FinishRestart, FinishReplace, ownerVars
<1>3. Live(w) /\ \A x \in Threads \ {w} : pc'[x] = pc[x]
  BY DEF DispatcherNext, CheckStop, Pop, HandleMessage, HandleStart, HandleStop,
         HandleCallback, HandleUnknown, FinishStop, FinishRestart, FinishReplace,
         Dispatching, Joining, Live, IInv, TypeOK
<1>4. \A x \in Threads \ {w} : pc[x] \in {"unborn", "done"}
  BY <1>3 DEF IInv, OneLive, Live
<1>5. OneLive' /\ Attached' /\ JoinsThread'
  <2>1. OneLive' /\ JoinsThread'
    BY <1>2, <1>3, <1>4 DEF IInv, OneLive, JoinsThread, Live
  <2>2. Attached'
    BY <1>2, <1>3 DEF IInv, Attached, SingleDispatcher, Live
  <2> QED
    BY <2>1, <2>2
<1>6. \A t \in Timers : Stopping(t) <=> pc[w] = "join" /\ EventId(event[w]) = TimerId[t]
  BY <1>4 DEF Stopping
<1>7. \A t \in Timers : Stopping(t)' <=> pc'[w] = "join" /\ EventId(event'[w]) = TimerId[t]
  BY <1>3, <1>4 DEF Stopping, EventId
<1> QED
  BY <1>1, <1>3, <1>4, <1>5, <1>6, <1>7

\* Steps that neither begin nor end a join nor change a timer.
LEMMA PlainStepInv ==
  ASSUME IInv, NEW w \in Threads,
         CheckStop(w) \/ Pop(w) \/ HandleMessage(w) \/ HandleUnknown(w)
  PROVE  IInv'
<1>1. DispatcherNext(w)
  BY DEF DispatcherNext
<1>2. pc[w] # "join" /\ pc'[w] # "join" /\ UNCHANGED timerVars
  BY DEF CheckStop, Pop, HandleMessage, HandleUnknown, Dispatching, IInv, TypeOK
<1>3. HoldsEvent'
  <2>1. pc'[w] = "dispatch" => event'[w] \in Events
    <3>1. CASE Pop(w)
      BY <3>1 DEF Pop, IInv, TypeOK
    <3>2. CASE CheckStop(w) \/ HandleMessage(w) \/ HandleUnknown(w)
      BY <3>2 DEF CheckStop, HandleMessage, HandleUnknown, IInv, TypeOK
    <3> QED
      BY <3>1, <3>2
  <2> QED
    BY <1>1, <1>2, <2>1, OnlyDispatcher DEF HoldsEvent
<1>4. RegisteredUnique'
  BY <1>2 DEF IInv, RegisteredUnique, timerVars
<1>5. RegisteredRuns' /\ UnregisteredRests'
  BY <1>1, <1>2, OnlyDispatcher
     DEF IInv, TypeOK, RegisteredRuns, UnregisteredRests, timerVars
<1> QED
  BY <1>1, <1>3, <1>4, <1>5, OnlyDispatcher DEF IInv

\* Timer::Stop is called on the registered timer of the event's id.
LEMMA BeginStopInv ==
  ASSUME IInv, NEW w \in Threads, HandleStop(w) \/ HandleCallback(w)
  PROVE  IInv'
<1>1. DispatcherNext(w)
  BY DEF DispatcherNext
<1>2. /\ pc[w] = "dispatch" /\ pc'[w] = "join"
      /\ event[w].type # "MESSAGE"
      /\ UNCHANGED <<event, timerList>>
  BY DEF HandleStop, HandleCallback, Dispatching, IInv, TypeOK
<1>3. PICK t \in GetTimer(EventId(event[w])) : TimerStop(t)
  BY DEF HandleStop, HandleCallback, Dispatching, EventId
<1>4. t \in timerList /\ t \in Timers /\ TimerId[t] = EventId(event[w])
  BY <1>3 DEF GetTimer, IInv, TypeOK
<1>5. HoldsEvent'
  BY <1>1, <1>2, <1>3, OnlyDispatcher DEF HoldsEvent, IInv, GetTimer
<1>6. RegisteredUnique'
  BY <1>2 DEF IInv, RegisteredUnique
<1>7. \A s \in timerList : Stopping(s)' <=> s = t
  <2>1. \A s \in timerList : Stopping(s)' <=> TimerId[s] = TimerId[t]
    BY <1>1, <1>2, <1>4, OnlyDispatcher DEF IInv, TypeOK
  <2> QED
    BY <1>4, <2>1 DEF IInv, RegisteredUnique
<1>8. \A s \in timerList : ~Stopping(s)
  BY <1>1, <1>2, OnlyDispatcher DEF IInv, TypeOK
<1>9. RegisteredRuns' /\ UnregisteredRests'
  BY <1>2, <1>3, <1>4, <1>7, <1>8
     DEF IInv, TypeOK, RegisteredRuns, UnregisteredRests, TimerStop
<1> QED
  BY <1>1, <1>5, <1>6, <1>9, OnlyDispatcher DEF IInv

\* The four steps that end in RemoveTimer, AddTimer or Timer::Start.
LEMMA HandleStartInv ==
  ASSUME IInv, NEW w \in Threads, HandleStart(w)
  PROVE  IInv'
<1>1. DispatcherNext(w)
  BY DEF DispatcherNext
<1> DEFINE t == event[w].timer
<1>2. /\ pc[w] = "dispatch" /\ pc'[w] = "check"
      /\ t \in Timers /\ GetTimer(TimerId[t]) = {}
      /\ timerList' = AddTimer(t, timerList)
      /\ TimerStart(t, timerThread)
  BY EventFields DEF HandleStart, Dispatching, IInv, TypeOK, HoldsEvent
<1>3. HoldsEvent'
  BY <1>1, <1>2, OnlyDispatcher DEF HoldsEvent
<1>4. timerList' = IF TimerId[t] # 0 THEN timerList \cup {t} ELSE timerList
  BY <1>2 DEF AddTimer, GetTimer, IInv, TypeOK
<1>5. RegisteredUnique'
  BY <1>2, <1>4 DEF IInv, TypeOK, RegisteredUnique, GetTimer
<1>6. t \notin timerList
  BY <1>2 DEF GetTimer
<1>7. \A s \in Timers : ~Stopping(s) /\ ~Stopping(s)'
  BY <1>1, <1>2, OnlyDispatcher
<1>8. RegisteredRuns'
  BY <1>2, <1>4, <1>6, <1>7
     DEF IInv, TypeOK, RegisteredRuns, UnregisteredRests, TimerStart
<1>9. UnregisteredRests'
  BY <1>2, <1>4, <1>6 DEF IInv, TypeOK, UnregisteredRests, TimerStart
<1> QED
  BY <1>1, <1>3, <1>5, <1>8, <1>9, OnlyDispatcher DEF IInv

\* The dispatcher joins the one registered timer of its event's id.
LEMMA JoinedTimer ==
  ASSUME IInv, NEW w \in Threads, NEW t \in Timers, Joining(w, t)
  PROVE  /\ pc[w] = "join" /\ event[w] \in Events
         /\ t \in timerList /\ TimerId[t] = EventId(event[w]) /\ TimerId[t] # 0
         /\ \A s \in timerList \ {t} : TimerId[s] # TimerId[t]
         /\ DispatcherNext(w) => ~running[t] /\ \A s \in timerList \ {t} : ~Stopping(s)
<1>1. /\ pc[w] = "join" /\ event[w] \in Events
      /\ t \in timerList /\ TimerId[t] = EventId(event[w]) /\ TimerId[t] # 0
  BY DEF Joining, GetTimer, IInv, HoldsEvent, RegisteredUnique
<1>2. \A s \in timerList \ {t} : TimerId[s] # TimerId[t]
  BY <1>1 DEF IInv, RegisteredUnique
<1>3. ASSUME DispatcherNext(w)
      PROVE  ~running[t] /\ \A s \in timerList \ {t} : ~Stopping(s)
  <2>1. \A s \in Timers : Stopping(s) <=> EventId(event[w]) = TimerId[s]
    BY <1>1, <1>3, OnlyDispatcher
  <2>2. timerList \subseteq Timers
    BY DEF IInv, TypeOK
  <2> QED
    BY <1>1, <1>2, <2>1, <2>2 DEF IInv, RegisteredRuns
<1> QED
  BY <1>1, <1>2, <1>3

LEMMA FinishStopInv ==
  ASSUME IInv, NEW w \in Threads, NEW t \in Timers, FinishStop(w, t)
  PROVE  IInv'
<1>1. DispatcherNext(w)
  BY DEF DispatcherNext
<1>2. /\ Joining(w, t) /\ pc'[w] = "check"
      /\ timerList' = timerList \ {t} /\ timerThread' = AfterJoin(t)
      /\ UNCHANGED <<running, locked>>
  BY DEF FinishStop, Joining, IInv, TypeOK
<1>3. HoldsEvent' /\ RegisteredUnique'
  BY <1>1, <1>2, OnlyDispatcher DEF HoldsEvent, IInv, RegisteredUnique
<1>4. \A s \in Timers : ~Stopping(s)'
  BY <1>1, <1>2, OnlyDispatcher
<1>5. RegisteredRuns' /\ UnregisteredRests'
  BY <1>1, <1>2, <1>4, JoinedTimer
     DEF IInv, TypeOK, RegisteredRuns, UnregisteredRests, AfterJoin
<1> QED
  BY <1>1, <1>3, <1>5, OnlyDispatcher DEF IInv

LEMMA FinishRestartInv ==
  ASSUME IInv, NEW w \in Threads, NEW t \in Timers, FinishRestart(w, t)
  PROVE  IInv'
<1>1. DispatcherNext(w)
  BY DEF DispatcherNext
<1>2. /\ Joining(w, t) /\ pc'[w] = "check"
      /\ timerList' = timerList /\ TimerStart(t, AfterJoin(t))
  BY DEF FinishRestart, Joining, IInv, TypeOK
<1>3. HoldsEvent' /\ RegisteredUnique'
  BY <1>1, <1>2, OnlyDispatcher DEF HoldsEvent, IInv, RegisteredUnique
<1>4. \A s \in Timers : ~Stopping(s)'
  BY <1>1, <1>2, OnlyDispatcher
<1>5. /\ running' = [running EXCEPT ![t] = TRUE]
      /\ locked' = [locked EXCEPT ![t] = TRUE]
      /\ timerThread' = [timerThread EXCEPT ![t] = "sleeping"]
  BY <1>1, <1>2, JoinedTimer DEF TimerStart, AfterJoin, IInv, TypeOK
<1>6. RegisteredRuns' /\ UnregisteredRests'
  BY <1>1, <1>2, <1>4, <1>5, JoinedTimer
     DEF IInv, TypeOK, RegisteredRuns, UnregisteredRests
<1> QED
  BY <1>1, <1>3, <1>6, OnlyDispatcher DEF IInv

\* The new timer takes the place of the one that was stopped, which may be the
\* same object: either way it is not running and has no thread.
LEMMA FinishReplaceInv ==
  ASSUME IInv, NEW w \in Threads, NEW t \in Timers, FinishReplace(w, t)
  PROVE  IInv'
<1> DEFINE u == event[w].timer
<1>1. DispatcherNext(w)
  BY DEF DispatcherNext
<1>2. /\ Joining(w, t) /\ pc'[w] = "check" /\ event[w].type = "TIMERSTART"
      /\ timerList' = AddTimer(u, timerList \ {t})
      /\ TimerStart(u, AfterJoin(t))
  BY DEF FinishReplace, Joining, IInv, TypeOK
<1>3. u \in Timers /\ TimerId[u] = TimerId[t] /\ TimerId[t] # 0
  BY <1>2, JoinedTimer, EventFields DEF EventId
<1>4. timerList' = (timerList \ {t}) \cup {u}
  BY <1>2, <1>3, JoinedTimer DEF AddTimer
<1>5. ~running[u] /\ AfterJoin(t)[u] = "none"
  <2>1. CASE u = t
    BY <1>1, <1>2, <2>1, JoinedTimer DEF AfterJoin, IInv, TypeOK
  <2>2. CASE u # t
    <3>1. u \notin timerList
      BY <1>2, <1>3, <2>2, JoinedTimer
    <3> QED
      BY <1>3, <2>2, <3>1 DEF IInv, TypeOK, UnregisteredRests, AfterJoin
  <2> QED
    BY <2>1, <2>2
<1>6. /\ running' = [running EXCEPT ![u] = TRUE]
      /\ locked' = [locked EXCEPT ![u] = TRUE]
      /\ timerThread' = [timerThread EXCEPT ![t] = "none", ![u] = "sleeping"]
  BY <1>2, <1>5 DEF TimerStart, AfterJoin
<1>7. HoldsEvent'
  BY <1>1, <1>2, OnlyDispatcher DEF HoldsEvent
<1>8. RegisteredUnique'
  BY <1>2, <1>3, <1>4, JoinedTimer DEF IInv, RegisteredUnique
<1>9. \A s \in Timers : ~Stopping(s)'
  BY <1>1, <1>2, OnlyDispatcher
<1>10. RegisteredRuns'
  <2>1. \A s \in timerList \ {t} : timerThread[s] # "none" /\ running[s] /\ locked[s]
    BY <1>1, <1>2, JoinedTimer DEF IInv, RegisteredRuns
  <2>2. \A s \in timerList' : timerThread'[s] # "none" /\ running'[s] /\ locked'[s]
    BY <1>3, <1>4, <1>6, <2>1 DEF IInv, TypeOK
  <2> QED
    BY <1>3, <1>4, <1>9, <2>2 DEF IInv, TypeOK, RegisteredRuns
<1>11. UnregisteredRests'
  BY <1>1, <1>2, <1>3, <1>4, <1>6, JoinedTimer
     DEF IInv, TypeOK, UnregisteredRests
<1> QED
  BY <1>1, <1>7, <1>8, <1>10, <1>11, OnlyDispatcher DEF IInv

-----------------------------------------------------------------------------
(* The theorems. *)

\* IInv is inductive as long as no second dispatcher can be made beside a live one.
LEMMA NextInv ==
  ASSUME Supervised, IInv, [Next]_vars
  PROVE  IInv'
<1>1. CASE UNCHANGED vars
  <2>1. TypeOK'
    BY <1>1 DEF vars, ownerVars, dispatchVars, timerVars, clientVars, historyVars, IInv, TypeOK
  <2> QED
    BY <1>1, <2>1, FrameInv DEF vars, ownerVars, dispatchVars
<1>2. CASE OwnerNext
  BY <1>2, OwnerInv
<1>3. ASSUME NEW c \in Clients, ClientNext(c) PROVE IInv'
  BY <1>3, ClientInv
<1>4. ASSUME NEW t \in Timers, TimerNext(t) PROVE IInv'
  BY <1>4, TimerInv
<1>5. ASSUME NEW w \in Threads, DispatcherNext(w) PROVE IInv'
  BY <1>5, PlainStepInv, HandleStartInv, BeginStopInv, FinishStopInv, FinishRestartInv,
     FinishReplaceInv DEF DispatcherNext
<1> QED
  BY <1>1, <1>2, <1>3, <1>4, <1>5 DEF Next

THEOREM Invariance == ASSUME Supervised PROVE Spec => []IInv
<1>1. Init => IInv
  BY InitInv
<1>2. IInv /\ [Next]_vars => IInv'
  BY NextInv
<1> QED
  BY <1>1, <1>2, PTL DEF Spec

\* Every variable keeps its type under any legal sequence of calls.
THEOREM TypeCorrect == ASSUME Supervised PROVE Spec => []TypeOK
<1>1. IInv => TypeOK
  BY DEF IInv
<1> QED
  BY <1>1, Invariance, PTL

\* Start never puts a second dispatcher thread next to a live one, and
\* StopWithJoin leaves none (Worker::Start, Worker::StopWithJoin).
THEOREM OneDispatcher == ASSUME ~MayDetach PROVE Spec => []SingleDispatcher
<1>1. IInv => SingleDispatcher
  BY DEF IInv, Attached
<1>2. Supervised
  BY DEF Supervised
<1> QED
  BY <1>1, <1>2, Invariance, PTL

\* AddTimer keeps the ids in _TimerList apart, so GetTimer is unambiguous,
\* however starts, replacements, stops and callbacks of timers interleave.
THEOREM UniqueTimers == ASSUME Supervised PROVE Spec => []RegisteredUnique
<1>1. IInv => RegisteredUnique
  BY DEF IInv
<1> QED
  BY <1>1, Invariance, PTL

\* Timer::Stop never unlocks a free _abortMutex.
THEOREM MutexDiscipline == ASSUME Supervised PROVE Spec => []StopUnlocksHeldMutex
<1>1. IInv => StopUnlocksHeldMutex
  BY DEF IInv, RegisteredRuns, Stopping, StopUnlocksHeldMutex
<1> QED
  BY <1>1, Invariance, PTL

\* Once StopTimer or a replacement is done, the timer has no thread left.
THEOREM NoTimerThreadLeft == ASSUME Supervised PROVE Spec => []NoOrphanThread
<1>1. IInv => NoOrphanThread
  BY DEF IInv, UnregisteredRests, NoOrphanThread
<1> QED
  BY <1>1, Invariance, PTL

-----------------------------------------------------------------------------
(* No timer falls silent: its expiry is somewhere on the way. *)

CallbackQueued(i) == \E k \in DOMAIN queue : queue[k] = CallbackEvent(i)
CallbackHeld(w, i) == pc[w] \in {"dispatch", "join"} /\ event[w] = CallbackEvent(i)

\* Why a registered timer may be without a running thread.
Excused(t) == InFlight(TimerId[t]) \/ Stopping(t) \/ t \in lost

Rests(t) == timerThread[t] \in {"none", "exited"}

LEMMA SilentExcused == NoSilentTimer <=> \A t \in timerList : Rests(t) => Excused(t)
BY DEF NoSilentTimer, Rests, Excused, Stopping

\* Events are told apart by their type, callbacks by their id.
LEMMA CallbackFields ==
  ASSUME NEW i
  PROVE  CallbackEvent(i).type = "TIMERCALLBACK" /\ CallbackEvent(i).id = i
BY DEF CallbackEvent

\* What clients and the owner do leaves every excuse in place.
LEMMA OwnerExcuses ==
  ASSUME Supervised, IInv, NoSilentTimer, OwnerNext
  PROVE  NoSilentTimer'
<1>1. \A w \in Threads : pc[w] \in {"dispatch", "join"} => pc'[w] = pc[w]
  BY DEF OwnerNext, Start, RequestStop, Stop, StopWithJoin, Joined, dispatchVars,
         IInv, TypeOK
<1>2. UNCHANGED <<event, queue, timerVars, lost>>
  BY DEF OwnerNext, Start, RequestStop, Stop, StopWithJoin, Joined, dispatchVars, historyVars
<1> QED
  BY <1>1, <1>2 DEF NoSilentTimer, InFlight, timerVars

\* An event that is pushed takes the place of none.
LEMMA PushKeeps ==
  ASSUME IInv, NEW e \in Events, queue' = Append(queue, e), NEW i, CallbackQueued(i)
  PROVE  CallbackQueued(i)'
<1>1. queue \in Seq(Events)
  BY DEF IInv, TypeOK
<1>2. PICK k \in DOMAIN queue : queue[k] = CallbackEvent(i)
  BY DEF CallbackQueued
<1>3. k \in DOMAIN queue' /\ queue'[k] = queue[k]
  BY <1>1, <1>2
<1> QED
  BY <1>2, <1>3 DEF CallbackQueued

LEMMA ClientExcuses ==
  ASSUME IInv, NoSilentTimer, NEW c \in Clients, ClientNext(c)
  PROVE  NoSilentTimer'
<1>1. UNCHANGED <<pc, event, timerVars, lost>>
  BY DEF ClientNext, SendMessage, StartTimer, StopTimer, Push, dispatchVars, historyVars
<1>2. \A i : CallbackQueued(i) => CallbackQueued(i)'
  <2>1. CASE Push(c)
    <3>1. sending[c] \in Events /\ queue' = Append(queue, sending[c])
      BY <2>1 DEF Push, IInv, TypeOK
    <3> QED
      BY <3>1, PushKeeps
  <2>2. CASE UNCHANGED queue
    BY <2>2 DEF CallbackQueued
  <2> QED
    BY <2>1, <2>2 DEF ClientNext, SendMessage, StartTimer, StopTimer
<1> QED
  BY <1>1, <1>2 DEF NoSilentTimer, InFlight, CallbackQueued, timerVars

\* A timer thread that ends leaves an event behind, unless the timer is being
\* stopped or the worker has no thread to take it.
LEMMA TimerExcuses ==
  ASSUME IInv, NoSilentTimer, NEW t \in Timers, TimerNext(t)
  PROVE  NoSilentTimer'
<1>1. UNCHANGED <<pc, event, timerList>>
  BY DEF TimerNext, Abort, Expire, CheckThread, PushCallback, dispatchVars
<1>2. \A i : CallbackQueued(i) => CallbackQueued(i)'
  <2>1. CASE PushCallback(t)
    BY <2>1, PushKeeps, EventsMade DEF PushCallback
  <2>2. CASE UNCHANGED queue
    BY <2>2 DEF CallbackQueued
  <2> QED
    BY <2>1, <2>2 DEF TimerNext, Abort, Expire, CheckThread
<1>3. lost \subseteq lost'
  BY DEF TimerNext, Abort, Expire, CheckThread, PushCallback, historyVars
<1>4. \A s \in timerList : Excused(s) => Excused(s)'
  BY <1>1, <1>2, <1>3 DEF Excused, InFlight, Stopping, CallbackQueued
<1>5. \A s \in timerList \ {t} : timerThread'[s] = timerThread[s]
  BY DEF TimerNext, Abort, Expire, CheckThread, PushCallback, IInv, TypeOK
<1>6. ASSUME t \in timerList, timerThread'[t] \in {"none", "exited"}
      PROVE  Excused(t)'
  <2>1. CASE Abort(t)
    <3>1. Stopping(t)
      BY <1>6, <2>1 DEF Abort, IInv, RegisteredRuns
    <3> QED
      BY <1>4, <1>6, <3>1 DEF Excused
  <2>2. CASE Expire(t)
    BY <1>6, <2>2 DEF Expire, IInv, TypeOK
  <2>3. CASE CheckThread(t)
    BY <1>6, <2>3 DEF CheckThread, Excused, IInv, TypeOK
  <2>4. CASE PushCallback(t)
    <3>1. queue \in Seq(Events) /\ queue' = Append(queue, CallbackEvent(TimerId[t]))
      BY <2>4 DEF PushCallback, IInv, TypeOK
    <3>2. /\ Len(queue) + 1 \in DOMAIN queue'
          /\ queue'[Len(queue) + 1] = CallbackEvent(TimerId[t])
      BY <3>1
    <3> QED
      BY <3>2 DEF Excused, InFlight
  <2> QED
    BY <2>1, <2>2, <2>3, <2>4 DEF TimerNext
<1>7. \A s \in timerList : Rests(s)' => Excused(s)'
  BY <1>4, <1>5, <1>6, SilentExcused DEF Rests
<1>8. NoSilentTimer'
  BY <1>1, <1>7 DEF NoSilentTimer, Rests, Excused, Stopping
<1> QED
  BY <1>8

\* A callback on its way is in the queue or in the hands of the dispatcher
\* that takes the step.
LEMMA OnItsWay ==
  ASSUME IInv, NEW w \in Threads, DispatcherNext(w), NEW i, InFlight(i)
  PROVE  CallbackQueued(i) \/ CallbackHeld(w, i)
<1>1. Live(w)
  BY DEF DispatcherNext, CheckStop, Pop, HandleMessage, HandleStart, HandleStop,
         HandleCallback, HandleUnknown, FinishStop, FinishRestart, FinishReplace,
         Dispatching, Joining, Live
<1>2. \A x \in Threads : Live(x) => x = w
  BY <1>1 DEF IInv, OneLive
<1> QED
  BY <1>2 DEF InFlight, CallbackQueued, CallbackHeld, Live

\* Steps that change no timer.
LEMMA PlainExcuses ==
  ASSUME IInv, NoSilentTimer, NEW w \in Threads,
         CheckStop(w) \/ Pop(w) \/ HandleMessage(w) \/ HandleUnknown(w)
  PROVE  NoSilentTimer'
<1>1. DispatcherNext(w)
  BY DEF DispatcherNext
<1>2. UNCHANGED <<timerVars, lost>> /\ pc[w] # "join"
  BY DEF CheckStop, Pop, HandleMessage, HandleUnknown, Dispatching, historyVars
<1>3. timerList \subseteq Timers
  BY DEF IInv, TypeOK
<1> SUFFICES ASSUME NEW t \in timerList, Rests(t), t \notin lost
             PROVE  InFlight(TimerId[t])'
  BY <1>2 DEF NoSilentTimer, Rests, timerVars
<1>4. ~Stopping(t)
  BY <1>1, <1>2, <1>3, OnlyDispatcher
<1>5. InFlight(TimerId[t])
  BY <1>4, SilentExcused DEF Excused
<1>6. CallbackQueued(TimerId[t]) \/ CallbackHeld(w, TimerId[t])
  BY <1>1, <1>5, OnItsWay
<1>7. CASE Pop(w)
  <2>1. queue \in Seq(Events) /\ queue # <<>> /\ queue' = Tail(queue)
    BY <1>7 DEF Pop, IInv, TypeOK
  <2>2. PICK k \in DOMAIN queue : queue[k] = CallbackEvent(TimerId[t])
    BY <1>6, <1>7 DEF CallbackQueued, CallbackHeld, Pop
  <2>3. CASE k = 1
    BY <1>7, <2>1, <2>2, <2>3 DEF Pop, InFlight, IInv, TypeOK
  <2>4. CASE k # 1
    <3>1. k - 1 \in DOMAIN queue' /\ queue'[k - 1] = queue[k]
      BY <2>1, <2>2, <2>4
    <3> QED
      BY <2>2, <3>1 DEF InFlight
  <2> QED
    BY <2>3, <2>4
<1>8. CASE CheckStop(w) \/ HandleMessage(w) \/ HandleUnknown(w)
  <2>1. UNCHANGED queue
    BY <1>8 DEF CheckStop, HandleMessage, HandleUnknown
  <2>2. ~CallbackHeld(w, TimerId[t])
    BY <1>8, CallbackFields
       DEF CheckStop, HandleMessage, HandleUnknown, Dispatching, CallbackHeld, GetTimer
  <2> QED
    BY <1>6, <2>1, <2>2 DEF CallbackQueued, InFlight
<1> QED
  BY <1>7, <1>8

\* The dispatcher that begins a join keeps its event in hand.
LEMMA BeginStopExcuses ==
  ASSUME IInv, NoSilentTimer, NEW w \in Threads, HandleStop(w) \/ HandleCallback(w)
  PROVE  NoSilentTimer'
<1>1. DispatcherNext(w)
  BY DEF DispatcherNext
<1>2. /\ pc[w] = "dispatch" /\ pc' = [pc EXCEPT ![w] = "join"]
      /\ UNCHANGED <<event, queue, timerList, timerThread, lost>>
  BY DEF HandleStop, HandleCallback, Dispatching, TimerStop, historyVars
<1>3. \A t \in timerList : ~Stopping(t)
  BY <1>1, <1>2, OnlyDispatcher DEF IInv, TypeOK
<1>4. \A x \in Threads : pc[x] \in {"dispatch", "join"} => pc'[x] \in {"dispatch", "join"}
  BY <1>2 DEF IInv, TypeOK
<1>5. \A i : InFlight(i) => InFlight(i)'
  BY <1>2, <1>4 DEF InFlight
<1> QED
  BY <1>2, <1>3, <1>5 DEF NoSilentTimer, Stopping

\* Steps after which the dispatcher is done with its event: the timers they
\* leave alone were never about it.
LEMMA DoneExcuses ==
  ASSUME IInv, NoSilentTimer, NEW w \in Threads, DispatcherNext(w), UNCHANGED <<queue, lost>>,
         \A t \in timerList' :
           \/ timerThread'[t] = "sleeping"
           \/ /\ t \in timerList /\ timerThread'[t] = timerThread[t] /\ ~Stopping(t)
              /\ ~CallbackHeld(w, TimerId[t])
  PROVE  NoSilentTimer'
<1>1. ASSUME NEW t \in timerList, timerThread[t] \in {"none", "exited"}, ~Stopping(t),
             ~CallbackHeld(w, TimerId[t])
      PROVE  InFlight(TimerId[t])' \/ t \in lost'
  <2>1. InFlight(TimerId[t]) \/ t \in lost
    BY <1>1, SilentExcused DEF Excused, Rests
  <2>2. InFlight(TimerId[t]) => CallbackQueued(TimerId[t])
    BY <1>1, OnItsWay
  <2> QED
    BY <2>1, <2>2 DEF InFlight, CallbackQueued
<1> QED
  BY <1>1 DEF NoSilentTimer

LEMMA HandleStartExcuses ==
  ASSUME IInv, NoSilentTimer, NEW w \in Threads, HandleStart(w)
  PROVE  NoSilentTimer'
<1> DEFINE u == event[w].timer
<1>1. DispatcherNext(w)
  BY DEF DispatcherNext
<1>2. /\ pc[w] = "dispatch" /\ event[w].type = "TIMERSTART"
      /\ u \in Timers /\ GetTimer(TimerId[u]) = {}
      /\ timerList' = AddTimer(u, timerList) /\ TimerStart(u, timerThread)
      /\ UNCHANGED <<queue, lost>>
  BY EventFields DEF HandleStart, Dispatching, IInv, TypeOK, HoldsEvent, historyVars
<1>3. u \notin timerList
  BY <1>2 DEF GetTimer
<1>4. u \in timerList' => timerThread'[u] = "sleeping"
  BY <1>2, <1>3 DEF AddTimer, TimerStart, IInv, TypeOK, UnregisteredRests
<1>5. \A t \in timerList' \ {u} : t \in timerList /\ timerThread'[t] = timerThread[t]
  BY <1>2 DEF AddTimer, TimerStart, IInv, TypeOK
<1>6. \A t \in timerList : ~Stopping(t) /\ ~CallbackHeld(w, TimerId[t])
  <2>1. timerList \subseteq Timers
    BY DEF IInv, TypeOK
  <2> QED
    BY <1>1, <1>2, <2>1, OnlyDispatcher, CallbackFields DEF CallbackHeld
<1> QED
  BY <1>1, <1>2, <1>4, <1>5, <1>6, DoneExcuses

LEMMA FinishExcuses ==
  ASSUME IInv, NoSilentTimer, NEW w \in Threads, NEW t \in Timers,
         FinishStop(w, t) \/ FinishRestart(w, t) \/ FinishReplace(w, t)
  PROVE  NoSilentTimer'
<1>1. DispatcherNext(w)
  BY DEF DispatcherNext
<1>2. Joining(w, t) /\ UNCHANGED <<queue, lost>>
  BY DEF FinishStop, FinishRestart, FinishReplace, historyVars
<1>3. \A s \in timerList \ {t} : ~Stopping(s) /\ ~CallbackHeld(w, TimerId[s])
  <2>1. \A s \in timerList \ {t} : EventId(event[w]) # TimerId[s]
    BY <1>2, JoinedTimer
  <2>2. \A s \in timerList \ {t} : ~CallbackHeld(w, TimerId[s])
    BY <2>1, CallbackFields DEF CallbackHeld, EventId
  <2> QED
    BY <1>1, <1>2, <2>2, JoinedTimer
<1>4. CASE FinishStop(w, t)
  <2>1. \A s \in timerList' : s \in timerList \ {t} /\ timerThread'[s] = timerThread[s]
    BY <1>4 DEF FinishStop, AfterJoin, IInv, TypeOK
  <2> QED
    BY <1>1, <1>2, <1>3, <2>1, DoneExcuses
<1>5. CASE FinishRestart(w, t)
  <2>1. timerList' = timerList /\ TimerStart(t, AfterJoin(t))
    BY <1>5 DEF FinishRestart
  <2>2. timerThread' = [timerThread EXCEPT ![t] = "sleeping"]
    BY <1>1, <1>2, <2>1, JoinedTimer DEF TimerStart, AfterJoin, IInv, TypeOK
  <2>3. \A s \in timerList' :
          timerThread'[s] # "sleeping" => s \in timerList \ {t} /\ timerThread'[s] = timerThread[s]
    BY <2>1, <2>2 DEF IInv, TypeOK
  <2> QED
    BY <1>1, <1>2, <1>3, <2>3, DoneExcuses
<1>6. CASE FinishReplace(w, t)
  <2> DEFINE u == event[w].timer
  <2>1. /\ event[w].type = "TIMERSTART"
        /\ timerList' = AddTimer(u, timerList \ {t}) /\ TimerStart(u, AfterJoin(t))
    BY <1>6 DEF FinishReplace
  <2>2. u \in Timers /\ TimerId[u] = TimerId[t] /\ TimerId[t] # 0
    BY <1>2, <2>1, JoinedTimer, EventFields DEF EventId
  <2>3. timerList' = (timerList \ {t}) \cup {u}
    BY <1>2, <2>1, <2>2, JoinedTimer DEF AddTimer
  <2>4. ~running[u] /\ AfterJoin(t)[u] = "none"
    <3>1. CASE u = t
      BY <1>1, <1>2, <3>1, JoinedTimer DEF AfterJoin, IInv, TypeOK
    <3>2. CASE u # t
      <4>1. u \notin timerList
        BY <1>2, <2>2, <3>2, JoinedTimer
      <4> QED
        BY <2>2, <3>2, <4>1 DEF IInv, TypeOK, UnregisteredRests, AfterJoin
    <3> QED
      BY <3>1, <3>2
  <2>5. timerThread' = [timerThread EXCEPT ![t] = "none", ![u] = "sleeping"]
    BY <2>1, <2>4 DEF TimerStart, AfterJoin
  <2>6. \A s \in timerList' :
          timerThread'[s] # "sleeping" => s \in timerList \ {t} /\ timerThread'[s] = timerThread[s]
    BY <2>2, <2>3, <2>5 DEF IInv, TypeOK
  <2> QED
    BY <1>1, <1>2, <1>3, <2>6, DoneExcuses
<1> QED
  BY <1>4, <1>5, <1>6

LEMMA SilentNext ==
  ASSUME Supervised, IInv, NoSilentTimer, [Next]_vars
  PROVE  NoSilentTimer'
<1>1. CASE UNCHANGED vars
  BY <1>1 DEF vars, dispatchVars, timerVars, historyVars, NoSilentTimer, InFlight
<1>2. ASSUME NEW w \in Threads, DispatcherNext(w) PROVE NoSilentTimer'
  BY <1>2, PlainExcuses, BeginStopExcuses, HandleStartExcuses, FinishExcuses DEF DispatcherNext
<1> QED
  BY <1>1, <1>2, OwnerExcuses, ClientExcuses, TimerExcuses DEF Next

\* A registered timer without a running thread is being stopped, or its
\* callback is under way or was dropped by a worker that has no thread: it
\* never stays in _TimerList for nothing (Timer::Run, Worker::HandleCallback).
THEOREM NoTimerSilent == ASSUME Supervised PROVE Spec => []NoSilentTimer
<1>1. Init => NoSilentTimer
  BY DEF Init, NoSilentTimer
<1>2. IInv /\ NoSilentTimer /\ [Next]_vars => NoSilentTimer'
  BY SilentNext
<1> QED
  BY <1>1, <1>2, Invariance, PTL DEF Spec

-----------------------------------------------------------------------------
(* Messages are handled in the order of their pushes. *)

\* The messages in q are those of s from the first-th on, in their order: f
\* tells where each of them is.
Places(f, q, s, first) ==
  /\ \A i \in first..Len(s) : f[i] \in 1..Len(q) /\ q[f[i]] = MessageEvent(s[i])
  /\ \A i, j \in first..Len(s) : i < j => f[i] < f[j]
  /\ \A k \in 1..Len(q) : q[k].type = "MESSAGE" => \E i \in first..Len(s) : f[i] = k

Holds(q, s, first) == \E f \in [first..Len(s) -> 1..Len(q)] : Places(f, q, s, first)

\* A dispatcher that holds a message holds the next one to be handled.
TakenInHand ==
  \A w \in Threads :
    Dispatching(w, "MESSAGE") =>
      Len(handled) < Len(taken) /\ event[w].msg = taken[Len(handled) + 1]

InHand == IF \E w \in Threads : Dispatching(w, "MESSAGE") THEN 1 ELSE 0

\* What was pushed and not handled is in the dispatcher's hand or in the queue.
InWaiting ==
  /\ Len(handled) + InHand <= Len(taken)
  /\ TakenInHand
  /\ Holds(queue, taken, Len(handled) + InHand + 1)

LEMMA HoldsOther ==
  ASSUME NEW q \in Seq(Events), NEW s \in Seq(Messages), NEW n \in Nat \ {0}, Holds(q, s, n),
         NEW e \in Events, e.type # "MESSAGE"
  PROVE  Holds(Append(q, e), s, n)
<1>1. PICK f \in [n..Len(s) -> 1..Len(q)] : Places(f, q, s, n)
  BY DEF Holds
<1> DEFINE r == Append(q, e)
<1>2. /\ Len(r) = Len(q) + 1 /\ r[Len(q) + 1] = e
      /\ \A k \in 1..Len(q) : r[k] = q[k]
  OBVIOUS
<1>3. f \in [n..Len(s) -> 1..Len(r)]
  BY <1>2
<1> HIDE DEF r
<1>4. Places(f, r, s, n)
  BY <1>1, <1>2 DEF Places
<1> QED
  BY <1>3, <1>4 DEF Holds, r

LEMMA HoldsMore ==
  ASSUME NEW q \in Seq(Events), NEW s \in Seq(Messages), NEW n \in Nat \ {0}, n <= Len(s) + 1,
         Holds(q, s, n), NEW m \in Messages
  PROVE  Holds(Append(q, MessageEvent(m)), Append(s, m), n)
<1>1. PICK f \in [n..Len(s) -> 1..Len(q)] : Places(f, q, s, n)
  BY DEF Holds
<1> DEFINE r == Append(q, MessageEvent(m))
           u == Append(s, m)
           g == [i \in n..Len(s) + 1 |-> IF i <= Len(s) THEN f[i] ELSE Len(q) + 1]
<1>2. /\ Len(r) = Len(q) + 1 /\ r[Len(q) + 1] = MessageEvent(m)
      /\ \A k \in 1..Len(q) : r[k] = q[k]
  BY EventsMade
<1>3. /\ Len(u) = Len(s) + 1 /\ u[Len(s) + 1] = m
      /\ \A k \in 1..Len(s) : u[k] = s[k]
  OBVIOUS
<1>4. Len(s) \in Nat /\ Len(q) \in Nat
  OBVIOUS
<1> HIDE DEF r, u
<1>5. g \in [n..Len(u) -> 1..Len(r)]
  BY <1>2, <1>3, <1>4
<1>6. /\ \A i \in n..Len(s) : g[i] = f[i] /\ f[i] \in 1..Len(q)
      /\ g[Len(s) + 1] = Len(q) + 1
  BY <1>4
<1> HIDE DEF g
<1>7. Places(g, r, u, n)
  <2>1. \A i \in n..Len(u) : g[i] \in 1..Len(r) /\ r[g[i]] = MessageEvent(u[i])
    BY <1>1, <1>2, <1>3, <1>4, <1>6 DEF Places
  <2>2. \A i, j \in n..Len(u) : i < j => g[i] < g[j]
    BY <1>1, <1>3, <1>4, <1>6 DEF Places
  <2>3. \A k \in 1..Len(r) : r[k].type = "MESSAGE" => \E i \in n..Len(u) : g[i] = k
    <3> SUFFICES ASSUME NEW k \in 1..Len(r), r[k].type = "MESSAGE"
                 PROVE  \E i \in n..Len(u) : g[i] = k
      OBVIOUS
    <3>1. CASE k = Len(q) + 1
      <4>1. Len(s) + 1 \in n..Len(u)
        BY <1>3, <1>4
      <4> QED
        BY <1>6, <3>1, <4>1
    <3>2. CASE k \in 1..Len(q)
      <4>1. PICK i \in n..Len(s) : f[i] = k
        BY <1>1, <1>2, <3>2 DEF Places
      <4>2. i \in n..Len(u)
        BY <1>3, <1>4
      <4> QED
        BY <1>6, <4>1, <4>2
    <3> QED
      BY <1>2, <1>4, <3>1, <3>2
  <2> QED
    BY <2>1, <2>2, <2>3 DEF Places
<1> QED
  BY <1>5, <1>7 DEF Holds, r, u

\* What is true of all elements but the first.
LEMMA TailElements ==
  ASSUME NEW S, NEW q \in Seq(S), q # <<>>
  PROVE  /\ Len(Tail(q)) = Len(q) - 1 /\ Head(q) = q[1] /\ Len(q) \in Nat \ {0}
         /\ \A k \in 1..Len(q) - 1 : Tail(q)[k] = q[k + 1]
OBVIOUS

LEMMA HoldsTail ==
  ASSUME NEW q \in Seq(Events), NEW s \in Seq(Messages), NEW n \in Nat \ {0}, Holds(q, s, n),
         q # <<>>, Head(q).type # "MESSAGE"
  PROVE  Holds(Tail(q), s, n)
<1>1. PICK f \in [n..Len(s) -> 1..Len(q)] : Places(f, q, s, n)
  BY DEF Holds
<1> DEFINE r == Tail(q)
           g == [i \in n..Len(s) |-> f[i] - 1]
<1>2. /\ Len(r) = Len(q) - 1 /\ Head(q) = q[1] /\ Len(q) \in Nat \ {0}
      /\ \A k \in 1..Len(q) - 1 : r[k] = q[k + 1]
  BY TailElements
<1> HIDE DEF r
<1>3. \A i \in n..Len(s) : f[i] # 1
  <2> TAKE i \in n..Len(s)
  <2>1. q[f[i]] = MessageEvent(s[i])
    BY <1>1 DEF Places
  <2>2. q[f[i]].type = "MESSAGE"
    BY <2>1 DEF MessageEvent
  <2> QED
    BY <1>2, <2>2
<1>4. \A i \in n..Len(s) : g[i] = f[i] - 1 /\ f[i] \in 2..Len(q)
  BY <1>2, <1>3
<1>5. g \in [n..Len(s) -> 1..Len(r)]
  BY <1>2, <1>4
<1> HIDE DEF g
<1>6. Places(g, r, s, n)
  <2>1. \A i \in n..Len(s) : g[i] \in 1..Len(r) /\ r[g[i]] = MessageEvent(s[i])
    BY <1>1, <1>2, <1>4 DEF Places
  <2>2. \A i, j \in n..Len(s) : i < j => g[i] < g[j]
    BY <1>1, <1>2, <1>4 DEF Places
  <2>3. \A k \in 1..Len(r) : r[k].type = "MESSAGE" => \E i \in n..Len(s) : g[i] = k
    <3> SUFFICES ASSUME NEW k \in 1..Len(r), r[k].type = "MESSAGE"
                 PROVE  \E i \in n..Len(s) : g[i] = k
      OBVIOUS
    <3>1. k + 1 \in 1..Len(q) /\ q[k + 1].type = "MESSAGE"
      BY <1>2
    <3>2. PICK i \in n..Len(s) : f[i] = k + 1
      BY <1>1, <3>1 DEF Places
    <3> QED
      BY <1>2, <1>4, <3>2
  <2> QED
    BY <2>1, <2>2, <2>3 DEF Places
<1> QED
  BY <1>5, <1>6 DEF Holds, r

LEMMA HoldsNext ==
  ASSUME NEW q \in Seq(Events), NEW s \in Seq(Messages), NEW n \in Nat \ {0}, Holds(q, s, n),
         q # <<>>, Head(q).type = "MESSAGE"
  PROVE  n <= Len(s) /\ Head(q) = MessageEvent(s[n]) /\ Holds(Tail(q), s, n + 1)
<1>1. PICK f \in [n..Len(s) -> 1..Len(q)] : Places(f, q, s, n)
  BY DEF Holds
<1> DEFINE r == Tail(q)
           g == [i \in n + 1..Len(s) |-> f[i] - 1]
<1>2. /\ Len(r) = Len(q) - 1 /\ Head(q) = q[1] /\ Len(q) \in Nat \ {0}
      /\ \A k \in 1..Len(q) - 1 : r[k] = q[k + 1]
  BY TailElements
<1>3. Len(s) \in Nat
  OBVIOUS
<1> HIDE DEF r
<1>4. PICK h \in n..Len(s) : f[h] = 1
  BY <1>1, <1>2 DEF Places
<1>5. \A i \in n..Len(s) : f[i] \in 1..Len(q)
  BY <1>1
<1>6. h = n
  <2>1. n \in n..Len(s) /\ f[n] >= 1 /\ h >= n /\ h \in Nat
    BY <1>2, <1>3, <1>4, <1>5
  <2>2. ~(n < h)
    BY <1>1, <1>2, <1>4, <1>5, <2>1 DEF Places
  <2> QED
    BY <2>1, <2>2
<1>7. n <= Len(s) /\ Head(q) = MessageEvent(s[n]) /\ f[n] = 1
  BY <1>1, <1>2, <1>3, <1>4, <1>6 DEF Places
<1>8. \A i \in n + 1..Len(s) : g[i] = f[i] - 1 /\ f[i] \in 2..Len(q) /\ i \in n..Len(s)
  <2> TAKE i \in n + 1..Len(s)
  <2>1. i \in n..Len(s) /\ n < i /\ n \in n..Len(s)
    BY <1>3, <1>7
  <2>2. f[n] < f[i]
    BY <1>1, <2>1 DEF Places
  <2> QED
    BY <1>2, <1>5, <1>7, <2>1, <2>2
<1>9. g \in [n + 1..Len(s) -> 1..Len(r)]
  BY <1>2, <1>8
<1> HIDE DEF g
<1>10. Places(g, r, s, n + 1)
  <2>1. \A i \in n + 1..Len(s) : g[i] \in 1..Len(r) /\ r[g[i]] = MessageEvent(s[i])
    BY <1>1, <1>2, <1>8 DEF Places
  <2>2. \A i, j \in n + 1..Len(s) : i < j => g[i] < g[j]
    BY <1>1, <1>2, <1>8 DEF Places
  <2>3. \A k \in 1..Len(r) : r[k].type = "MESSAGE" => \E i \in n + 1..Len(s) : g[i] = k
    <3> SUFFICES ASSUME NEW k \in 1..Len(r), r[k].type = "MESSAGE"
                 PROVE  \E i \in n + 1..Len(s) : g[i] = k
      OBVIOUS
    <3>1. k + 1 \in 1..Len(q) /\ q[k + 1].type = "MESSAGE"
      BY <1>2
    <3>2. PICK i \in n..Len(s) : f[i] = k + 1
      BY <1>1, <3>1 DEF Places
    <3>3. i \in n + 1..Len(s)
      BY <1>2, <1>3, <1>7, <3>1, <3>2
    <3> QED
      BY <1>2, <1>8, <3>2, <3>3
  <2> QED
    BY <2>1, <2>2, <2>3 DEF Places
<1> QED
  BY <1>7, <1>9, <1>10 DEF Holds, r
\* What a step does to the messages.
Calm ==
  /\ UNCHANGED <<taken, handled, queue>>
  /\ \A w \in Threads : event'[w] = event[w]
                        /\ (Dispatching(w, "MESSAGE")' <=> Dispatching(w, "MESSAGE"))

PushOther ==
  /\ \E e \in Events : e.type # "MESSAGE" /\ queue' = Append(queue, e)
  /\ UNCHANGED <<taken, handled, pc, event>>

PushMessage ==
  /\ \E m \in Messages : queue' = Append(queue, MessageEvent(m)) /\ taken' = Append(taken, m)
  /\ UNCHANGED <<handled, pc, event>>

LEMMA StepKinds ==
  ASSUME IInv, [Next]_vars
  PROVE  Calm \/ PushOther \/ PushMessage \/ \E w \in Threads : Pop(w) \/ HandleMessage(w)
<1> USE DEF Dispatching
<1>1. CASE UNCHANGED vars
  BY <1>1 DEF vars, Calm, dispatchVars, historyVars
<1>2. CASE OwnerNext
  <2>1. CASE Start
    BY <2>1 DEF Start, Calm, historyVars, IInv, TypeOK
  <2>2. CASE RequestStop \/ Stop \/ StopWithJoin \/ Joined
    BY <2>2 DEF RequestStop, Stop, StopWithJoin, Joined, Calm, dispatchVars, historyVars
  <2> QED
    BY <1>2, <2>1, <2>2 DEF OwnerNext
<1>3. ASSUME NEW c \in Clients, ClientNext(c)
      PROVE  Calm \/ PushOther \/ PushMessage
  <2>1. CASE Push(c)
    <3>1. /\ sending[c] \in Events /\ queue' = Append(queue, sending[c])
          /\ taken' = IF sending[c].type = "MESSAGE" THEN Append(taken, sending[c].msg) ELSE taken
          /\ UNCHANGED <<handled, pc, event>>
      BY <2>1 DEF Push, IInv, TypeOK, dispatchVars
    <3>2. sending[c].type = "MESSAGE" =>
            sending[c].msg \in Messages /\ sending[c] = MessageEvent(sending[c].msg)
      BY <3>1 DEF Events, MessageEvent, StartEvent, StopEvent, CallbackEvent
    <3> QED
      BY <3>1, <3>2 DEF PushOther, PushMessage
  <2>2. CASE (\E m \in Messages : SendMessage(c, m)) \/ (\E t \in Timers : StartTimer(c, t))
             \/ (\E i \in Ids : StopTimer(c, i))
    BY <2>2 DEF SendMessage, StartTimer, StopTimer, Calm, dispatchVars, historyVars
  <2> QED
    BY <1>3, <2>1, <2>2 DEF ClientNext
<1>4. ASSUME NEW t \in Timers, TimerNext(t)
      PROVE  Calm \/ PushOther
  <2>1. CASE PushCallback(t)
    <3>1. CallbackEvent(TimerId[t]) \in Events /\ CallbackEvent(TimerId[t]).type # "MESSAGE"
      BY EventsMade DEF CallbackEvent
    <3> QED
      BY <2>1, <3>1 DEF PushCallback, PushOther, dispatchVars, historyVars
  <2>2. CASE Abort(t) \/ Expire(t) \/ CheckThread(t)
    BY <2>2 DEF Abort, Expire, CheckThread, Calm, dispatchVars, historyVars
  <2> QED
    BY <1>4, <2>1, <2>2 DEF TimerNext
<1>5. ASSUME NEW w \in Threads, DispatcherNext(w)
      PROVE  Calm \/ Pop(w) \/ HandleMessage(w)
  <2> USE DEF Calm, historyVars
  <2>1. CASE CheckStop(w) \/ HandleUnknown(w)
    BY <2>1 DEF CheckStop, HandleUnknown, IInv, TypeOK
  <2>2. CASE HandleStart(w) \/ HandleStop(w) \/ HandleCallback(w)
    BY <2>2 DEF HandleStart, HandleStop, HandleCallback, IInv, TypeOK
  <2>3. ASSUME NEW t \in Timers, FinishStop(w, t) \/ FinishRestart(w, t) \/ FinishReplace(w, t)
        PROVE  Calm
    BY <2>3 DEF FinishStop, FinishRestart, FinishReplace, Joining, IInv, TypeOK
  <2> QED
    BY <1>5, <2>1, <2>2, <2>3 DEF DispatcherNext
<1> QED
  BY <1>1, <1>2, <1>3, <1>4, <1>5 DEF Next

LEMMA InHandFacts ==
  /\ InHand \in {0, 1}
  /\ (\A w \in Threads : ~Dispatching(w, "MESSAGE")) => InHand = 0
  /\ \A w \in Threads : Dispatching(w, "MESSAGE") => InHand = 1
BY DEF InHand

\* The dispatcher that takes an event or handles a message is the only one.
LEMMA OneHand ==
  ASSUME IInv, NEW w \in Threads, Pop(w) \/ HandleMessage(w)
  PROVE  \A x \in Threads \ {w} : pc[x] # "dispatch" /\ pc'[x] # "dispatch"
<1>1. Live(w) /\ \A x \in Threads \ {w} : pc'[x] = pc[x]
  BY DEF Pop, HandleMessage, Dispatching, Live, IInv, TypeOK
<1> QED
  BY <1>1 DEF IInv, OneLive, Live

LEMMA CalmWaiting == InWaiting /\ Calm => InWaiting'
<1> SUFFICES ASSUME InWaiting, Calm PROVE InWaiting'
  OBVIOUS
<1>1. InHand' = InHand
  BY DEF InHand, Calm
<1>2. TakenInHand'
  BY DEF InWaiting, TakenInHand, Calm
<1> QED
  BY <1>1, <1>2 DEF InWaiting, Calm

LEMMA PushWaiting == IInv /\ InWaiting /\ (PushOther \/ PushMessage) => InWaiting'
<1> SUFFICES ASSUME IInv, InWaiting, PushOther \/ PushMessage PROVE InWaiting'
  OBVIOUS
<1> DEFINE n == Len(handled) + InHand + 1
<1>1. /\ queue \in Seq(Events) /\ taken \in Seq(Messages) /\ handled \in Seq(Messages)
      /\ Len(taken) \in Nat /\ n \in Nat \ {0} /\ n <= Len(taken) + 1
      /\ Len(handled) \in Nat
  BY InHandFacts DEF IInv, TypeOK, InWaiting
<1>2. InHand' = InHand /\ handled' = handled
  BY DEF InHand, Dispatching, PushOther, PushMessage
<1>3. /\ taken' = taken \/ \E m \in Messages : taken' = Append(taken, m)
      /\ pc' = pc /\ event' = event
  BY DEF PushOther, PushMessage
<1>4. Len(taken) <= Len(taken') /\ \A i \in 1..Len(taken) : taken'[i] = taken[i]
  <2>1. CASE taken' = taken
    BY <1>1, <2>1
  <2>2. ASSUME NEW m \in Messages, taken' = Append(taken, m)
        PROVE  Len(taken) <= Len(taken') /\ \A i \in 1..Len(taken) : taken'[i] = taken[i]
    BY <1>1, <2>2
  <2> QED
    BY <1>3, <2>1, <2>2
<1>5. Len(taken') \in Nat
  BY <1>1, <1>3
<1>6. TakenInHand'
  BY <1>1, <1>2, <1>3, <1>4, <1>5 DEF InWaiting, TakenInHand, Dispatching
<1>7. Holds(queue, taken, n)
  BY DEF InWaiting
<1> HIDE DEF n
<1>8. Holds(queue', taken', n)
  <2>1. CASE PushOther
    <3>1. PICK e \in Events : e.type # "MESSAGE" /\ queue' = Append(queue, e)
      BY <2>1 DEF PushOther
    <3> QED
      BY <1>1, <1>7, <2>1, <3>1, HoldsOther DEF PushOther
  <2>2. CASE PushMessage
    <3>1. PICK m \in Messages :
            queue' = Append(queue, MessageEvent(m)) /\ taken' = Append(taken, m)
      BY <2>2 DEF PushMessage
    <3> QED
      BY <1>1, <1>7, <3>1, HoldsMore
  <2> QED
    BY <2>1, <2>2
<1>9. Len(handled) + InHand <= Len(taken')
  BY <1>1, <1>4, <1>5, InHandFacts DEF InWaiting
<1> QED
  BY <1>2, <1>6, <1>8, <1>9 DEF InWaiting, n

LEMMA PopWaiting ==
  ASSUME IInv, InWaiting, NEW w \in Threads, Pop(w)
  PROVE  InWaiting'
<1>1. /\ queue \in Seq(Events) /\ queue # <<>> /\ taken \in Seq(Messages)
      /\ Len(handled) \in Nat /\ Len(taken) \in Nat
      /\ Head(queue) \in Events
  BY DEF Pop, IInv, TypeOK
<1>2. /\ pc[w] = "wait" /\ queue' = Tail(queue)
      /\ pc' = [pc EXCEPT ![w] = "dispatch"] /\ event' = [event EXCEPT ![w] = Head(queue)]
      /\ UNCHANGED <<taken, handled>>
  BY DEF Pop, historyVars
<1>3. pc'[w] = "dispatch" /\ event'[w] = Head(queue)
  BY <1>2 DEF IInv, TypeOK
<1>4. /\ \A x \in Threads : ~Dispatching(x, "MESSAGE")
      /\ \A x \in Threads \ {w} : pc'[x] # "dispatch"
  BY <1>2, OneHand DEF Dispatching
<1>5. InHand = 0
  BY <1>4, InHandFacts
<1> DEFINE n == Len(handled) + 1
<1>6. n \in Nat \ {0} /\ Holds(queue, taken, n)
  BY <1>1, <1>5 DEF InWaiting
<1>7. CASE Head(queue).type = "MESSAGE"
  <2>1. n <= Len(taken) /\ Head(queue) = MessageEvent(taken[n]) /\ Holds(Tail(queue), taken, n + 1)
    BY <1>1, <1>6, <1>7, HoldsNext
  <2>2. InHand' = 1
    BY <1>3, <1>7 DEF InHand, Dispatching
  <2>3. TakenInHand'
    BY <1>1, <1>2, <1>3, <1>4, <2>1 DEF TakenInHand, Dispatching, MessageEvent
  <2>4. Len(handled) + 1 + 1 = n + 1
    OBVIOUS
  <2> QED
    BY <1>1, <1>2, <2>1, <2>2, <2>3, <2>4 DEF InWaiting
<1>8. CASE Head(queue).type # "MESSAGE"
  <2>1. Holds(Tail(queue), taken, n)
    BY <1>1, <1>6, <1>8, HoldsTail
  <2>2. \A x \in Threads : ~Dispatching(x, "MESSAGE")'
    BY <1>3, <1>4, <1>8 DEF Dispatching
  <2>3. InHand' = 0
    BY <2>2 DEF InHand
  <2> QED
    BY <1>1, <1>2, <1>5, <2>1, <2>2, <2>3 DEF InWaiting, TakenInHand
<1> QED
  BY <1>7, <1>8

LEMMA HandleWaiting ==
  ASSUME IInv, InWaiting, NEW w \in Threads, HandleMessage(w)
  PROVE  /\ InWaiting'
         /\ Len(handled) < Len(taken) /\ handled' = Append(handled, taken[Len(handled) + 1])
<1>1. /\ Dispatching(w, "MESSAGE") /\ handled' = Append(handled, event[w].msg)
      /\ UNCHANGED <<taken, queue, event>> /\ pc' = [pc EXCEPT ![w] = "check"]
  BY DEF HandleMessage, historyVars
<1>2. /\ handled \in Seq(Messages) /\ taken \in Seq(Messages)
      /\ Len(handled) \in Nat /\ Len(taken) \in Nat
  BY DEF IInv, TypeOK
<1>3. InHand = 1 /\ Len(handled) < Len(taken) /\ event[w].msg = taken[Len(handled) + 1]
  BY <1>1, InHandFacts DEF InWaiting, TakenInHand
<1>4. taken[Len(handled) + 1] \in Messages
  BY <1>2, <1>3
<1>5. Len(handled') = Len(handled) + 1
  BY <1>1, <1>2, <1>3, <1>4
<1>6. \A x \in Threads : ~Dispatching(x, "MESSAGE")'
  BY <1>1, OneHand DEF Dispatching, IInv, TypeOK
<1>7. InHand' = 0
  BY <1>6 DEF InHand
<1>8. Holds(queue, taken, Len(handled) + 1 + 1)
  BY <1>3 DEF InWaiting
<1>9. InWaiting'
  BY <1>1, <1>2, <1>3, <1>5, <1>6, <1>7, <1>8 DEF InWaiting, TakenInHand
<1> QED
  BY <1>1, <1>3, <1>9

LEMMA InitWaiting == Init => InWaiting
<1> SUFFICES ASSUME Init PROVE InWaiting
  OBVIOUS
<1>1. \A w \in Threads : ~Dispatching(w, "MESSAGE")
  BY DEF Init, Dispatching
<1>2. InHand = 0
  BY <1>1, InHandFacts
<1>3. taken = <<>> /\ handled = <<>> /\ queue = <<>>
  BY DEF Init
<1>4. Holds(<<>>, <<>>, 1)
  <2> DEFINE f == [i \in 1..Len(<<>>) |-> 1]
  <2>1. f \in [1..Len(<<>>) -> 1..Len(<<>>)]
    OBVIOUS
  <2> HIDE DEF f
  <2>2. Places(f, <<>>, <<>>, 1)
    BY DEF Places
  <2> QED
    BY <2>1, <2>2 DEF Holds
<1> QED
  BY <1>1, <1>2, <1>3, <1>4 DEF InWaiting, TakenInHand

\* A message that was pushed and not handled is the one in the dispatcher's hand
\* or stands in _Queue, in the order of the pushes: none is lost, none doubled,
\* none overtaken (Worker.cpp:33, Worker.cpp:69).
THEOREM NoMessageLost == ASSUME Supervised PROVE Spec => []InWaiting
<1>1. IInv /\ InWaiting /\ [Next]_vars => InWaiting'
  BY StepKinds, CalmWaiting, PushWaiting, PopWaiting, HandleWaiting
<1> QED
  BY <1>1, InitWaiting, Invariance, PTL DEF Spec

\* What is still to be handled, after n messages.
LEMMA WaitingSuffix ==
  ASSUME NEW s \in Seq(Messages), NEW n \in Nat, n <= Len(s)
  PROVE  /\ SubSeq(s, n + 1, Len(s)) \in Seq(Messages)
         /\ Len(SubSeq(s, n + 1, Len(s))) = Len(s) - n
         /\ \A i \in 1..Len(s) - n : SubSeq(s, n + 1, Len(s))[i] = s[n + i]
<1>1. \A i \in n + 1..Len(s) : s[i] \in Messages
  BY ElementOfSeq
<1> QED
  BY <1>1, SubSeqProperties

LEMMA WaitingAppend ==
  ASSUME NEW s \in Seq(Messages), NEW n \in Nat, n <= Len(s), NEW m \in Messages
  PROVE  SubSeq(Append(s, m), n + 1, Len(Append(s, m))) = Append(SubSeq(s, n + 1, Len(s)), m)
<1> DEFINE t == Append(s, m)
           u == SubSeq(s, n + 1, Len(s))
           v == Append(u, m)
           w == SubSeq(t, n + 1, Len(t))
<1>1. /\ t \in Seq(Messages) /\ Len(t) = Len(s) + 1 /\ Len(s) \in Nat
      /\ \A i \in 1..Len(s) : t[i] = s[i]
      /\ t[Len(s) + 1] = m
  OBVIOUS
<1>2. u \in Seq(Messages) /\ Len(u) = Len(s) - n /\ \A i \in 1..Len(s) - n : u[i] = s[n + i]
  BY WaitingSuffix
<1> HIDE DEF t, u
<1>3. /\ w \in Seq(Messages) /\ Len(w) = Len(t) - n /\ \A i \in 1..Len(t) - n : w[i] = t[n + i]
  BY <1>1, WaitingSuffix
<1>4. /\ v \in Seq(Messages) /\ Len(v) = Len(s) - n + 1 /\ v[Len(s) - n + 1] = m
      /\ \A i \in 1..Len(s) - n : v[i] = u[i]
  BY <1>1, <1>2
<1> HIDE DEF v, w
<1>5. \A i \in 1..Len(w) : w[i] = v[i]
  <2> TAKE i \in 1..Len(w)
  <2>1. w[i] = t[n + i] /\ i \in 1..(Len(s) + 1 - n)
    BY <1>1, <1>3
  <2>2. CASE i = Len(s) + 1 - n
    BY <1>1, <1>4, <2>1, <2>2
  <2>3. CASE i \in 1..Len(s) - n
    <3>1. n + i \in 1..Len(s)
      BY <1>1, <2>3
    <3> QED
      BY <1>1, <1>2, <1>4, <2>1, <2>3, <3>1
  <2> QED
    BY <1>1, <2>1, <2>2, <2>3
<1>6. Len(w) = Len(v)
  BY <1>1, <1>3, <1>4
<1>7. w = v
  BY <1>3, <1>4, <1>5, <1>6, SeqEqual
<1> QED
  BY <1>7 DEF t, u, v, w

LEMMA WaitingTail ==
  ASSUME NEW s \in Seq(Messages), NEW n \in Nat, n < Len(s)
  PROVE  /\ SubSeq(s, n + 1, Len(s)) # <<>>
         /\ Head(SubSeq(s, n + 1, Len(s))) = s[n + 1]
         /\ Tail(SubSeq(s, n + 1, Len(s))) = SubSeq(s, n + 1 + 1, Len(s))
<1> DEFINE u == SubSeq(s, n + 1, Len(s))
           v == SubSeq(s, n + 1 + 1, Len(s))
           t == Tail(u)
<1>1. Len(s) \in Nat /\ n + 1 \in Nat /\ n + 1 <= Len(s) /\ n <= Len(s)
  OBVIOUS
<1>2. u \in Seq(Messages) /\ Len(u) = Len(s) - n /\ \A i \in 1..Len(s) - n : u[i] = s[n + i]
  BY <1>1, WaitingSuffix
<1>3. /\ v \in Seq(Messages) /\ Len(v) = Len(s) - (n + 1)
      /\ \A i \in 1..Len(s) - (n + 1) : v[i] = s[n + 1 + i]
  BY <1>1, WaitingSuffix
<1> HIDE DEF u, v
<1>4. u # <<>>
  BY <1>1, <1>2
<1>5. /\ t \in Seq(Messages) /\ Len(t) = Len(u) - 1 /\ Head(u) = u[1]
      /\ \A i \in 1..Len(u) - 1 : t[i] = u[i + 1]
  BY <1>2, <1>4
<1> HIDE DEF t
<1>6. \A i \in 1..Len(t) : t[i] = v[i]
  <2> TAKE i \in 1..Len(t)
  <2>1. i \in 1..Len(s) - (n + 1) /\ i + 1 \in 1..Len(s) - n /\ n + (i + 1) = n + 1 + i
    BY <1>1, <1>2, <1>5
  <2> QED
    BY <1>2, <1>3, <1>5, <2>1
<1>7. t = v
  BY <1>1, <1>2, <1>3, <1>5, <1>6, SeqEqual
<1>8. Head(u) = s[n + 1]
  BY <1>1, <1>2, <1>5
<1> QED
  BY <1>4, <1>7, <1>8 DEF t, u, v

\* A worker stopped with StopWithJoin only, or started once, implements Mailbox,
\* for any number of clients, messages, timers and restarts.
THEOREM Refinement == ASSUME Supervised PROVE Spec => MailboxSpec
<1>1. Init => MB!Init
  <2> SUFFICES ASSUME Init PROVE MB!Init
    OBVIOUS
  <2>1. taken = <<>> /\ handled = <<>>
    BY DEF Init
  <2>2. SubSeq(<<>>, Len(<<>>) + 1, Len(<<>>)) = <<>>
    OBVIOUS
  <2> QED
    BY <2>1, <2>2 DEF MB!Init, AcceptedMessages
<1>2. IInv /\ InWaiting /\ [Next]_vars => [MB!Next]_MB!vars
  <2> SUFFICES ASSUME IInv, InWaiting, [Next]_vars PROVE [MB!Next]_MB!vars
    OBVIOUS
  <2>1. /\ taken \in Seq(Messages) /\ Len(handled) \in Nat /\ Len(taken) \in Nat
        /\ Len(handled) <= Len(taken)
    BY InHandFacts DEF IInv, TypeOK, InWaiting
  <2>2. ASSUME UNCHANGED <<taken, handled>> PROVE UNCHANGED MB!vars
    BY <2>2 DEF MB!vars, AcceptedMessages
  <2>3. CASE Calm \/ PushOther \/ \E w \in Threads : Pop(w)
    BY <2>2, <2>3 DEF Calm, PushOther, Pop, historyVars
  <2>4. CASE PushMessage
    <3>1. PICK m \in Messages : taken' = Append(taken, m) /\ UNCHANGED handled
      BY <2>4 DEF PushMessage
    <3>2. AcceptedMessages' = Append(AcceptedMessages, m)
      BY <2>1, <3>1, WaitingAppend DEF AcceptedMessages
    <3> QED
      BY <3>1, <3>2 DEF MB!Next, MB!Accept
  <2>5. ASSUME NEW w \in Threads, HandleMessage(w) PROVE MB!Next
    <3>1. /\ Len(handled) < Len(taken) /\ handled' = Append(handled, taken[Len(handled) + 1])
          /\ UNCHANGED taken
      BY <2>5, HandleWaiting DEF HandleMessage
    <3>2. Len(handled') = Len(handled) + 1
      <4>1. taken[Len(handled) + 1] \in Messages /\ handled \in Seq(Messages)
        BY <2>1, <3>1 DEF IInv, TypeOK
      <4> QED
        BY <3>1, <4>1
    <3>3. /\ AcceptedMessages # <<>> /\ Head(AcceptedMessages) = taken[Len(handled) + 1]
          /\ AcceptedMessages' = Tail(AcceptedMessages)
      BY <2>1, <3>1, <3>2, WaitingTail DEF AcceptedMessages
    <3> QED
      BY <3>1, <3>3 DEF MB!Next, MB!Handle
  <2> QED
    BY <2>3, <2>4, <2>5, StepKinds
<1> QED
  BY <1>1, <1>2, Invariance, NoMessageLost, PTL DEF Spec, MailboxSpec, MB!Spec
=============================================================================
