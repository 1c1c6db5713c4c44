------------------------------- MODULE Worker -------------------------------
(***************************************************************************)
(* ml::Worker and ml::Timer (MLCommon/src/TimerFramework): an active       *)
(* object.  Client threads post events to a queue guarded by _Mutex; one   *)
(* dispatcher thread takes them out and handles them.  Every started Timer *)
(* has a thread of its own that sleeps in try_lock_for(_abortMutex) for    *)
(* the timer's interval and posts a TIMERCALLBACK event when the wait      *)
(* times out; Timer::Stop unlocks the mutex, so the wait ends early, and   *)
(* joins that thread.                                                      *)
(*                                                                         *)
(* Waiting on the condition variable is waiting for a non-empty queue: the *)
(* predicate is tested under _Mutex and every push happens under _Mutex    *)
(* before notify_one, so no wake-up is lost.  The test of _Thread in       *)
(* SendEvent is made without a lock and is a step of its own.              *)
(***************************************************************************)
EXTENDS Integers, Sequences, FiniteSets

CONSTANTS
  Threads,      \* dispatcher threads Start may create, each at most once
  Clients,      \* threads that post messages and start and stop timers
  Messages,     \* Message objects, each sent at most once
  Timers,       \* Timer objects, one per call of StartTimer
  TimerId,      \* the id of the TimerEntry a Timer was made from
  Cyclic,       \* the Timers whose entry is cyclic
  MaxStops,     \* bound: calls of StopTimer
  MayDetach,    \* whether the owner also uses Stop, which detaches the thread
  None          \* a null pointer

ASSUME TimerIdAssumption == TimerId \in [Timers -> Nat]
ASSUME CyclicAssumption == Cyclic \subseteq Timers
ASSUME StopsAssumption == MaxStops \in Nat
ASSUME NoneAssumption == None \notin Threads

VARIABLES
  stopRequested,  \* _StopRequested
  thread,         \* _Thread
  owner,          \* "idle", or "joining" inside StopWithJoin
  pc,             \* where each dispatcher thread is
  event,          \* the event each dispatcher thread took last
  queue,          \* _Queue
  timerList,      \* _TimerList
  running,        \* Timer::_isRunning
  locked,         \* Timer::_abortMutex is locked
  timerThread,    \* Timer::_Thread and where it is
  sending,        \* the event a client's SendEvent is about to push
  fresh,          \* Message and Timer objects not made yet
  stops,          \* calls of StopTimer so far
  taken,          \* history: messages pushed, in the order of their pushes
  handled,        \* history: messages handled
  credit,         \* history: expiries of a timer less its callbacks
  lost            \* history: timers whose TIMERCALLBACK was dropped

ownerVars == <<stopRequested, thread, owner>>
dispatchVars == <<pc, event>>
timerVars == <<timerList, running, locked, timerThread>>
clientVars == <<sending, fresh, stops>>
historyVars == <<taken, handled, credit, lost>>
vars == <<ownerVars, dispatchVars, queue, timerVars, clientVars, historyVars>>

Ids == {TimerId[t] : t \in Timers}

MessageEvent(m) == [type |-> "MESSAGE", msg |-> m]
StartEvent(t) == [type |-> "TIMERSTART", timer |-> t]
StopEvent(i) == [type |-> "TIMERSTOP", id |-> i]
CallbackEvent(i) == [type |-> "TIMERCALLBACK", id |-> i]

Events == {MessageEvent(m) : m \in Messages} \cup {StartEvent(t) : t \in Timers}
          \cup {StopEvent(i) : i \in Ids} \cup {CallbackEvent(i) : i \in Ids}

\* The timer id an event is about (Event::GetEventId, TimerEvent::GetTimerId).
EventId(e) == IF e.type = "TIMERSTART" THEN TimerId[e.timer] ELSE e.id

\* The registered timers with this id.  AddTimer keeps it to one at most.
GetTimer(i) == {t \in timerList : TimerId[t] = i}

TypeOK ==
  /\ stopRequested \in BOOLEAN
  /\ thread \in Threads \cup {None}
  /\ owner \in {"idle", "joining"}
  /\ pc \in [Threads -> {"unborn", "check", "wait", "dispatch", "join", "done"}]
  /\ event \in [Threads -> Events \cup {None}]
  /\ queue \in Seq(Events)
  /\ timerList \subseteq Timers
  /\ running \in [Timers -> BOOLEAN]
  /\ locked \in [Timers -> BOOLEAN]
  /\ timerThread \in [Timers -> {"none", "sleeping", "firing", "pushing", "exited"}]
  /\ sending \in [Clients -> Events \cup {None}]
  /\ fresh \subseteq Messages \cup Timers
  /\ stops \in 0..MaxStops
  /\ taken \in Seq(Messages)
  /\ handled \in Seq(Messages)
  /\ credit \in [Timers -> Int]
  /\ lost \subseteq Timers

Init ==
  /\ stopRequested = FALSE
  /\ thread = None
  /\ owner = "idle"
  /\ pc = [w \in Threads |-> "unborn"]
  /\ event = [w \in Threads |-> None]
  /\ queue = <<>>
  /\ timerList = {}
  /\ running = [t \in Timers |-> FALSE]
  /\ locked = [t \in Timers |-> FALSE]
  /\ timerThread = [t \in Timers |-> "none"]
  /\ sending = [c \in Clients |-> None]
  /\ fresh = Messages \cup Timers
  /\ stops = 0
  /\ taken = <<>>
  /\ handled = <<>>
  /\ credit = [t \in Timers |-> 0]
  /\ lost = {}

-----------------------------------------------------------------------------
(* The owner: Start, RequestStop, Stop and StopWithJoin. *)

\* Mutant of Start: a thread is made whether or not there is one.
StartAlways ==
  /\ owner = "idle"
  /\ stopRequested' = FALSE
  /\ \E w \in Threads :
       /\ pc[w] = "unborn"
       /\ thread' = w
       /\ pc' = [pc EXCEPT ![w] = "check"]
  /\ UNCHANGED <<owner, event, queue, timerVars, clientVars, historyVars>>

\* Start clears a pending stop request even when the thread still runs.
Start ==
  /\ owner = "idle"
  /\ stopRequested' = FALSE
  /\ \/ /\ thread # None
        /\ UNCHANGED <<thread, pc>>
     \/ /\ thread = None
        /\ \E w \in Threads :
             /\ pc[w] = "unborn"
             /\ thread' = w
             /\ pc' = [pc EXCEPT ![w] = "check"]
  /\ UNCHANGED <<owner, event, queue, timerVars, clientVars, historyVars>>

RequestStop ==
  /\ owner = "idle"
  /\ stopRequested' = TRUE
  /\ UNCHANGED <<thread, owner, dispatchVars, queue, timerVars, clientVars, historyVars>>

\* Stop leaves the thread running on its own; ~Worker does the same.
Stop ==
  /\ MayDetach
  /\ owner = "idle"
  /\ stopRequested' = TRUE
  /\ thread' = None
  /\ UNCHANGED <<owner, dispatchVars, queue, timerVars, clientVars, historyVars>>

StopWithJoin ==
  /\ owner = "idle"
  /\ thread # None
  /\ stopRequested' = TRUE
  /\ owner' = "joining"
  /\ UNCHANGED <<thread, dispatchVars, queue, timerVars, clientVars, historyVars>>

\* The join returns.  Nothing wakes a thread that waits on an empty queue.
Joined ==
  /\ owner = "joining"
  /\ pc[thread] = "done"
  /\ thread' = None
  /\ owner' = "idle"
  /\ UNCHANGED <<stopRequested, dispatchVars, queue, timerVars, clientVars, historyVars>>

-----------------------------------------------------------------------------
(* Clients: SendMessage, StartTimer(entry), StopTimer(entry).  Each makes  *)
(* an event and calls SendEvent, which drops it when _Thread is null.      *)

SendEvent(c, e) ==
  /\ sending[c] = None
  /\ \/ /\ thread # None
        /\ sending' = [sending EXCEPT ![c] = e]
     \/ /\ thread = None
        /\ UNCHANGED sending

SendMessage(c, m) ==
  /\ m \in fresh
  /\ fresh' = fresh \ {m}
  /\ SendEvent(c, MessageEvent(m))
  /\ UNCHANGED <<ownerVars, dispatchVars, queue, timerVars, stops, historyVars>>

StartTimer(c, t) ==
  /\ t \in fresh
  /\ fresh' = fresh \ {t}
  /\ SendEvent(c, StartEvent(t))
  /\ UNCHANGED <<ownerVars, dispatchVars, queue, timerVars, stops, historyVars>>

StopTimer(c, i) ==
  /\ stops < MaxStops
  /\ stops' = stops + 1
  /\ SendEvent(c, StopEvent(i))
  /\ UNCHANGED <<ownerVars, dispatchVars, queue, timerVars, fresh, historyVars>>

\* The push under _Mutex and the notify, after the test of _Thread.
Push(c) ==
  /\ sending[c] # None
  /\ queue' = Append(queue, sending[c])
  /\ sending' = [sending EXCEPT ![c] = None]
  /\ taken' = IF sending[c].type = "MESSAGE" THEN Append(taken, sending[c].msg) ELSE taken
  /\ UNCHANGED <<ownerVars, dispatchVars, timerVars, fresh, stops, handled, credit, lost>>

-----------------------------------------------------------------------------
(* The thread of a timer: Timer::Run. *)

\* try_lock_for gets the mutex, which Stop has unlocked, and keeps it.
Abort(t) ==
  /\ timerThread[t] = "sleeping"
  /\ ~locked[t]
  /\ locked' = [locked EXCEPT ![t] = TRUE]
  /\ timerThread' = [timerThread EXCEPT ![t] = "exited"]
  /\ UNCHANGED <<ownerVars, dispatchVars, queue, timerList, running, clientVars, historyVars>>

\* try_lock_for times out: the interval has passed.
Expire(t) ==
  /\ timerThread[t] = "sleeping"
  /\ locked[t]
  /\ timerThread' = [timerThread EXCEPT ![t] = "firing"]
  /\ credit' = [credit EXCEPT ![t] = @ + 1]
  /\ UNCHANGED <<ownerVars, dispatchVars, queue, timerList, running, locked, clientVars, taken, handled, lost>>

\* SendTimerEvent: the test of _Thread ...
CheckThread(t) ==
  /\ timerThread[t] = "firing"
  /\ \/ /\ thread # None
        /\ timerThread' = [timerThread EXCEPT ![t] = "pushing"]
        /\ UNCHANGED lost
     \/ /\ thread = None
        /\ timerThread' = [timerThread EXCEPT ![t] = "exited"]
        /\ lost' = lost \cup {t}
  /\ UNCHANGED <<ownerVars, dispatchVars, queue, timerList, running, locked, clientVars, taken, handled, credit>>

\* ... and the push.
PushCallback(t) ==
  /\ timerThread[t] = "pushing"
  /\ queue' = Append(queue, CallbackEvent(TimerId[t]))
  /\ timerThread' = [timerThread EXCEPT ![t] = "exited"]
  /\ UNCHANGED <<ownerVars, dispatchVars, timerList, running, locked, clientVars, historyVars>>

-----------------------------------------------------------------------------
(* What the dispatcher calls on a timer. *)

\* Mutant of TimerStart: try_lock is forgotten.
TimerStartUnlocked(t, threads) ==
  /\ running' = [running EXCEPT ![t] = TRUE]
  /\ timerThread' = [threads EXCEPT ![t] = IF @ = "none" THEN "sleeping" ELSE @]
  /\ UNCHANGED locked

\* Timer::Start, for the timer thread as it is after earlier joins.
TimerStart(t, threads) ==
  IF running[t]
  THEN timerThread' = threads /\ UNCHANGED <<running, locked>>
  ELSE /\ running' = [running EXCEPT ![t] = TRUE]
       /\ IF threads[t] = "none"
          THEN /\ locked' = [locked EXCEPT ![t] = TRUE]
               /\ timerThread' = [threads EXCEPT ![t] = "sleeping"]
          ELSE timerThread' = threads /\ UNCHANGED locked

\* Mutant of TimerStop: _isRunning is not reset.
TimerStopRunning(t) ==
  /\ locked' = [locked EXCEPT ![t] = FALSE]
  /\ UNCHANGED <<running, timerThread>>

\* Timer::Stop up to its join.
TimerStop(t) ==
  /\ running' = [running EXCEPT ![t] = FALSE]
  /\ locked' = [locked EXCEPT ![t] = FALSE]
  /\ UNCHANGED timerThread

\* The join in Timer::Stop can return: the thread ended, or there is none.
Joinable(t) == timerThread[t] \in {"none", "exited"}
\* Mutant of AfterJoin: _Thread is not set to null.
AfterJoinKept(t) == timerThread

AfterJoin(t) == [timerThread EXCEPT ![t] = "none"]

AddTimer(t, list) ==
  IF TimerId[t] # 0 /\ \A s \in list : TimerId[s] # TimerId[t]
  THEN list \cup {t} ELSE list

-----------------------------------------------------------------------------
(* The dispatcher thread: Run, Loop, DefaultEventDispatcher. *)

\* Mutant of CheckStop: a stop is honoured only once the queue is drained.
CheckStopDrained(w) ==
  /\ pc[w] = "check"
  /\ pc' = [pc EXCEPT ![w] = IF stopRequested /\ queue = <<>> THEN "done" ELSE "wait"]
  /\ UNCHANGED <<ownerVars, event, queue, timerVars, clientVars, historyVars>>

CheckStop(w) ==
  /\ pc[w] = "check"
  /\ pc' = [pc EXCEPT ![w] = IF stopRequested THEN "done" ELSE "wait"]
  /\ UNCHANGED <<ownerVars, event, queue, timerVars, clientVars, historyVars>>

\* Mutant of Pop: the newest event is taken.
PopNewest(w) ==
  /\ pc[w] = "wait"
  /\ queue # <<>>
  /\ event' = [event EXCEPT ![w] = queue[Len(queue)]]
  /\ queue' = SubSeq(queue, 1, Len(queue) - 1)
  /\ pc' = [pc EXCEPT ![w] = "dispatch"]
  /\ UNCHANGED <<ownerVars, timerVars, clientVars, historyVars>>

\* The stop request is not looked at again once the queue is waited for.
Pop(w) ==
  /\ pc[w] = "wait"
  /\ queue # <<>>
  /\ event' = [event EXCEPT ![w] = Head(queue)]
  /\ queue' = Tail(queue)
  /\ pc' = [pc EXCEPT ![w] = "dispatch"]
  /\ UNCHANGED <<ownerVars, timerVars, clientVars, historyVars>>

Dispatching(w, type) == pc[w] = "dispatch" /\ event[w].type = type

HandleMessage(w) ==
  /\ Dispatching(w, "MESSAGE")
  /\ handled' = Append(handled, event[w].msg)
  /\ pc' = [pc EXCEPT ![w] = "check"]
  /\ UNCHANGED <<ownerVars, event, queue, timerVars, clientVars, taken, credit, lost>>

\* StartTimer(Timer*) with no timer of that id registered.
HandleStart(w) ==
  /\ Dispatching(w, "TIMERSTART")
  /\ LET t == event[w].timer
     IN /\ GetTimer(TimerId[t]) = {}
        /\ timerList' = AddTimer(t, timerList)
        /\ TimerStart(t, timerThread)
  /\ pc' = [pc EXCEPT ![w] = "check"]
  /\ UNCHANGED <<ownerVars, event, queue, clientVars, historyVars>>

\* StopTimer(id), or StartTimer(Timer*) over a registered timer: Timer::Stop
\* is called on it.
HandleStop(w) ==
  /\ Dispatching(w, "TIMERSTOP") \/ Dispatching(w, "TIMERSTART")
  /\ \E t \in GetTimer(EventId(event[w])) : TimerStop(t)
  /\ pc' = [pc EXCEPT ![w] = "join"]
  /\ UNCHANGED <<ownerVars, event, queue, timerList, clientVars, historyVars>>

\* HandleCallback: the callback runs, then Timer::Stop is called.
HandleCallback(w) ==
  /\ Dispatching(w, "TIMERCALLBACK")
  /\ \E t \in GetTimer(event[w].id) :
       /\ credit' = [credit EXCEPT ![t] = @ - 1]
       /\ TimerStop(t)
  /\ pc' = [pc EXCEPT ![w] = "join"]
  /\ UNCHANGED <<ownerVars, event, queue, timerList, clientVars, taken, handled, lost>>

\* Mutant of HandleUnknown: HandleCallback dies on the null timer.
HandleUnknownStop(w) ==
  /\ Dispatching(w, "TIMERSTOP")
  /\ GetTimer(event[w].id) = {}
  /\ pc' = [pc EXCEPT ![w] = "check"]
  /\ UNCHANGED <<ownerVars, event, queue, timerVars, clientVars, historyVars>>

\* StopTimer(id) and HandleCallback find no timer registered.
HandleUnknown(w) ==
  /\ Dispatching(w, "TIMERSTOP") \/ Dispatching(w, "TIMERCALLBACK")
  /\ GetTimer(event[w].id) = {}
  /\ pc' = [pc EXCEPT ![w] = "check"]
  /\ UNCHANGED <<ownerVars, event, queue, timerVars, clientVars, historyVars>>

Joining(w, t) == pc[w] = "join" /\ t \in GetTimer(EventId(event[w])) /\ Joinable(t)

\* Mutant of FinishRestart: Timer::Stop is not followed by Timer::Start.
FinishRestartNot(w, t) ==
  /\ Joining(w, t)
  /\ event[w].type = "TIMERCALLBACK" /\ t \in Cyclic
  /\ timerThread' = AfterJoin(t)
  /\ pc' = [pc EXCEPT ![w] = "check"]
  /\ UNCHANGED <<ownerVars, event, queue, timerList, running, locked, clientVars, historyVars>>

\* RemoveTimer, at the end of StopTimer(id) and for a single-shot callback.
FinishStop(w, t) ==
  /\ Joining(w, t)
  /\ \/ event[w].type = "TIMERSTOP"
     \/ event[w].type = "TIMERCALLBACK" /\ t \notin Cyclic
  /\ timerThread' = AfterJoin(t)
  /\ timerList' = timerList \ {t}
  /\ pc' = [pc EXCEPT ![w] = "check"]
  /\ UNCHANGED <<ownerVars, event, queue, running, locked, clientVars, historyVars>>

\* A cyclic timer stays registered and is started again.
FinishRestart(w, t) ==
  /\ Joining(w, t)
  /\ event[w].type = "TIMERCALLBACK" /\ t \in Cyclic
  /\ TimerStart(t, AfterJoin(t))
  /\ pc' = [pc EXCEPT ![w] = "check"]
  /\ UNCHANGED <<ownerVars, event, queue, timerList, clientVars, historyVars>>

\* The stopped timer is replaced by the one StartTimer(Timer*) was given.
FinishReplace(w, t) ==
  /\ Joining(w, t)
  /\ event[w].type = "TIMERSTART"
  /\ timerList' = AddTimer(event[w].timer, timerList \ {t})
  /\ TimerStart(event[w].timer, AfterJoin(t))
  /\ pc' = [pc EXCEPT ![w] = "check"]
  /\ UNCHANGED <<ownerVars, event, queue, clientVars, historyVars>>

-----------------------------------------------------------------------------
OwnerNext == Start \/ RequestStop \/ Stop \/ StopWithJoin \/ Joined

ClientNext(c) ==
  \/ \E m \in Messages : SendMessage(c, m)
  \/ \E t \in Timers : StartTimer(c, t)
  \/ \E i \in Ids : StopTimer(c, i)
  \/ Push(c)

TimerNext(t) == Abort(t) \/ Expire(t) \/ CheckThread(t) \/ PushCallback(t)

DispatcherNext(w) ==
  \/ CheckStop(w) \/ Pop(w) \/ HandleMessage(w) \/ HandleStart(w)
  \/ HandleStop(w) \/ HandleCallback(w) \/ HandleUnknown(w)
  \/ \E t \in Timers : FinishStop(w, t) \/ FinishRestart(w, t) \/ FinishReplace(w, t)

Next ==
  \/ OwnerNext
  \/ \E c \in Clients : ClientNext(c)
  \/ \E t \in Timers : TimerNext(t)
  \/ \E w \in Threads : DispatcherNext(w)

Spec == Init /\ [][Next]_vars

\* Threads that can run do run; nobody is obliged to call Start, StopWithJoin
\* or to send anything.
Fairness ==
  /\ WF_vars(Joined)
  /\ \A c \in Clients : WF_vars(Push(c))
  /\ \A t \in Timers : WF_vars(TimerNext(t))
  /\ \A w \in Threads : WF_vars(DispatcherNext(w))

FairSpec == Spec /\ Fairness

-----------------------------------------------------------------------------
(* Safety. *)

Live(w) == pc[w] \notin {"unborn", "done"}

\* A worker that is only ever stopped with StopWithJoin has one dispatcher
\* thread, the one _Thread refers to, so timers and HandleMessage need no
\* lock; none is left once StopWithJoin has returned.  Start clears the stop
\* request and makes threads, and must never do so next to a live one.
SingleDispatcher == \A w \in Threads : Live(w) => w = thread

\* _TimerList never holds two timers of one id, nor one of id 0: GetTimer,
\* which returns the first match, finds the timer the event is about.
RegisteredUnique ==
  /\ \A t \in timerList : TimerId[t] # 0
  /\ \A s, t \in timerList : TimerId[s] = TimerId[t] => s = t

\* Timer::Stop unlocks _abortMutex: whenever the dispatcher may call it, on
\* a registered timer no Stop is under way for, the mutex is locked, through
\* any sequence of starts, expiries, aborted waits and restarts.  Unlocking a
\* free mutex is undefined.
StopUnlocksHeldMutex ==
  \A t \in timerList :
    (\A w \in Threads : pc[w] = "join" => EventId(event[w]) # TimerId[t]) => locked[t]

\* A timer that is not registered any more has no thread left: StopTimer has
\* joined it, so it neither posts a late event nor leaks.  AddTimer refuses
\* id 0, yet StartTimer(Timer*) starts such a timer all the same.
NoOrphanThread ==
  \A t \in Timers : timerThread[t] # "none" => t \in timerList \/ TimerId[t] = 0

InFlight(i) ==
  \/ \E k \in DOMAIN queue : queue[k] = CallbackEvent(i)
  \/ \E w \in Threads : pc[w] \in {"dispatch", "join"} /\ event[w] = CallbackEvent(i)

\* A registered timer that has no running thread is about to be dealt with: its
\* TIMERCALLBACK is still under way, or a StopTimer or StartTimer is joining
\* it, or SendEvent dropped the event because the worker had no thread.
\* Otherwise the timer would stay registered and never fire again.
NoSilentTimer ==
  \A t \in timerList :
    timerThread[t] \in {"none", "exited"} =>
      \/ InFlight(TimerId[t])
      \/ \E w \in Threads : pc[w] = "join" /\ EventId(event[w]) = TimerId[t]
      \/ t \in lost

\* A callback runs only after its timer's own interval has passed, once per
\* expiry: "Get the duration for the Timer (ms)" (TimerEntry.h:20).  The
\* TIMERCALLBACK event names an id, not the Timer that sent it.
NoEarlyCallback == \A t \in Timers : credit[t] >= 0

-----------------------------------------------------------------------------
(* Refinement. *)

\* The messages the worker has taken in and not handled.  They are the one the
\* dispatcher holds and those in the queue, which WorkerProofs shows.
AcceptedMessages == SubSeq(taken, Len(handled) + 1, Len(taken))

MB == INSTANCE Mailbox WITH accepted <- AcceptedMessages

\* A worker stopped only with StopWithJoin implements Mailbox: messages are
\* handled in the order of their acceptance, also those that a stop left in
\* the queue for the thread the next Start makes.
MailboxSpec == MB!Spec

-----------------------------------------------------------------------------
(* Liveness, under FairSpec. *)

\* A dispatcher runs and has not been asked to stop.  After RequestStop the
\* thread may end while _Thread still refers to it, and a Start then clears
\* the request without making a thread: events are accepted for nobody.
Serving == ~stopRequested /\ \E w \in Threads : Live(w)

\* An accepted message is handled, as long as the dispatcher serves: no
\* handler, in particular none that joins a timer's thread, blocks it.
MessagesHandled ==
  \A m \in Messages :
    (\E k \in DOMAIN queue : queue[k] = MessageEvent(m))
      ~> (~Serving \/ \E k \in DOMAIN handled : handled[k] = m)

\* StopWithJoin returns if the dispatcher is not waiting, or has an event to
\* take and no detached thread takes it: one more event is enough.  (Over an
\* empty queue it waits for ever, since nothing notifies _Cv.)
JoinReturns ==
  (owner = "joining" /\ SingleDispatcher /\ (queue # <<>> \/ pc[thread] # "wait"))
    ~> (owner = "idle")

\* A cyclic timer fires again and again, until it is stopped or replaced,
\* the worker stops serving, or an expiry was lost to a stopped worker.
CyclicFires ==
  \A t \in Cyclic :
    (t \in timerList)
      ~> (t \notin timerList \/ InFlight(TimerId[t]) \/ ~Serving \/ t \in lost)
=============================================================================
