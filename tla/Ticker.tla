------------------------------- MODULE Ticker -------------------------------
(***************************************************************************)
(* Ticker (MLCommon/inc/Tools/Ticker.h): a detached thread that calls a    *)
(* function every interval until it is stopped.  One client controls it;   *)
(* the function, which runs in the thread, may call Stop too.  The flags   *)
(* are plain members that client and thread share, so each of their reads  *)
(* and writes is a step where the order matters.                           *)
(*                                                                         *)
(* Time is left out: a thread that waits may be notified, wake up for no   *)
(* reason or reach the end of the interval at any moment.  The flag is     *)
(* tested before each wait and after the last one, without a lock that     *)
(* Stop would take: its store and its notification may fall between any    *)
(* two steps of the thread.                                                *)
(*                                                                         *)
(* Calls the code ignores because mRunning is set change nothing and are   *)
(* no steps.                                                               *)
(***************************************************************************)
EXTENDS Naturals

CONSTANT Threads    \* identities of threads

VARIABLES
  configured,       \* mFunction is set and mInterval is not zero
  single,           \* mSingleShot
  running,          \* mRunning
  stopRequested,    \* mStopRequested
  stopping,         \* what the client's Stop does next
  at,               \* where each thread is
  fired,            \* callbacks since the last Start, counted up to 2
  late              \* intervals waited out and callbacks begun since the flag
                    \* was set, counted up to 2

client == <<configured, single, stopping>>
vars == <<client, running, stopRequested, at, fired, late>>

Places == {"none", "loop", "block", "asleep", "wake", "call", "called", "exit"}

TypeOK ==
  /\ configured \in BOOLEAN /\ single \in BOOLEAN
  /\ running \in BOOLEAN /\ stopRequested \in BOOLEAN
  /\ stopping \in {"no", "store", "notify"}
  /\ at \in [Threads -> Places]
  /\ fired \in 0..2 /\ late \in 0..2

Init ==
  /\ configured = FALSE /\ single = FALSE
  /\ running = FALSE /\ stopRequested = FALSE /\ stopping = "no"
  /\ at = [t \in Threads |-> "none"]
  /\ fired = 0 /\ late = 0

Live(t) == at[t] # "none"

UpToTwo(n) == IF n < 2 THEN n + 1 ELSE 2

-----------------------------------------------------------------------------
(* The client. *)

\* SetFunction, SetInterval and SetSingleShot, one or several of them.
Configure(c, s) ==
  /\ ~running /\ stopping = "no"
  /\ configured' = c
  /\ single' = s
  /\ UNCHANGED <<stopping, running, stopRequested, at, fired, late>>

\* Mutant of Start: a Start after a Stop is let through.
StartStopped ==
  /\ (~running \/ stopRequested) /\ stopping = "no" /\ configured
  /\ running' = TRUE
  /\ stopRequested' = FALSE
  /\ fired' = 0 /\ late' = 0
  /\ \E t \in Threads : ~Live(t) /\ at' = [at EXCEPT ![t] = "loop"]
  /\ UNCHANGED client

Start ==
  /\ ~running /\ stopping = "no" /\ configured
  /\ running' = TRUE
  /\ stopRequested' = FALSE
  /\ fired' = 0 /\ late' = 0
  /\ \E t \in Threads : ~Live(t) /\ at' = [at EXCEPT ![t] = "loop"]
  /\ UNCHANGED client

StopCheck ==
  /\ running /\ stopping = "no"
  /\ stopping' = "store"
  /\ UNCHANGED <<configured, single, running, stopRequested, at, fired, late>>

StopSet ==
  /\ stopping = "store"
  /\ stopping' = "notify"
  /\ stopRequested' = TRUE
  /\ UNCHANGED <<configured, single, running, at, fired, late>>

\* notify_all reaches a thread that waits, and nobody else.
StopNotify ==
  /\ stopping = "notify"
  /\ stopping' = "no"
  /\ at' = [t \in Threads |-> IF at[t] = "asleep" THEN "loop" ELSE at[t]]
  /\ UNCHANGED <<configured, single, running, stopRequested, fired, late>>

-----------------------------------------------------------------------------
(* The thread. *)

\* The loop condition, and the predicate wait_for tests before it waits and
\* whenever the thread is woken up.
Loop(t) ==
  /\ at[t] = "loop"
  /\ at' = [at EXCEPT ![t] = IF stopRequested THEN "exit" ELSE "block"]
  /\ UNCHANGED <<client, running, stopRequested, fired, late>>

Block(t) ==
  /\ at[t] = "block"
  /\ at' = [at EXCEPT ![t] = "asleep"]
  /\ UNCHANGED <<client, running, stopRequested, fired, late>>

Spurious(t) ==
  /\ at[t] = "asleep"
  /\ at' = [at EXCEPT ![t] = "loop"]
  /\ UNCHANGED <<client, running, stopRequested, fired, late>>

\* The interval is over.
Timeout(t) ==
  /\ at[t] = "asleep"
  /\ at' = [at EXCEPT ![t] = "wake"]
  /\ late' = IF stopRequested THEN UpToTwo(late) ELSE late
  /\ UNCHANGED <<client, running, stopRequested, fired>>

\* Mutant of Wake: the flag is not read again after the wait.
WakeBlind(t) ==
  /\ at[t] = "wake"
  /\ at' = [at EXCEPT ![t] = "call"]
  /\ UNCHANGED <<client, running, stopRequested, fired, late>>

\* The test after the wait.
Wake(t) ==
  /\ at[t] = "wake"
  /\ at' = [at EXCEPT ![t] = IF stopRequested THEN "exit" ELSE "call"]
  /\ UNCHANGED <<client, running, stopRequested, fired, late>>

\* mFunction(); stops says whether it called Stop.
Call(t, stops) ==
  /\ at[t] = "call"
  /\ at' = [at EXCEPT ![t] = "called"]
  /\ fired' = UpToTwo(fired)
  /\ late' = IF stopRequested THEN UpToTwo(late) ELSE late
  /\ stopRequested' = (stopRequested \/ (stops /\ running))
  /\ UNCHANGED <<client, running>>

\* Mutant of Called: a single shot sets the flag at its next turn.
CalledLate(t) ==
  /\ at[t] = "called"
  /\ at' = [at EXCEPT ![t] = IF single /\ fired = 2 THEN "exit" ELSE "loop"]
  /\ UNCHANGED <<client, running, stopRequested, fired, late>>

\* After the callback: a single shot stops the ticker.
Called(t) ==
  /\ at[t] = "called"
  /\ at' = [at EXCEPT ![t] = IF single THEN "exit" ELSE "loop"]
  /\ stopRequested' = (stopRequested \/ (single /\ running))
  /\ UNCHANGED <<client, running, fired, late>>

\* Mutant of Exit: mRunning is left set.
ExitNot(t) ==
  /\ at[t] = "exit"
  /\ at' = [at EXCEPT ![t] = "none"]
  /\ UNCHANGED <<client, running, stopRequested, fired, late>>

Exit(t) ==
  /\ at[t] = "exit"
  /\ at' = [at EXCEPT ![t] = "none"]
  /\ running' = FALSE
  /\ UNCHANGED <<client, stopRequested, fired, late>>

Thread(t) ==
  \/ Loop(t) \/ Block(t) \/ Timeout(t) \/ Wake(t) \/ Called(t) \/ Exit(t)
  \/ \E stops \in BOOLEAN : Call(t, stops)

Next ==
  \/ \E c, s \in BOOLEAN : Configure(c, s)
  \/ Start \/ StopCheck \/ StopSet \/ StopNotify
  \/ \E t \in Threads : Thread(t) \/ Spurious(t)

Spec == Init /\ [][Next]_vars

\* The system schedules the thread and the function returns.  wait_for goes by
\* a deadline: waking up before it does not put it off for ever.
FairSpec == Spec /\ \A t \in Threads : WF_vars(Thread(t)) /\ SF_vars(Timeout(t))

-----------------------------------------------------------------------------
\* mRunning, which Start and the setters go by, is true as long as a thread
\* may still touch the object, and no two threads ever do.
RunningCoversThread ==
  /\ \A t \in Threads : Live(t) => running
  /\ \A t, u \in Threads : Live(t) /\ Live(u) => t = u

\* The function and the interval a thread uses stay as they were at Start.
ConfigurationFixed ==
  [][(\E t \in Threads : Live(t)) => UNCHANGED <<configured, single>>]_vars

\* What a Stop can come too late for is one thing: an interval that is waited
\* out, when its notification meets no waiting thread (between the test and the
\* wait, lines 54-55 of Ticker.h), or the callback, when the flag is set between
\* the test at line 56 and the call.  It is never both, and no second one.
LateOnce == late <= 1

\* A single-shot ticker calls its function at most once for each Start.
SingleShotOnce == single /\ (\E t \in Threads : Live(t)) => fired <= 1

\* A ticker that was stopped, or has one shot, comes to rest, even when the
\* notification of Stop meets no waiting thread.
ComesToRest == running /\ (single \/ stopRequested) ~> ~running
=============================================================================
