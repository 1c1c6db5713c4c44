---------------------------- MODULE TickerProofs ----------------------------
(***************************************************************************)
(* Ticker, for any set of thread identities: mRunning covers the thread,   *)
(* the configuration is fixed while it runs, a stop is late by one thing   *)
(* at most, one callback of a single shot.                                 *)
(***************************************************************************)
EXTENDS Ticker, TLAPS

\* Where a single-shot thread is tells how often it has called.
OneShot ==
  \A t \in Threads : single /\ Live(t) =>
    /\ at[t] \in {"loop", "block", "asleep", "wake", "call"} => fired = 0
    /\ at[t] \in {"called", "exit"} => fired <= 1

\* A thread that has not seen the flag yet has its interval or its callback
\* still before it, and then sees it.
Lateness ==
  /\ ~stopRequested => late = 0
  /\ \A t \in Threads : at[t] \in {"block", "asleep", "call"} => late = 0
  /\ late <= 1

Inv == TypeOK /\ RunningCoversThread /\ OneShot /\ Lateness

LEMMA InitInv == Init => Inv
<1> SUFFICES ASSUME Init PROVE Inv
  OBVIOUS
<1>1. \A t \in Threads : ~Live(t)
  BY DEF Init, Live
<1>2. TypeOK
  <2>1. fired \in 0..2 /\ late \in 0..2 /\ at \in [Threads -> Places]
    BY DEF Init, Places
  <2> QED
    BY <2>1, Zenon DEF Init, TypeOK
<1> QED
  <2>1. Lateness
    BY <1>1 DEF Init, Live, Lateness
  <2> QED
    BY <1>1, <1>2, <2>1 DEF Inv, RunningCoversThread, OneShot

LEMMA NextInv == Inv /\ [Next]_vars => Inv'
<1> SUFFICES ASSUME Inv, [Next]_vars PROVE Inv'
  OBVIOUS
<1> USE DEF Inv, TypeOK, RunningCoversThread, OneShot, Lateness, UpToTwo, Live, Places, client
<1>1. ASSUME NEW c \in BOOLEAN, NEW s \in BOOLEAN, Configure(c, s) PROVE Inv'
  BY <1>1 DEF Configure
<1>2. CASE Start
  <2>1. PICK t \in Threads : at[t] = "none" /\ at' = [at EXCEPT ![t] = "loop"]
    BY <1>2 DEF Start
  <2>2. /\ running' = TRUE /\ fired' = 0 /\ late' = 0
        /\ \A u \in Threads : at[u] = "none"
    BY <1>2 DEF Start
  <2>3. at'[t] = "loop" /\ \A u \in Threads \ {t} : at'[u] = "none"
    BY <2>1, <2>2
  <2>4. TypeOK'
    <3>1. fired' \in 0..2 /\ late' \in 0..2 /\ at' \in [Threads -> Places]
      BY <2>1, <2>2
    <3>2. /\ running' \in BOOLEAN /\ stopRequested' \in BOOLEAN
          /\ UNCHANGED client
      BY <1>2, Zenon DEF Start
    <3> QED
      BY <3>1, <3>2, Zenon
  <2>5. RunningCoversThread'
    BY <2>2, <2>3
  <2>6. OneShot' /\ Lateness'
    BY <2>2, <2>3
  <2> QED
    BY <2>4, <2>5, <2>6
<1>3. CASE StopCheck
  BY <1>3 DEF StopCheck
<1>4. CASE StopSet
  BY <1>4 DEF StopSet
<1>5. ASSUME NEW t \in Threads, Loop(t) PROVE Inv'
  BY <1>5 DEF Loop
<1>6. ASSUME NEW t \in Threads, Wake(t) PROVE Inv'
  BY <1>6 DEF Wake
<1>7. ASSUME NEW t \in Threads, NEW b \in BOOLEAN, Call(t, b) PROVE Inv'
  BY <1>7 DEF Call
<1>8. ASSUME NEW t \in Threads, Called(t) PROVE Inv'
  BY <1>8 DEF Called
<1>9. ASSUME NEW t \in Threads, Exit(t) PROVE Inv'
  BY <1>9 DEF Exit
<1>10. CASE UNCHANGED vars
  BY <1>10 DEF vars
<1>11. CASE StopNotify
  BY <1>11 DEF StopNotify
<1>12. ASSUME NEW t \in Threads, Block(t) \/ Spurious(t) PROVE Inv'
  BY <1>12 DEF Block, Spurious
<1>13. ASSUME NEW t \in Threads, Timeout(t) PROVE Inv'
  BY <1>13 DEF Timeout
<1> QED
  BY <1>1, <1>2, <1>3, <1>4, <1>5, <1>6, <1>7, <1>8, <1>9, <1>10, <1>11, <1>12, <1>13
     DEF Next, Thread

-----------------------------------------------------------------------------
\* The invariant the other theorems follow from, under any interleaving of
\* the client's calls and the threads.
THEOREM Invariance == Spec => []Inv
BY InitInv, NextInv, PTL DEF Spec

\* As long as a thread may touch the object mRunning is set, so Start
\* (Ticker.h:40) never makes a second one.
THEOREM OneThread == Spec => []RunningCoversThread
<1>1. Inv => RunningCoversThread
  BY DEF Inv
<1> QED
  BY Invariance, <1>1, PTL

\* No setter takes effect while a thread uses the configuration.
THEOREM FixedConfiguration == Spec => ConfigurationFixed
<1> DEFINE A == (\E t \in Threads : Live(t)) => UNCHANGED <<configured, single>>
<1>1. ASSUME Inv, [Next]_vars PROVE [A]_vars
  BY <1>1 DEF Inv, RunningCoversThread, Live, client, vars, Next, Thread, Configure,
     Start, StopCheck, StopSet, StopNotify, Loop, Block, Spurious, Timeout, Wake, Call,
     Called, Exit
<1> HIDE DEF A
<1>2. Spec => [][A]_vars
  BY Invariance, <1>1, PTL DEF Spec
<1> QED
  BY <1>2 DEF ConfigurationFixed, A

\* A stop comes too late for one interval or one callback, wherever its store
\* and its notification (Ticker.h:74-75) fall between the steps of the thread.
THEOREM StopCostsOne == Spec => []LateOnce
<1>1. Inv => LateOnce
  BY DEF Inv, Lateness, LateOnce
<1> QED
  BY Invariance, <1>1, PTL

\* A single-shot ticker calls back at most once for each Start.
THEOREM OneCallback == Spec => []SingleShotOnce
<1>1. Inv => SingleShotOnce
  BY DEF Inv, TypeOK, OneShot, SingleShotOnce, Live, Places
<1> QED
  BY Invariance, <1>1, PTL
=============================================================================
