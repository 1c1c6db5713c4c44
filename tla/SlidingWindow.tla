---------------------------- MODULE SlidingWindow ----------------------------
(***************************************************************************)
(* ml::SlidingWindow with MaxHistoryCleanupPolicy, and SlidingWindowMgr,   *)
(* which keeps windows by name (MLCommon/inc/Tools).  A window is a deque  *)
(* and nextReadElement, an iterator into it; every operation holds the     *)
(* window's mutex, so it is one step.                                      *)
(*                                                                         *)
(* nextReadElement is modelled by its distance from begin().  With         *)
(* libstdc++ that is what push_back leaves it at, also when it was end():  *)
(* the old end is the new element, and the test of line 42 is false.  It   *)
(* lasts until the deque moves its map of nodes, which happens at the      *)
(* first push that does not fit; Capacity bounds the pushes below that     *)
(* (160 for 512-byte nodes, 16-byte elements and an 8-slot map).           *)
(***************************************************************************)
EXTENDS Integers, Sequences

CONSTANTS
  Names,      \* names of windows
  Data,       \* data with its metadata
  Depths,     \* history depths in use
  Capacity,   \* bound: pushes to one window
  Nothing     \* the null pointer GetNextData returns

ASSUME DepthsAssumption == Depths \subseteq Nat
ASSUME CapacityAssumption == Capacity \in Nat
ASSUME NothingAssumption == Nothing \notin Data

VARIABLES
  windows,        \* names in SlidingWindowMgr::windows
  storage,        \* storage of each window
  next,           \* distance of nextReadElement from storage.begin()
  historyDepth,   \* the depth of each window's policy
  pushes,         \* AddData calls on each window
  result,         \* what GetNextData returned last
  promised        \* HasNextData returned true and its reader has not read since

vars == <<windows, storage, next, historyDepth, pushes, result, promised>>

TypeOK ==
  /\ windows \subseteq Names
  /\ storage \in [Names -> Seq(Data)]
  /\ next \in [Names -> Nat]
  /\ \A n \in Names : next[n] <= Len(storage[n])
  /\ historyDepth \in [Names -> Nat]
  /\ pushes \in [Names -> 0..Capacity]
  /\ result \in [Names -> Data \cup {Nothing}]
  /\ promised \in [Names -> BOOLEAN]

Init ==
  /\ windows = {}
  /\ storage = [n \in Names |-> <<>>]
  /\ next = [n \in Names |-> 0]
  /\ historyDepth = [n \in Names |-> 0]
  /\ pushes = [n \in Names |-> 0]
  /\ result = [n \in Names |-> Nothing]
  /\ promised = [n \in Names |-> FALSE]

-----------------------------------------------------------------------------
\* How many elements MaxHistoryCleanupPolicy::cleanup pops from the front.
Excess(s, k, depth) == IF k > depth THEN k - depth ELSE 0

\* Mutant of Cleanup: nothing is popped.
CleanupNot(n, s, k) ==
  /\ storage' = [storage EXCEPT ![n] = s]
  /\ next' = [next EXCEPT ![n] = k]

\* The window n holds s with the read position k, once cleaned up.
Cleanup(n, s, k) ==
  LET popped == Excess(s, k, historyDepth[n])
  IN /\ storage' = [storage EXCEPT ![n] = SubSeq(s, popped + 1, Len(s))]
     /\ next' = [next EXCEPT ![n] = k - popped]

\* addWindow: emplace leaves a window of that name as it is.
AddWindow(n, depth) ==
  /\ windows' = windows \cup {n}
  /\ historyDepth' = IF n \in windows THEN historyDepth
                     ELSE [historyDepth EXCEPT ![n] = depth]
  /\ UNCHANGED <<storage, next, pushes, result, promised>>

\* addData and AddData; addData throws when there is no such window.
AddData(n, x) ==
  /\ n \in windows
  /\ pushes[n] < Capacity
  /\ pushes' = [pushes EXCEPT ![n] = @ + 1]
  /\ Cleanup(n, Append(storage[n], x), next[n])
  /\ UNCHANGED <<windows, historyDepth, result, promised>>

\* Mutant of HasNextData: the window is asked, not the read position.
HasNextDataAny(n) ==
  /\ n \in windows
  /\ promised' = [promised EXCEPT ![n] = storage[n] # <<>>]
  /\ UNCHANGED <<windows, storage, next, historyDepth, pushes, result>>

HasNextData(n) ==
  /\ n \in windows
  /\ promised' = [promised EXCEPT ![n] = next[n] # Len(storage[n])]
  /\ UNCHANGED <<windows, storage, next, historyDepth, pushes, result>>

\* Mutant of GetNextData: the newest element is returned.
GetNextDataNewest(n) ==
  /\ n \in windows
  /\ promised' = [promised EXCEPT ![n] = FALSE]
  /\ IF next[n] # Len(storage[n])
     THEN /\ result' = [result EXCEPT ![n] = storage[n][Len(storage[n])]]
          /\ Cleanup(n, storage[n], next[n] + 1)
     ELSE /\ result' = [result EXCEPT ![n] = Nothing]
          /\ UNCHANGED <<storage, next>>
  /\ UNCHANGED <<windows, historyDepth, pushes>>

GetNextData(n) ==
  /\ n \in windows
  /\ promised' = [promised EXCEPT ![n] = FALSE]
  /\ \/ /\ next[n] # Len(storage[n])
        /\ result' = [result EXCEPT ![n] = storage[n][next[n] + 1]]
        /\ Cleanup(n, storage[n], next[n] + 1)
     \/ /\ next[n] = Len(storage[n])
        /\ result' = [result EXCEPT ![n] = Nothing]
        /\ UNCHANGED <<storage, next>>
  /\ UNCHANGED <<windows, historyDepth, pushes>>

\* getCleanupPolicy().setHistoryDepth: takes effect at the next cleanup.
SetHistoryDepth(n, depth) ==
  /\ n \in windows
  /\ historyDepth' = [historyDepth EXCEPT ![n] = depth]
  /\ UNCHANGED <<windows, storage, next, pushes, result, promised>>

Next ==
  \E n \in Names :
    \/ \E d \in Depths : AddWindow(n, d) \/ SetHistoryDepth(n, d)
    \/ \E x \in Data : AddData(n, x)
    \/ HasNextData(n) \/ GetNextData(n)

Spec == Init /\ [][Next]_vars

-----------------------------------------------------------------------------
\* AddData's cleanup, which runs between a reader's HasNextData and its
\* GetNextData, never takes away the element the reader was told of.
PromiseKept == \A n \in Names : promised[n] => next[n] < Len(storage[n])

\* Every AddData and GetNextData leaves at most historyDepth read elements,
\* also after the depth was lowered (MaxHistoryCleanupPolicy::cleanup).
HistoryBounded ==
  [][\A n \in Names :
       <<storage[n], next[n]>>' # <<storage[n], next[n]>> => next'[n] <= historyDepth'[n]]_vars

\* A window reads in order, every element once, whatever the history depth
\* and however it changes.
Unread(n) == SubSeq(storage[n], next[n] + 1, Len(storage[n]))

CH == INSTANCE Channels WITH unread <- [n \in Names |-> Unread(n)], got <- result
ReadsInOrder == CH!Spec
=============================================================================
