------------------------- MODULE SlidingWindowProofs -------------------------
(***************************************************************************)
(* SlidingWindow, for any names, data, history depths and numbers of       *)
(* pushes: types, the promise of HasNextData, the bound on the history, and*)
(* that it implements Channels.                                            *)
(***************************************************************************)
EXTENDS SlidingWindow, SequenceTheorems, TLAPS

-----------------------------------------------------------------------------
(* The unread part of a window is a suffix of its storage. *)

Suffix(s, k) == SubSeq(s, k + 1, Len(s))

LEMMA SuffixFacts ==
  ASSUME NEW s \in Seq(Data), NEW k \in 0..Len(s)
  PROVE  /\ Suffix(s, k) \in Seq(Data)
         /\ Len(Suffix(s, k)) = Len(s) - k
         /\ \A i \in 1..(Len(s) - k) : Suffix(s, k)[i] = s[k + i]
<1>1. \A i \in (k + 1)..Len(s) : s[i] \in Data
  BY ElementOfSeq
<1> QED
  BY <1>1, SubSeqProperties DEF Suffix

\* What cleanup pops lies in front of the read position.
LEMMA SuffixOfSuffix ==
  ASSUME NEW s \in Seq(Data), NEW k \in 0..Len(s), NEW p \in 0..k
  PROVE  /\ k - p \in 0..Len(Suffix(s, p))
         /\ Suffix(Suffix(s, p), k - p) = Suffix(s, k)
<1> DEFINE t == Suffix(s, p)
<1>0. Len(s) \in Nat /\ p \in 0..Len(s)
  BY LenProperties
<1>1. /\ t \in Seq(Data) /\ Len(t) = Len(s) - p /\ k - p \in 0..Len(t)
      /\ \A i \in 1..(Len(s) - p) : t[i] = s[p + i]
  BY <1>0, SuffixFacts
<1> HIDE DEF t
<1>2. /\ Suffix(t, k - p) \in Seq(Data)
      /\ Len(Suffix(t, k - p)) = Len(s) - k
      /\ \A i \in 1..(Len(s) - k) : Suffix(t, k - p)[i] = t[k - p + i]
  <2> DEFINE j == k - p
  <2>1. j \in 0..Len(t) /\ Len(t) - j = Len(s) - k
    BY <1>0, <1>1
  <2> HIDE DEF j
  <2>2. /\ Suffix(t, j) \in Seq(Data)
        /\ Len(Suffix(t, j)) = Len(t) - j
        /\ \A i \in 1..(Len(t) - j) : Suffix(t, j)[i] = t[j + i]
    BY <1>1, <2>1, SuffixFacts
  <2> QED
    BY <2>1, <2>2 DEF j
<1>3. /\ Suffix(s, k) \in Seq(Data)
      /\ Len(Suffix(s, k)) = Len(s) - k
      /\ \A i \in 1..(Len(s) - k) : Suffix(s, k)[i] = s[k + i]
  BY SuffixFacts
<1>4. \A i \in 1..(Len(s) - k) : t[k - p + i] = s[k + i]
  <2> TAKE i \in 1..(Len(s) - k)
  <2>1. k - p + i \in 1..(Len(s) - p) /\ p + (k - p + i) = k + i
    BY <1>0
  <2> QED
    BY <1>1, <2>1
<1>5. Suffix(t, k - p) = Suffix(s, k)
  BY <1>2, <1>3, <1>4, SeqEqual
<1> QED
  BY <1>1, <1>5 DEF t

LEMMA SuffixOfAppend ==
  ASSUME NEW s \in Seq(Data), NEW k \in 0..Len(s), NEW x \in Data
  PROVE  Suffix(Append(s, x), k) = Append(Suffix(s, k), x)
<1> DEFINE t == Append(s, x)
           u == Suffix(s, k)
           v == Append(u, x)
<1>0. Len(s) \in Nat
  BY LenProperties
<1>1. /\ t \in Seq(Data) /\ Len(t) = Len(s) + 1 /\ k \in 0..Len(t)
      /\ \A i \in 1..Len(s) : t[i] = s[i]
      /\ t[Len(s) + 1] = x
  BY <1>0, AppendProperties
<1>2. u \in Seq(Data) /\ Len(u) = Len(s) - k /\ \A i \in 1..(Len(s) - k) : u[i] = s[k + i]
  BY SuffixFacts
<1> HIDE DEF t, u
<1>3. /\ v \in Seq(Data) /\ Len(v) = Len(s) - k + 1
      /\ \A i \in 1..(Len(s) - k) : v[i] = u[i]
      /\ v[Len(s) - k + 1] = x
  BY <1>2, AppendProperties
<1> HIDE DEF v
<1>4. /\ Suffix(t, k) \in Seq(Data) /\ Len(Suffix(t, k)) = Len(s) + 1 - k
      /\ \A i \in 1..(Len(s) + 1 - k) : Suffix(t, k)[i] = t[k + i]
  <2>1. /\ Suffix(t, k) \in Seq(Data)
        /\ Len(Suffix(t, k)) = Len(t) - k
        /\ \A i \in 1..(Len(t) - k) : Suffix(t, k)[i] = t[k + i]
    BY <1>1, SuffixFacts
  <2> QED
    BY <1>1, <2>1
<1>5. \A i \in 1..(Len(s) + 1 - k) : t[k + i] = v[i]
  <2> TAKE i \in 1..(Len(s) + 1 - k)
  <2>1. CASE i = Len(s) + 1 - k
    BY <1>0, <1>1, <1>3, <2>1
  <2>2. CASE i \in 1..(Len(s) - k)
    <3>1. k + i \in 1..Len(s)
      BY <1>0, <2>2
    <3> QED
      BY <1>1, <1>2, <1>3, <2>2, <3>1
  <2> QED
    BY <1>0, <2>1, <2>2
<1>6. Len(Suffix(t, k)) = Len(v) /\ \A i \in 1..Len(v) : Suffix(t, k)[i] = v[i]
  BY <1>0, <1>3, <1>4, <1>5
<1>7. Suffix(t, k) = v
  BY <1>3, <1>4, <1>6, SeqEqual
<1> QED
  BY <1>7 DEF t, u, v

LEMMA SuffixHeadTail ==
  ASSUME NEW s \in Seq(Data), NEW k \in 0..Len(s)
  PROVE  /\ k = Len(s) => Suffix(s, k) = <<>>
         /\ k < Len(s) => /\ Suffix(s, k) # <<>>
                          /\ Head(Suffix(s, k)) = s[k + 1]
                          /\ Tail(Suffix(s, k)) = Suffix(s, k + 1)
<1>1. CASE k = Len(s)
  BY <1>1, SubSeqEmpty DEF Suffix
<1>2. CASE k < Len(s)
  <2>1. Suffix(s, k) # <<>>
    BY <1>2, SuffixFacts
  <2> QED
    BY <1>2, <2>1, HeadTailOfSubSeq DEF Suffix
<1> QED
  BY <1>1, <1>2

-----------------------------------------------------------------------------
(* One step. *)

\* cleanup leaves at most historyDepth read elements and every unread one.
LEMMA CleanupResult ==
  ASSUME TypeOK, NEW n \in Names, NEW s \in Seq(Data), NEW k \in 0..Len(s), Cleanup(n, s, k)
  PROVE  /\ storage' \in [Names -> Seq(Data)] /\ next' \in [Names -> Nat]
         /\ \A m \in Names \ {n} : storage'[m] = storage[m] /\ next'[m] = next[m]
         /\ next'[n] \in 0..Len(storage'[n]) /\ next'[n] <= historyDepth[n]
         /\ Suffix(storage'[n], next'[n]) = Suffix(s, k)
         /\ Len(storage'[n]) - next'[n] = Len(s) - k
<1> DEFINE p == Excess(s, k, historyDepth[n])
<1>0. Len(s) \in Nat /\ historyDepth[n] \in Nat
  BY LenProperties DEF TypeOK
<1>1. p \in 0..k /\ p \in 0..Len(s) /\ k - p <= historyDepth[n]
  BY <1>0 DEF Excess
<1>2. /\ storage' = [storage EXCEPT ![n] = Suffix(s, p)]
      /\ next' = [next EXCEPT ![n] = k - p]
  BY DEF Cleanup, Suffix
<1> HIDE DEF p
<1>3. Suffix(s, p) \in Seq(Data) /\ Len(Suffix(s, p)) = Len(s) - p
  BY <1>1, SuffixFacts
<1>4. k - p \in 0..Len(Suffix(s, p)) /\ Suffix(Suffix(s, p), k - p) = Suffix(s, k)
  BY <1>1, SuffixOfSuffix
<1>5. storage'[n] = Suffix(s, p) /\ next'[n] = k - p
  BY <1>2 DEF TypeOK
<1> QED
  BY <1>0, <1>1, <1>2, <1>3, <1>4, <1>5 DEF TypeOK

\* What AddData and GetNextData pass to cleanup.
LEMMA AddDataCleanup ==
  ASSUME TypeOK, NEW n \in Names, NEW x \in Data, AddData(n, x)
  PROVE  /\ Append(storage[n], x) \in Seq(Data)
         /\ Len(Append(storage[n], x)) = Len(storage[n]) + 1
         /\ next[n] \in 0..Len(storage[n]) /\ next[n] \in 0..Len(Append(storage[n], x))
         /\ Cleanup(n, Append(storage[n], x), next[n])
<1>1. storage[n] \in Seq(Data) /\ next[n] \in 0..Len(storage[n]) /\ Len(storage[n]) \in Nat
  BY LenProperties DEF TypeOK
<1> QED
  BY <1>1, AppendProperties DEF AddData

LEMMA GetNextDataCleanup ==
  ASSUME TypeOK, NEW n \in Names, GetNextData(n), next[n] # Len(storage[n])
  PROVE  /\ storage[n] \in Seq(Data)
         /\ next[n] \in 0..Len(storage[n]) /\ next[n] + 1 \in 0..Len(storage[n])
         /\ storage[n][next[n] + 1] \in Data
         /\ result' = [result EXCEPT ![n] = storage[n][next[n] + 1]]
         /\ Cleanup(n, storage[n], next[n] + 1)
<1>1. storage[n] \in Seq(Data) /\ next[n] \in Nat /\ next[n] < Len(storage[n])
  BY LenProperties DEF TypeOK
<1>2. storage[n][next[n] + 1] \in Data
  BY <1>1, ElementOfSeq
<1> QED
  BY <1>1, <1>2 DEF GetNextData

Inv == TypeOK /\ PromiseKept

LEMMA InitInv == Init => Inv
<1> SUFFICES ASSUME Init PROVE Inv
  OBVIOUS
<1>0. <<>> \in Seq(Data) /\ Len(<<>>) = 0
  BY EmptySeq
<1>1. \A n \in Names : storage[n] \in Seq(Data) /\ next[n] <= Len(storage[n])
  <2> TAKE n \in Names
  <2>1. storage[n] = <<>> /\ next[n] = 0
    BY DEF Init
  <2> QED
    BY <1>0, <2>1
<1>2. storage \in [Names -> Seq(Data)]
  BY <1>1 DEF Init
<1> QED
  BY <1>1, <1>2, CapacityAssumption DEF Init, Inv, TypeOK, PromiseKept

LEMMA StepInv ==
  ASSUME Inv, NEW n \in Names,
         \/ \E d \in Depths : AddWindow(n, d) \/ SetHistoryDepth(n, d)
         \/ \E x \in Data : AddData(n, x)
         \/ HasNextData(n) \/ GetNextData(n)
  PROVE  Inv'
<1>1. ASSUME NEW d \in Depths, AddWindow(n, d) \/ SetHistoryDepth(n, d) PROVE Inv'
  BY <1>1, DepthsAssumption DEF AddWindow, SetHistoryDepth, Inv, TypeOK, PromiseKept
<1>2. ASSUME NEW x \in Data, AddData(n, x) PROVE Inv'
  <2> DEFINE s == Append(storage[n], x)
  <2>1. /\ s \in Seq(Data) /\ Len(s) = Len(storage[n]) + 1 /\ Len(storage[n]) \in Nat
        /\ next[n] \in 0..Len(storage[n]) /\ next[n] \in 0..Len(s) /\ Cleanup(n, s, next[n])
    BY <1>2, AddDataCleanup, LenProperties DEF Inv, TypeOK
  <2> HIDE DEF s
  <2>2. /\ storage' \in [Names -> Seq(Data)] /\ next' \in [Names -> Nat]
        /\ \A m \in Names \ {n} : storage'[m] = storage[m] /\ next'[m] = next[m]
        /\ next'[n] \in 0..Len(storage'[n])
        /\ Len(storage'[n]) - next'[n] = Len(s) - next[n]
    BY <2>1, CleanupResult DEF Inv
  <2>3. Len(storage'[n]) \in Nat
    BY <2>2, LenProperties
  <2>4. TypeOK'
    <3>1. \A m \in Names : next'[m] <= Len(storage'[m])
      <4> TAKE m \in Names
      <4>1. CASE m = n
        BY <2>2, <2>3, <4>1
      <4>2. CASE m # n
        <5>1. storage'[m] = storage[m] /\ next'[m] = next[m] /\ next[m] <= Len(storage[m])
          BY <2>2, <4>2 DEF Inv, TypeOK
        <5> QED
          BY <5>1
      <4> QED
        BY <4>1, <4>2
    <3>2. pushes' \in [Names -> 0..Capacity]
      BY <1>2, CapacityAssumption DEF AddData, Inv, TypeOK
    <3> QED
      BY <1>2, <2>2, <3>1, <3>2 DEF AddData, Inv, TypeOK
  <2>5. PromiseKept'
    BY <1>2, <2>1, <2>2, <2>3 DEF AddData, Inv, PromiseKept
  <2> QED
    BY <2>4, <2>5 DEF Inv
<1>3. CASE HasNextData(n)
  <2>1. Len(storage[n]) \in Nat
    BY LenProperties DEF Inv, TypeOK
  <2> QED
    BY <1>3, <2>1 DEF HasNextData, Inv, TypeOK, PromiseKept
<1>4. CASE GetNextData(n) /\ next[n] = Len(storage[n])
  BY <1>4 DEF GetNextData, Inv, TypeOK, PromiseKept
<1>5. CASE GetNextData(n) /\ next[n] # Len(storage[n])
  <2>1. /\ storage' \in [Names -> Seq(Data)] /\ next' \in [Names -> Nat]
        /\ \A m \in Names \ {n} : storage'[m] = storage[m] /\ next'[m] = next[m]
        /\ next'[n] \in 0..Len(storage'[n])
        /\ result' \in [Names -> Data \cup {Nothing}]
    BY <1>5, GetNextDataCleanup, CleanupResult DEF Inv, TypeOK
  <2>2. TypeOK'
    <3>1. \A m \in Names : next'[m] <= Len(storage'[m])
      <4> TAKE m \in Names
      <4>1. CASE m = n
        BY <2>1, <4>1, LenProperties
      <4>2. CASE m # n
        <5>1. storage'[m] = storage[m] /\ next'[m] = next[m] /\ next[m] <= Len(storage[m])
          BY <2>1, <4>2 DEF Inv, TypeOK
        <5> QED
          BY <5>1
      <4> QED
        BY <4>1, <4>2
    <3> QED
      BY <1>5, <2>1, <3>1 DEF GetNextData, Inv, TypeOK
  <2>3. PromiseKept'
    BY <1>5, <2>1 DEF GetNextData, Inv, TypeOK, PromiseKept
  <2> QED
    BY <2>2, <2>3 DEF Inv
<1> QED
  BY <1>1, <1>2, <1>3, <1>4, <1>5

\* A step of the window n is a step of its channel, or changes no channel.
AllUnread == [n \in Names |-> Unread(n)]

LEMMA StepImplements ==
  ASSUME Inv, NEW n \in Names,
         \/ \E d \in Depths : AddWindow(n, d) \/ SetHistoryDepth(n, d)
         \/ \E x \in Data : AddData(n, x)
         \/ HasNextData(n) \/ GetNextData(n)
  PROVE  CH!Next \/ UNCHANGED <<AllUnread, result>>
<1>0. \A m \in Names : Unread(m) = Suffix(storage[m], next[m])
  BY DEF Unread, Suffix
<1>1. \A m \in Names : Unread(m)' = Suffix(storage'[m], next'[m])
  BY DEF Unread, Suffix
<1>2. CASE UNCHANGED <<storage, next, result>>
  BY <1>2 DEF AllUnread, Unread
<1>3. ASSUME NEW x \in Data, AddData(n, x) PROVE CH!Put(n, x)
  <2>1. /\ storage[n] \in Seq(Data) /\ next[n] \in 0..Len(storage[n])
        /\ Suffix(storage'[n], next'[n]) = Suffix(Append(storage[n], x), next[n])
        /\ \A m \in Names \ {n} : storage'[m] = storage[m] /\ next'[m] = next[m]
    BY <1>3, AddDataCleanup, CleanupResult DEF Inv, TypeOK
  <2>2. Unread(n)' = Append(Unread(n), x)
    BY <1>0, <1>1, <2>1, SuffixOfAppend
  <2>3. \A m \in Names \ {n} : Unread(m)' = Unread(m)
    BY <1>0, <1>1, <2>1
  <2>4. AllUnread' = [AllUnread EXCEPT ![n] = Append(@, x)]
    BY <2>2, <2>3 DEF AllUnread
  <2>5. UNCHANGED result
    BY <1>3 DEF AddData
  <2> QED
    BY <2>4, <2>5 DEF CH!Put, AllUnread
<1>4. CASE GetNextData(n) /\ next[n] # Len(storage[n])
  <2>1. /\ storage[n] \in Seq(Data) /\ next[n] \in 0..Len(storage[n])
        /\ next[n] < Len(storage[n])
        /\ Suffix(storage'[n], next'[n]) = Suffix(storage[n], next[n] + 1)
        /\ \A m \in Names \ {n} : storage'[m] = storage[m] /\ next'[m] = next[m]
        /\ result' = [result EXCEPT ![n] = storage[n][next[n] + 1]]
    BY <1>4, GetNextDataCleanup, CleanupResult DEF Inv, TypeOK
  <2>2. /\ Unread(n) # <<>> /\ Head(Unread(n)) = storage[n][next[n] + 1]
        /\ Unread(n)' = Tail(Unread(n))
    BY <1>0, <1>1, <2>1, SuffixHeadTail
  <2>3. \A m \in Names \ {n} : Unread(m)' = Unread(m)
    BY <1>0, <1>1, <2>1
  <2>4. AllUnread' = [AllUnread EXCEPT ![n] = Tail(@)]
    BY <2>2, <2>3 DEF AllUnread
  <2>5. CH!Get(n)
    BY <2>1, <2>2, <2>4 DEF CH!Get, AllUnread
  <2> QED
    BY <2>5 DEF CH!Next
<1>5. CASE GetNextData(n) /\ next[n] = Len(storage[n])
  <2>1. Unread(n) = <<>>
    BY <1>0, <1>5, SuffixHeadTail, LenProperties DEF Inv, TypeOK
  <2>2. UNCHANGED AllUnread /\ result' = [result EXCEPT ![n] = Nothing]
    BY <1>5 DEF GetNextData, AllUnread, Unread
  <2>3. CH!GetNothing(n)
    BY <2>1, <2>2 DEF CH!GetNothing, AllUnread
  <2> QED
    BY <2>3 DEF CH!Next
<1> QED
  BY <1>2, <1>3, <1>4, <1>5 DEF AddWindow, SetHistoryDepth, HasNextData, CH!Next

-----------------------------------------------------------------------------
(* The theorems. *)

LEMMA NextInv == Inv /\ [Next]_vars => Inv'
<1> SUFFICES ASSUME Inv, [Next]_vars PROVE Inv'
  OBVIOUS
<1>1. CASE UNCHANGED vars
  BY <1>1 DEF vars, Inv, TypeOK, PromiseKept
<1>2. CASE Next
  BY <1>2, StepInv DEF Next
<1> QED
  BY <1>1, <1>2

THEOREM Invariance == Spec => []Inv
BY InitInv, NextInv, PTL DEF Spec

\* Under any sequence of calls, on any number of windows, the read position
\* stays within the storage and every variable keeps its type.
THEOREM TypeCorrect == Spec => []TypeOK
<1>1. Inv => TypeOK
  BY DEF Inv
<1> QED
  BY <1>1, Invariance, PTL

\* What HasNextData told a window's only reader stays true until it reads,
\* whatever AddData and its cleanup do in between.
THEOREM PromiseHolds == Spec => []PromiseKept
<1>1. Inv => PromiseKept
  BY DEF Inv
<1> QED
  BY <1>1, Invariance, PTL

\* cleanup bounds the history by the depth in force.
THEOREM BoundedHistory == Spec => HistoryBounded
<1> DEFINE A == \A n \in Names :
       <<storage[n], next[n]>>' # <<storage[n], next[n]>> => next'[n] <= historyDepth'[n]
<1>1. ASSUME Inv, [Next]_vars PROVE [A]_vars
  <2> SUFFICES ASSUME Next, NEW m \in Names,
                      <<storage[m], next[m]>>' # <<storage[m], next[m]>>
               PROVE  next'[m] <= historyDepth'[m]
    BY <1>1
  <2>1. PICK n \in Names :
          \/ \E d \in Depths : AddWindow(n, d) \/ SetHistoryDepth(n, d)
          \/ \E x \in Data : AddData(n, x)
          \/ HasNextData(n) \/ GetNextData(n)
    BY DEF Next
  <2>2. ASSUME NEW x \in Data, AddData(n, x) PROVE next'[m] <= historyDepth'[m]
    <3>1. /\ \A o \in Names \ {n} : storage'[o] = storage[o] /\ next'[o] = next[o]
          /\ next'[n] <= historyDepth[n]
      BY <1>1, <2>2, AddDataCleanup, CleanupResult DEF Inv
    <3> QED
      BY <2>2, <3>1 DEF AddData
  <2>3. CASE GetNextData(n) /\ next[n] # Len(storage[n])
    <3>1. /\ \A o \in Names \ {n} : storage'[o] = storage[o] /\ next'[o] = next[o]
          /\ next'[n] <= historyDepth[n]
      BY <1>1, <2>3, GetNextDataCleanup, CleanupResult DEF Inv
    <3> QED
      BY <2>3, <3>1 DEF GetNextData
  <2> QED
    BY <2>1, <2>2, <2>3 DEF AddWindow, SetHistoryDepth, HasNextData, GetNextData
<1> QED
  BY <1>1, Invariance, PTL DEF Spec, HistoryBounded

\* Refinement: seen through its unread part, every window is a channel.
THEOREM Implementation == Spec => ReadsInOrder
<1>1. Init => CH!Init
  <2> SUFFICES ASSUME Init PROVE CH!Init
    OBVIOUS
  <2>1. \A n \in Names : Unread(n) = <<>>
    <3> TAKE n \in Names
    <3>1. storage[n] = <<>> /\ next[n] = 0 /\ <<>> \in Seq(Data) /\ Len(<<>>) = 0
      BY EmptySeq DEF Init
    <3> QED
      BY <3>1, SubSeqEmpty DEF Unread
  <2> QED
    BY <2>1 DEF Init, CH!Init
<1>2. ASSUME Inv, [Next]_vars PROVE [CH!Next]_(CH!vars)
  <2>1. CASE UNCHANGED vars
    BY <2>1 DEF vars, CH!vars, Unread
  <2>2. CASE Next
    BY <1>2, <2>2, StepImplements DEF Next, CH!vars, AllUnread
  <2> QED
    BY <1>2, <2>1, <2>2
<1> QED
  BY <1>1, <1>2, Invariance, PTL DEF Spec, ReadsInOrder, CH!Spec
=============================================================================
