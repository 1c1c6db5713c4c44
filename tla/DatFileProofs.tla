---------------------------- MODULE DatFileProofs ----------------------------
(***************************************************************************)
(* The recording for any timestamps, sizes of frames, even flush count and *)
(* number of records and sessions: wherever the writer is killed, every    *)
(* entry of the index file leads to a whole frame, and what a reader       *)
(* replays is in order and complete.                                       *)
(***************************************************************************)
EXTENDS DatFile, SequenceTheorems, WellFoundedInduction, TLAPS

Unit == Nat \X Nat
Entries == [time : Nat, offset : Nat, frame : Nat]
Records == [time : Nat, size : Nat]

\* What is left of a frame whose entry is saved first, and last, ...
Ahead == {<<"header", "data">>, <<"data">>}
Behind == {<<"header", "data", "entry">>, <<"data", "entry">>, <<"entry">>}
\* ... the calls of a flush, and what may follow them.
Flushing == {<<"flushRaw", "flushIndex">>, <<"flushRaw", "flushIndex", "entry">>,
             <<"flushRaw", "flushIndex", "closed">>}
HalfFlushed == {<<"flushIndex">>, <<"flushIndex", "entry">>, <<"flushIndex", "closed">>}

Plans ==
  {<<>>, <<"truncateIndex">>, <<"entry", "header", "data">>, <<"closed">>}
    \cup Ahead \cup Behind \cup Flushing \cup HalfFlushed

WriterTypeOK ==
  /\ rawFile \in Seq(Unit) /\ rawBuffer \in Seq(Unit)
  /\ indexFile \in Seq(Entries) /\ indexBuffer \in Seq(Entries)
  /\ recorded \in Seq(Records)
  /\ opened \in BOOLEAN /\ mixed \in BOOLEAN
  /\ rawSize \in Nat /\ writes \in Nat
  /\ plan \in Plans

-----------------------------------------------------------------------------
(* What is in a stream s, of the frames of r. *)

\* The first u units of frame n stand from offset o on.
Stands(s, o, n, u) == \A i \in 1..u : s[o + i] = <<n, i - 1>>

\* The frame of entry e is whole.
Holds(s, r, e) ==
  /\ e.frame \in DOMAIN r
  /\ e.offset + 1 + r[e.frame].size <= Len(s)
  /\ Stands(s, e.offset, e.frame, 1 + r[e.frame].size)

AllHeld(s, r, q) == \A k \in DOMAIN q : Holds(s, r, q[k])

\* The stream ends with the first u units of the frame recorded last.
EndsWith(s, r, o, u) == Len(s) = o + u /\ Stands(s, o, Len(r), u)

\* The last entry of q is that of the frame being written, from offset o on.
Announced(q, r, size, o) ==
  /\ q # <<>> /\ q[Len(q)].offset = o /\ q[Len(q)].frame = Len(r)
  /\ size = o + 1 + r[Len(r)].size

-----------------------------------------------------------------------------
(* The inductive invariant. *)

Stream == rawFile \o rawBuffer

\* What the calls made so far have left in the buffers.
Buffers ==
  /\ ~opened => plan = <<>> /\ rawBuffer = <<>> /\ indexBuffer = <<>>
  /\ plan \in HalfFlushed => rawBuffer = <<>>
  /\ plan \in {<<"closed">>, <<"truncateIndex">>} => rawBuffer = <<>> /\ indexBuffer = <<>>
  /\ plan = <<"truncateIndex">> => rawFile = <<>> /\ rawSize = 0

\* A frame is two calls of Write, so a flush never comes between them.
Pace ==
  opened => writes % 2 = (IF plan \in {<<"data">>, <<"data", "entry">>} THEN 1 ELSE 0)

\* The units of the frame in work that are in the stream.
Begun(p, r) ==
  IF p \in {<<"data">>, <<"data", "entry">>} THEN 1
  ELSE IF p \in {<<"entry">>, <<"flushRaw", "flushIndex", "entry">>, <<"flushIndex", "entry">>}
  THEN 1 + r[Len(r)].size
  ELSE 0

\* Every entry but that of the frame in work has its frame in the stream, and
\* the offset that is counted is where the stream ends or will end.
LaidOut(p, s, r, q, size) ==
  IF p \in Ahead
  THEN \E o \in 0..size :
         /\ Announced(q, r, size, o)
         /\ EndsWith(s, r, o, Begun(p, r))
         /\ \A k \in 1..(Len(q) - 1) : Holds(s, r, q[k])
  ELSE EndsWith(s, r, size, Begun(p, r)) /\ AllHeld(s, r, q)

Layout == opened /\ ~mixed => LaidOut(plan, Stream, recorded, indexBuffer, rawSize)

InWork ==
  plan \in Ahead \cup Behind \cup {<<"entry", "header", "data">>}
             \cup {<<"flushRaw", "flushIndex", "entry">>, <<"flushIndex", "entry">>}
    => recorded # <<>>

FilesCovered == ~mixed => AllHeld(rawFile, recorded, indexFile)

DatInv ==
  WriterTypeOK /\ Buffers /\ Pace /\ InWork /\ Layout /\ FilesCovered

-----------------------------------------------------------------------------
(* Sequences. *)

LEMMA Concat ==
  ASSUME NEW S, NEW s \in Seq(S), NEW t \in Seq(S)
  PROVE  /\ s \o t \in Seq(S) /\ Len(s \o t) = Len(s) + Len(t)
         /\ \A i \in 1..Len(s) : (s \o t)[i] = s[i]
         /\ \A i \in 1..Len(t) : (s \o t)[Len(s) + i] = t[i]
OBVIOUS

LEMMA Associative ==
  ASSUME NEW S, NEW s \in Seq(S), NEW t \in Seq(S), NEW u \in Seq(S)
  PROVE  (s \o t) \o u = s \o (t \o u)
BY ConcatAssociative, SMTT(60)

\* What a stream writes out of its buffer stays where it was.
LEMMA Spilt ==
  ASSUME NEW S, NEW s \in Seq(S), NEW t \in Seq(S), NEW k \in 1..Len(t)
  PROVE  /\ (s \o SubSeq(t, 1, k)) \o SubSeq(t, k + 1, Len(t)) = s \o t
         /\ SubSeq(t, 1, k) \in Seq(S) /\ SubSeq(t, k + 1, Len(t)) \in Seq(S)
<1> DEFINE a == SubSeq(t, 1, k)
           b == SubSeq(t, k + 1, Len(t))
<1>1. a \o b = t
  BY ConcatAdjacentSubSeq, SubSeqFull
<1>2. a \in Seq(S) /\ b \in Seq(S)
  BY SubSeqProperties
<1> HIDE DEF a, b
<1>3. (s \o a) \o b = s \o (a \o b)
  BY <1>2, Associative, SMTT(60)
<1>4. (s \o a) \o b = s \o t
  BY <1>1, <1>3, Zenon
<1> QED
  BY <1>2, <1>4 DEF a, b

LEMMA Pairs ==
  ASSUME NEW S, NEW x \in S, NEW y \in S, NEW z \in S
  PROVE  <<x, y>> \o <<>> = <<x, y>> /\ <<x, y>> \o <<z>> = <<x, y, z>>
<1> DEFINE a == <<x, y>>
<1>1. a \in Seq(S) /\ <<x, y, z>> = Append(a, z)
  OBVIOUS
<1>2. Append(a, z) = a \o <<z>>
  BY <1>1, AppendIsConcat, SMTT(30)
<1>3. <<x, y>> \o <<>> = <<x, y>>
  OBVIOUS
<1> QED
  BY <1>1, <1>2, <1>3

\* The calls of a flush before those that are left.
LEMMA FlushPlans ==
  /\ FlushCalls \o <<>> = <<"flushRaw", "flushIndex">>
  /\ FlushCalls \o <<"entry">> = <<"flushRaw", "flushIndex", "entry">>
  /\ FlushCalls \o <<"closed">> = <<"flushRaw", "flushIndex", "closed">>
<1> DEFINE S == {"flushRaw", "flushIndex", "entry", "closed"}
<1>1. "flushRaw" \in S /\ "flushIndex" \in S /\ "entry" \in S /\ "closed" \in S
  OBVIOUS
<1> HIDE DEF S
<1> QED
  BY <1>1, Pairs DEF FlushCalls

-----------------------------------------------------------------------------
(* What stands in a stream stays when the stream or the recording grows. *)

LEMMA RecordFields ==
  ASSUME NEW r \in Seq(Records), NEW n \in DOMAIN r
  PROVE  r[n].size \in Nat /\ r[n].time \in Nat /\ n \in Nat /\ n <= Len(r)
<1>1. r[n] \in Records
  OBVIOUS
<1> QED
  BY <1>1 DEF Records

LEMMA HoldsOn ==
  ASSUME NEW s \in Seq(Unit), NEW t \in Seq(Unit), NEW r \in Seq(Records), NEW e \in Entries,
         Holds(s, r, e)
  PROVE  Holds(s \o t, r, e)
<1>1. e.offset \in Nat /\ r[e.frame].size \in Nat
  BY RecordFields DEF Holds, Entries
<1>2. Len(s \o t) >= Len(s) /\ \A i \in 1..Len(s) : (s \o t)[i] = s[i]
  OBVIOUS
<1>3. \A i \in 1..(1 + r[e.frame].size) : e.offset + i \in 1..Len(s)
  BY <1>1 DEF Holds
<1>4. Stands(s \o t, e.offset, e.frame, 1 + r[e.frame].size)
  BY <1>2, <1>3 DEF Holds, Stands
<1>5. e.offset + 1 + r[e.frame].size <= Len(s \o t)
  BY <1>1, <1>2 DEF Holds
<1> QED
  BY <1>4, <1>5 DEF Holds

LEMMA HoldsRecorded ==
  ASSUME NEW s, NEW r \in Seq(Records), NEW x \in Records, NEW e \in Entries, Holds(s, r, e)
  PROVE  Holds(s, Append(r, x), e)
<1>1. e.frame \in DOMAIN Append(r, x) /\ Append(r, x)[e.frame] = r[e.frame]
  BY DEF Holds
<1> QED
  BY <1>1 DEF Holds

\* The entry of a frame that is complete.
LEMMA HoldsComplete ==
  ASSUME NEW s \in Seq(Unit), NEW r \in Seq(Records), r # <<>>, NEW e \in Entries,
         e.frame = Len(r), EndsWith(s, r, e.offset, 1 + r[Len(r)].size)
  PROVE  Holds(s, r, e)
<1>1. Len(r) \in DOMAIN r
  OBVIOUS
<1>2. r[Len(r)].size \in Nat /\ e.offset \in Nat
  BY <1>1, RecordFields DEF Entries
<1> QED
  BY <1>1, <1>2 DEF Holds, EndsWith

\* A frame leads to itself.
LEMMA HoldsFound ==
  ASSUME rawFile \in Seq(Unit), recorded \in Seq(Records), NEW e \in Entries,
         Holds(rawFile, recorded, e)
  PROVE  Found(e.offset) = e.frame
<1> DEFINE n == e.frame
           size == recorded[n].size
<1>1. e.offset \in Nat /\ size \in Nat /\ n \in Nat /\ n \in DOMAIN recorded
  BY RecordFields DEF Holds, Entries
<1>2. e.offset + 1 + size <= Len(rawFile)
  BY DEF Holds
<1>3. rawFile[e.offset + 1] = <<n, 0>>
  BY <1>1 DEF Holds, Stands
<1>4. \A i \in 1..size : rawFile[(e.offset + 1) + i] = <<n, i>>
  <2> SUFFICES ASSUME NEW i \in 1..size PROVE rawFile[(e.offset + 1) + i] = <<n, i>>
    OBVIOUS
  <2>1. i + 1 \in 1..(1 + size)
    BY <1>1
  <2>2. \A j \in 1..(1 + size) : rawFile[e.offset + j] = <<n, j - 1>>
    BY DEF Holds, Stands
  <2>3. rawFile[e.offset + (i + 1)] = <<n, (i + 1) - 1>>
    BY <2>1, <2>2
  <2>4. e.offset + (i + 1) = (e.offset + 1) + i /\ (i + 1) - 1 = i
    BY <1>1
  <2> QED
    BY <2>3, <2>4
<1>5. SubSeq(rawFile, e.offset + 2, e.offset + 1 + size) = [i \in 1..size |-> <<n, i>>]
  <2> DEFINE s == SubSeq(rawFile, e.offset + 2, e.offset + 1 + size)
             f == [i \in 1..size |-> <<n, i>>]
  <2>1. \A i \in (e.offset + 2)..(e.offset + 1 + size) : rawFile[i] \in Unit
    BY <1>1, <1>2
  <2>2. s \in Seq(Unit) /\ Len(s) = size /\ \A i \in 1..size : s[i] = rawFile[(e.offset + 1) + i]
    <3>1. PICK o \in Nat, z \in Nat : o = e.offset /\ z = size
      BY <1>1
    <3>2. PICK a \in Int, b \in Int : a = o + 2 /\ b = o + 1 + z
      OBVIOUS
    <3> HIDE DEF size
    <3>3. /\ SubSeq(rawFile, a, b) \in Seq(Unit)
          /\ Len(SubSeq(rawFile, a, b)) = IF a <= b THEN b - a + 1 ELSE 0
          /\ \A i \in 1..(b - a + 1) : SubSeq(rawFile, a, b)[i] = rawFile[a + i - 1]
      <4>1. \A i \in a..b : rawFile[i] \in Unit
        BY <2>1, <3>1, <3>2
      <4> QED
        BY <4>1, SubSeqProperties, SMTT(30)
    <3>4. b - a + 1 = z /\ (a <= b <=> z > 0)
      BY <3>2
    <3>5. \A i \in 1..z : a + i - 1 = (o + 1) + i
      BY <3>2
    <3>6. Len(SubSeq(rawFile, a, b)) = z
      BY <3>3, <3>4
    <3>7. \A i \in 1..z : SubSeq(rawFile, a, b)[i] = rawFile[(o + 1) + i]
      BY <3>3, <3>4, <3>5
    <3>8. s = SubSeq(rawFile, a, b)
      BY <3>1, <3>2
    <3> QED
      BY <3>1, <3>3, <3>6, <3>7, <3>8
  <2>3. f \in Seq(Unit) /\ Len(f) = size
    <3>1. \A i \in 1..size : <<n, i>> \in Unit
      BY <1>1 DEF Unit
    <3> QED
      BY <1>1, <3>1
  <2>4. \A i \in 1..size : s[i] = f[i]
    BY <1>4, <2>2
  <2> HIDE DEF s, f
  <2>5. s = f
    BY <2>2, <2>3, <2>4, SeqEqual
  <2> QED
    BY <2>5 DEF s, f
<1>6. Units(n, "data") = [i \in 1..size |-> <<n, i>>]
  BY DEF Units
<1> HIDE DEF size, n
<1>7. ~(e.offset >= Len(rawFile)) /\ ~(e.offset + 1 + size > Len(rawFile))
  BY <1>1, <1>2
<1>8. rawFile[e.offset + 1][1] = n /\ rawFile[e.offset + 1][2] = 0
  BY <1>3
<1>9. recorded[n].size = size
  BY DEF size, n
<1>10. Found(e.offset) = n
  BY <1>5, <1>6, <1>7, <1>8, <1>9 DEF Found
<1> QED
  BY <1>10 DEF n

-----------------------------------------------------------------------------
(* The plans. *)

LEMMA PlanSteps ==
  ASSUME NEW p \in Plans, p # <<>>
  PROVE  /\ Head(p) = "truncateIndex" => p = <<"truncateIndex">> /\ Tail(p) = <<>>
         /\ Head(p) = "closed" => p = <<"closed">>
         /\ Head(p) = "entry" =>
              \/ p = <<"entry", "header", "data">> /\ Tail(p) = <<"header", "data">>
              \/ p = <<"entry">> /\ Tail(p) = <<>>
         /\ Head(p) = "header" =>
              \/ p = <<"header", "data">> /\ Tail(p) = <<"data">>
              \/ p = <<"header", "data", "entry">> /\ Tail(p) = <<"data", "entry">>
         /\ Head(p) = "data" =>
              \/ p = <<"data">> /\ Tail(p) = <<>>
              \/ p = <<"data", "entry">> /\ Tail(p) = <<"entry">>
         /\ Head(p) = "flushRaw" =>
              \/ p = <<"flushRaw", "flushIndex">> /\ Tail(p) = <<"flushIndex">>
              \/ p = <<"flushRaw", "flushIndex", "entry">> /\ Tail(p) = <<"flushIndex", "entry">>
              \/ p = <<"flushRaw", "flushIndex", "closed">> /\ Tail(p) = <<"flushIndex", "closed">>
         /\ Head(p) = "flushIndex" =>
              \/ p = <<"flushIndex">> /\ Tail(p) = <<>>
              \/ p = <<"flushIndex", "entry">> /\ Tail(p) = <<"entry">>
              \/ p = <<"flushIndex", "closed">> /\ Tail(p) = <<"closed">>
<1>1. /\ Head(<<"truncateIndex">>) = "truncateIndex" /\ Tail(<<"truncateIndex">>) = <<>>
      /\ Head(<<"closed">>) = "closed"
  OBVIOUS
<1>2. /\ Head(<<"entry", "header", "data">>) = "entry"
      /\ Tail(<<"entry", "header", "data">>) = <<"header", "data">>
      /\ Head(<<"entry">>) = "entry" /\ Tail(<<"entry">>) = <<>>
  OBVIOUS
<1>3. /\ Head(<<"header", "data">>) = "header" /\ Tail(<<"header", "data">>) = <<"data">>
      /\ Head(<<"header", "data", "entry">>) = "header"
      /\ Tail(<<"header", "data", "entry">>) = <<"data", "entry">>
  OBVIOUS
<1>4. /\ Head(<<"data">>) = "data" /\ Tail(<<"data">>) = <<>>
      /\ Head(<<"data", "entry">>) = "data" /\ Tail(<<"data", "entry">>) = <<"entry">>
  OBVIOUS
<1>5. /\ Head(<<"flushRaw", "flushIndex">>) = "flushRaw"
      /\ Tail(<<"flushRaw", "flushIndex">>) = <<"flushIndex">>
      /\ Head(<<"flushRaw", "flushIndex", "entry">>) = "flushRaw"
      /\ Tail(<<"flushRaw", "flushIndex", "entry">>) = <<"flushIndex", "entry">>
      /\ Head(<<"flushRaw", "flushIndex", "closed">>) = "flushRaw"
      /\ Tail(<<"flushRaw", "flushIndex", "closed">>) = <<"flushIndex", "closed">>
  OBVIOUS
<1>6. /\ Head(<<"flushIndex">>) = "flushIndex" /\ Tail(<<"flushIndex">>) = <<>>
      /\ Head(<<"flushIndex", "entry">>) = "flushIndex"
      /\ Tail(<<"flushIndex", "entry">>) = <<"entry">>
      /\ Head(<<"flushIndex", "closed">>) = "flushIndex"
      /\ Tail(<<"flushIndex", "closed">>) = <<"closed">>
  OBVIOUS
<1> USE DEF Plans, Ahead, Behind, Flushing, HalfFlushed
<1>7. CASE p \in {<<"truncateIndex">>, <<"closed">>}
  BY <1>1, <1>7
<1>8. CASE p \in {<<"entry", "header", "data">>, <<"entry">>}
  BY <1>2, <1>8
<1>9. CASE p \in {<<"header", "data">>, <<"header", "data", "entry">>}
  BY <1>3, <1>9
<1>10. CASE p \in {<<"data">>, <<"data", "entry">>}
  BY <1>4, <1>10
<1>11. CASE p \in Flushing
  BY <1>5, <1>11
<1>12. CASE p \in HalfFlushed
  BY <1>6, <1>12
<1> QED
  BY <1>7, <1>8, <1>9, <1>10, <1>11, <1>12

\* The plans are all different.
LEMMA PlansDiffer ==
  /\ <<"header", "data">> # <<"header", "data", "entry">>
  /\ <<"header", "data">> # <<"data">> /\ <<"data">> # <<"data", "entry">>
  /\ \A x : <<x>> \notin Flushing /\ <<>> # <<x>>
  /\ Ahead \cap (Behind \cup Flushing \cup HalfFlushed) = {}
  /\ Behind \cap (Flushing \cup HalfFlushed) = {}
  /\ Flushing \cap HalfFlushed = {}
  /\ \A p \in Ahead \cup Behind \cup Flushing \cup HalfFlushed :
       p \notin {<<>>, <<"truncateIndex">>, <<"entry", "header", "data">>, <<"closed">>}
  /\ <<"entry">> \notin {<<>>, <<"truncateIndex">>, <<"entry", "header", "data">>, <<"closed">>}
BY DEF Ahead, Behind, Flushing, HalfFlushed

LEMMA StreamTyped == WriterTypeOK => Stream \in Seq(Unit) /\ Len(Stream) = Len(rawFile) + Len(rawBuffer)
BY Concat DEF WriterTypeOK, Stream

-----------------------------------------------------------------------------
(* One lemma for each step of the writer. *)

LEMMA LaidOutEmpty ==
  ASSUME NEW r, NEW p \in {<<>>, <<"truncateIndex">>}
  PROVE  LaidOut(p, <<>> \o <<>>, r, <<>>, 0)
<1>1. Len(<<>> \o <<>>) = 0
  OBVIOUS
<1>2. p \notin Ahead /\ Begun(p, r) = 0
  BY DEF Ahead, Begun
<1> QED
  BY <1>1, <1>2 DEF LaidOut, EndsWith, Stands, AllHeld

LEMMA OpenFilesInv == DatInv /\ OpenFiles => DatInv'
<1> SUFFICES ASSUME DatInv, OpenFiles PROVE DatInv'
  OBVIOUS
<1> USE DEF DatInv
<1>1. /\ plan' \in {<<>>, <<"truncateIndex">>} /\ opened' = TRUE /\ rawSize' = 0 /\ writes' = 0
      /\ rawBuffer' = <<>> /\ indexBuffer' = <<>> /\ UNCHANGED <<recorded, indexFile>>
  BY DEF OpenFiles, Buffers
<1>2. WriterTypeOK'
  <2>1. <<>> \in Seq(Unit) /\ <<>> \in Seq(Entries)
    OBVIOUS
  <2>2. rawFile' \in Seq(Unit)
    BY <2>1 DEF OpenFiles, WriterTypeOK
  <2>3. mixed' \in BOOLEAN
    <3>1. (mixed \/ rawFile # <<>>) \in BOOLEAN /\ (indexFile # <<>>) \in BOOLEAN
      OBVIOUS
    <3> QED
      BY <3>1, Zenon DEF OpenFiles
  <2> QED
    BY <1>1, <2>1, <2>2, <2>3 DEF WriterTypeOK, Plans
<1>3. Buffers'
  <2>1. plan' \notin HalfFlushed
    BY <1>1 DEF HalfFlushed
  <2>2. plan' = <<"truncateIndex">> => rawFile' = <<>>
    BY DEF OpenFiles
  <2> QED
    BY <1>1, <2>1, <2>2 DEF Buffers
<1>4. Pace' /\ InWork'
  BY <1>1 DEF Pace, InWork, Ahead, Behind
<1>5. Layout'
  <2>1. ~mixed' => rawFile' = <<>>
    BY DEF OpenFiles, WriterTypeOK
  <2> QED
    BY <1>1, <2>1, LaidOutEmpty DEF Layout, Stream
<1>6. FilesCovered'
  <2>1. CASE UNCHANGED rawFile /\ (~mixed' => ~mixed)
    BY <1>1, <2>1 DEF OpenFiles, FilesCovered
  <2>2. CASE ~mixed' => indexFile = <<>>
    BY <1>1, <2>2 DEF FilesCovered, AllHeld
  <2> QED
    BY <2>1, <2>2 DEF OpenFiles, WriterTypeOK
<1> QED
  BY <1>2, <1>3, <1>4, <1>5, <1>6

LEMMA TruncateIndexInv == DatInv /\ TruncateIndex => DatInv'
<1> SUFFICES ASSUME DatInv, TruncateIndex PROVE DatInv'
  OBVIOUS
<1> USE DEF DatInv
<1>1. plan = <<"truncateIndex">> /\ plan' = <<>>
  BY PlanSteps DEF TruncateIndex, WriterTypeOK
<1>2. /\ UNCHANGED <<rawFile, opened, rawBuffer, indexBuffer, rawSize, writes, recorded>>
      /\ indexFile' = <<>> /\ mixed' = FALSE
  BY DEF TruncateIndex
<1>3. rawFile = <<>> /\ rawBuffer = <<>> /\ indexBuffer = <<>> /\ rawSize = 0
  BY <1>1 DEF Buffers
<1>4. WriterTypeOK'
  <2>1. <<>> \in Seq(Entries)
    OBVIOUS
  <2> QED
    BY <1>1, <1>2, <2>1 DEF WriterTypeOK, Plans
<1>5. Buffers' /\ Pace' /\ InWork'
  BY <1>1, <1>2, <1>3 DEF Buffers, Pace, InWork, Ahead, Behind, HalfFlushed
<1>6. Layout' /\ FilesCovered'
  BY <1>1, <1>2, <1>3, LaidOutEmpty DEF Layout, Stream, FilesCovered, AllHeld
<1> QED
  BY <1>4, <1>5, <1>6

\* The writer is closed or killed.
LEMMA ClosingInv == DatInv /\ (Closed \/ Kill) => DatInv'
<1> SUFFICES ASSUME DatInv, Closed \/ Kill PROVE DatInv'
  OBVIOUS
<1> USE DEF DatInv
<1>1. /\ opened' = FALSE /\ plan' = <<>> /\ rawBuffer' = <<>> /\ indexBuffer' = <<>>
      /\ UNCHANGED <<rawFile, indexFile, rawSize, writes, recorded, mixed>>
  <2>1. CASE Closed
    <3>1. plan = <<"closed">>
      BY <2>1, PlanSteps DEF Closed, WriterTypeOK
    <3> QED
      BY <2>1, <3>1 DEF Closed, Buffers, fileVars, recordVars
  <2>2. CASE Kill
    BY <2>2 DEF Kill, fileVars, recordVars
  <2> QED
    BY <2>1, <2>2
<1>2. WriterTypeOK'
  <2>1. <<>> \in Seq(Entries) /\ <<>> \in Seq(Unit)
    OBVIOUS
  <2> QED
    BY <1>1, <2>1 DEF WriterTypeOK, Plans
<1>3. Buffers' /\ Pace' /\ InWork' /\ Layout'
  BY <1>1 DEF Buffers, Pace, InWork, Layout, Ahead, Behind, HalfFlushed
<1>4. FilesCovered'
  BY <1>1 DEF FilesCovered
<1> QED
  BY <1>2, <1>3, <1>4

LEMMA CloseInv == DatInv /\ Close => DatInv'
<1> SUFFICES ASSUME DatInv, Close PROVE DatInv'
  OBVIOUS
<1> USE DEF DatInv
<1>1. plan = <<>> /\ plan' = <<"flushRaw", "flushIndex", "closed">>
  BY FlushPlans DEF Close
<1>2. /\ UNCHANGED <<opened, rawBuffer, indexBuffer, rawFile, indexFile, rawSize, writes>>
      /\ UNCHANGED <<recorded, mixed>> /\ opened
  BY DEF Close, fileVars, recordVars
<1>3. WriterTypeOK'
  BY <1>1, <1>2 DEF WriterTypeOK, Plans, Flushing
<1>4. plan' \notin Ahead \cup HalfFlushed /\ plan \notin Ahead
  BY <1>1 DEF Ahead, HalfFlushed
<1>5. Buffers' /\ Pace' /\ InWork'
  BY <1>1, <1>2, <1>4 DEF Buffers, Pace, InWork, Behind
<1>6. Begun(plan', recorded) = 0 /\ Begun(plan, recorded) = 0
  BY <1>1 DEF Begun
<1>7. Layout' /\ FilesCovered'
  BY <1>2, <1>4, <1>6 DEF Layout, LaidOut, FilesCovered, Stream
<1> QED
  BY <1>3, <1>5, <1>7

LEMMA RecordInv ==
  ASSUME DatInv, NEW time \in Times, NEW size \in Sizes, Record(time, size)
  PROVE  DatInv'
<1> USE DEF DatInv
<1> DEFINE x == [time |-> time, size |-> size]
<1>1. /\ plan = <<>> /\ opened
      /\ plan' \in {<<"entry", "header", "data">>, <<"header", "data", "entry">>}
      /\ recorded' = Append(recorded, x)
      /\ UNCHANGED <<opened, rawBuffer, indexBuffer, rawFile, indexFile, rawSize, writes, mixed>>
  BY DEF Record, fileVars
<1>2. x \in Records
  BY TimesAssumption DEF Records
<1> HIDE DEF x
<1>3. WriterTypeOK'
  <2>1. recorded' \in Seq(Records)
    BY <1>1, <1>2 DEF WriterTypeOK
  <2> QED
    BY <1>1, <2>1 DEF WriterTypeOK, Plans, Behind
<1>4. plan' \notin Ahead \cup HalfFlushed /\ plan \notin Ahead
  BY <1>1, PlansDiffer DEF Ahead, HalfFlushed
<1>5. Buffers' /\ Pace'
  BY <1>1, <1>4 DEF Buffers, Pace
<1>6. InWork'
  <2>1. Len(recorded') = Len(recorded) + 1 /\ Len(recorded) \in Nat
    BY <1>1, <1>2 DEF WriterTypeOK
  <2>2. recorded' # <<>>
    BY <2>1
  <2> QED
    BY <2>2 DEF InWork
<1>7. \A s : \A q \in Seq(Entries) : AllHeld(s, recorded, q) => AllHeld(s, recorded', q)
  <2> SUFFICES ASSUME NEW s, NEW q \in Seq(Entries), AllHeld(s, recorded, q), NEW k \in DOMAIN q
               PROVE  Holds(s, recorded', q[k])
    BY DEF AllHeld
  <2>1. q[k] \in Entries /\ Holds(s, recorded, q[k])
    BY DEF AllHeld
  <2> QED
    BY <1>1, <1>2, <2>1, HoldsRecorded DEF WriterTypeOK
<1>8. Layout'
  <2>1. Begun(plan, recorded) = 0 /\ Begun(plan', recorded') = 0
    BY <1>1 DEF Begun
  <2>2. EndsWith(Stream, recorded, rawSize, 0) => EndsWith(Stream, recorded', rawSize, 0)
    BY DEF EndsWith, Stands
  <2>3. UNCHANGED Stream
    BY <1>1 DEF Stream
  <2>4. indexBuffer \in Seq(Entries)
    BY DEF WriterTypeOK
  <2> QED
    BY <1>1, <1>4, <1>7, <2>1, <2>2, <2>3, <2>4 DEF Layout, LaidOut
<1>9. FilesCovered'
  BY <1>1, <1>7 DEF FilesCovered, WriterTypeOK
<1> QED
  BY <1>3, <1>5, <1>6, <1>8, <1>9

\* SaveMetaData before its frame, and after it.
LEMMA SaveMetaDataInv == DatInv /\ SaveMetaData => DatInv'
<1> SUFFICES ASSUME DatInv, SaveMetaData PROVE DatInv'
  OBVIOUS
<1> USE DEF DatInv
<1>1. \/ plan = <<"entry", "header", "data">> /\ plan' = <<"header", "data">>
      \/ plan = <<"entry">> /\ plan' = <<>>
  BY PlanSteps DEF SaveMetaData, WriterTypeOK
<1>2. UNCHANGED <<rawFile, indexFile, opened, rawBuffer, writes, recorded, mixed>>
  BY DEF SaveMetaData, fileVars, recordVars
<1>3. recorded # <<>> /\ Len(recorded) \in DOMAIN recorded
  BY <1>1 DEF InWork, Behind, WriterTypeOK
<1>4. PICK n \in Nat, size \in Nat : n = Len(recorded) /\ size = recorded[n].size
  BY <1>3, RecordFields DEF WriterTypeOK
<1>5. PICK e \in Entries :
        /\ indexBuffer' = Append(indexBuffer, e)
        /\ e.offset = rawSize /\ e.frame = n /\ rawSize' = rawSize + 1 + size
  <2>1. Entry(recorded[n].time, rawSize, n) \in Entries
    BY <1>3, <1>4, RecordFields DEF Entry, Entries, WriterTypeOK
  <2>2. /\ Entry(recorded[n].time, rawSize, n).offset = rawSize
        /\ Entry(recorded[n].time, rawSize, n).frame = n
    BY DEF Entry
  <2> QED
    BY <1>4, <2>1, <2>2 DEF SaveMetaData, current
<1>6. WriterTypeOK'
  <2>1. plan' \in Plans
    BY <1>1 DEF Plans, Ahead
  <2>2. indexBuffer' \in Seq(Entries) /\ rawSize' \in Nat
    BY <1>5 DEF WriterTypeOK
  <2> QED
    BY <1>2, <2>1, <2>2 DEF WriterTypeOK
<1>7. /\ indexBuffer' # <<>> /\ Len(indexBuffer') = Len(indexBuffer) + 1
      /\ indexBuffer'[Len(indexBuffer')] = e
      /\ \A k \in DOMAIN indexBuffer : indexBuffer'[k] = indexBuffer[k]
      /\ Len(indexBuffer) \in Nat
      /\ DOMAIN indexBuffer = 1..Len(indexBuffer) /\ DOMAIN indexBuffer' = 1..(Len(indexBuffer) + 1)
  <2>1. indexBuffer \in Seq(Entries)
    BY DEF WriterTypeOK
  <2>2. Len(indexBuffer') = Len(indexBuffer) + 1 /\ Len(indexBuffer) \in Nat
    BY <1>5, <2>1
  <2>3. /\ DOMAIN indexBuffer = 1..Len(indexBuffer)
        /\ DOMAIN indexBuffer' = 1..(Len(indexBuffer) + 1)
    BY <1>5, <2>1
  <2>4. indexBuffer'[Len(indexBuffer) + 1] = e
    BY <1>5, <2>1
  <2>5. \A k \in DOMAIN indexBuffer : indexBuffer'[k] = indexBuffer[k]
    BY <1>5, <2>1
  <2>6. indexBuffer' # <<>>
    BY <2>2
  <2> QED
    BY <2>2, <2>3, <2>4, <2>5, <2>6
<1>8. opened /\ opened'
  BY <1>1, <1>2 DEF Buffers
<1>9. Buffers' /\ Pace' /\ InWork'
  BY <1>1, <1>2, <1>3, <1>8 DEF Buffers, Pace, InWork, HalfFlushed
<1>10. UNCHANGED Stream
  BY <1>2 DEF Stream
<1>11. Layout'
  <2> SUFFICES ASSUME ~mixed
               PROVE  LaidOut(plan', Stream, recorded, indexBuffer', rawSize')
    BY <1>2, <1>10 DEF Layout
  <2>1. LaidOut(plan, Stream, recorded, indexBuffer, rawSize)
    BY <1>8 DEF Layout
  <2>2. CASE plan = <<"entry", "header", "data">>
    <3>1. plan \notin Ahead /\ plan' \in Ahead /\ Begun(plan, recorded) = 0 /\ Begun(plan', recorded) = 0
      BY <1>1, <2>2 DEF Ahead, Begun
    <3>2. EndsWith(Stream, recorded, rawSize, 0) /\ AllHeld(Stream, recorded, indexBuffer)
      BY <2>1, <3>1 DEF LaidOut
    <3>3. Announced(indexBuffer', recorded, rawSize', rawSize)
      BY <1>4, <1>5, <1>7 DEF Announced
    <3>4. \A k \in 1..(Len(indexBuffer') - 1) : Holds(Stream, recorded, indexBuffer'[k])
      BY <1>7, <3>2 DEF AllHeld
    <3>5. rawSize \in 0..rawSize'
      BY <1>5 DEF WriterTypeOK
    <3> QED
      BY <3>1, <3>2, <3>3, <3>4, <3>5 DEF LaidOut
  <2>3. CASE plan = <<"entry">>
    <3>1. /\ plan \notin Ahead /\ plan' \notin Ahead
          /\ Begun(plan, recorded) = 1 + size /\ Begun(plan', recorded) = 0
      BY <1>1, <1>4, <2>3 DEF Ahead, Begun
    <3>2. EndsWith(Stream, recorded, rawSize, 1 + size) /\ AllHeld(Stream, recorded, indexBuffer)
      BY <2>1, <3>1 DEF LaidOut
    <3>3. Holds(Stream, recorded, e)
      BY <1>3, <1>4, <1>5, <3>2, HoldsComplete, StreamTyped DEF WriterTypeOK
    <3>4. AllHeld(Stream, recorded, indexBuffer')
      BY <1>7, <3>2, <3>3 DEF AllHeld
    <3>5. EndsWith(Stream, recorded, rawSize', 0)
      BY <1>5, <3>2 DEF EndsWith, Stands, WriterTypeOK
    <3> QED
      BY <3>1, <3>4, <3>5 DEF LaidOut
  <2> QED
    BY <1>1, <2>2, <2>3
<1>12. FilesCovered'
  BY <1>2 DEF FilesCovered
<1> QED
  BY <1>6, <1>9, <1>11, <1>12

\* More units of the frame in work: what stood there stays.
LEMMA Growing ==
  ASSUME NEW s \in Seq(Unit), NEW r \in Seq(Records), NEW o \in Nat, NEW u \in Nat,
         NEW t \in Seq(Unit), EndsWith(s, r, o, u),
         \A i \in 1..Len(t) : t[i] = <<Len(r), u + i - 1>>
  PROVE  EndsWith(s \o t, r, o, u + Len(t))
<1>1. /\ Len(s \o t) = Len(s) + Len(t) /\ Len(s) = o + u /\ Len(t) \in Nat
      /\ \A i \in 1..Len(s) : (s \o t)[i] = s[i]
      /\ \A i \in 1..Len(t) : (s \o t)[Len(s) + i] = t[i]
  <2>1. Len(s) = o + u
    BY DEF EndsWith
  <2>2. Len(s \o t) = Len(s) + Len(t) /\ Len(t) \in Nat
    OBVIOUS
  <2>3. \A i \in 1..Len(s) : (s \o t)[i] = s[i]
    OBVIOUS
  <2>4. \A i \in 1..Len(t) : (s \o t)[Len(s) + i] = t[i]
    OBVIOUS
  <2> QED
    BY <2>1, <2>2, <2>3, <2>4
<1>2. ASSUME NEW i \in 1..(u + Len(t)) PROVE (s \o t)[o + i] = <<Len(r), i - 1>>
  <2>1. CASE i <= u
    <3>1. i \in 1..u /\ o + i \in 1..Len(s)
      BY <1>1, <2>1
    <3> QED
      BY <1>1, <3>1 DEF EndsWith, Stands
  <2>2. CASE i > u
    <3>1. PICK j \in 1..Len(t) : i = u + j
      <4>1. i - u \in 1..Len(t) /\ i = u + (i - u)
        BY <1>1, <2>2
      <4> QED
        BY <4>1
    <3>2. o + i = Len(s) + j /\ u + j - 1 = i - 1
      BY <1>1, <3>1
    <3>3. (s \o t)[Len(s) + j] = t[j] /\ t[j] = <<Len(r), u + j - 1>>
      BY <1>1, <3>1
    <3> QED
      BY <3>2, <3>3
  <2> QED
    BY <1>1, <2>1, <2>2
<1>3. Len(s \o t) = o + (u + Len(t))
  BY <1>1
<1>4. Stands(s \o t, o, Len(r), u + Len(t))
  BY <1>2 DEF Stands
<1> QED
  BY <1>3, <1>4 DEF EndsWith

\* Both calls of Write, as steps from one layout to the next.
LEMMA UnitsWritten ==
  ASSUME NEW r \in Seq(Records), r # <<>>
  PROVE  /\ <<<<Len(r), 0>>>> \in Seq(Unit) /\ Len(<<<<Len(r), 0>>>>) = 1
         /\ \A i \in 1..1 : <<<<Len(r), 0>>>>[i] = <<Len(r), 0 + i - 1>>
         /\ \A size \in Nat : LET t == [i \in 1..size |-> <<Len(r), i>>] IN
              /\ t \in Seq(Unit) /\ Len(t) = size
              /\ \A i \in 1..Len(t) : t[i] = <<Len(r), 1 + i - 1>>
<1>1. <<Len(r), 0>> \in Unit
  BY DEF Unit
<1>2. <<<<Len(r), 0>>>> \in Seq(Unit) /\ Len(<<<<Len(r), 0>>>>) = 1
  BY <1>1
<1>3. \A i \in 1..1 : <<<<Len(r), 0>>>>[i] = <<Len(r), 0 + i - 1>>
  <2>1. \A i \in 1..1 : i = 1
    OBVIOUS
  <2> QED
    BY <2>1
<1>4. ASSUME NEW size \in Nat
      PROVE  LET t == [i \in 1..size |-> <<Len(r), i>>] IN
               /\ t \in Seq(Unit) /\ Len(t) = size
               /\ \A i \in 1..Len(t) : t[i] = <<Len(r), 1 + i - 1>>
  <2> DEFINE t == [i \in 1..size |-> <<Len(r), i>>]
  <2>1. \A i \in 1..size : <<Len(r), i>> \in Unit
    BY DEF Unit
  <2>2. t \in Seq(Unit) /\ Len(t) = size
    BY <2>1
  <2>3. \A i \in 1..size : t[i] = <<Len(r), i>> /\ 1 + i - 1 = i
    OBVIOUS
  <2> QED
    BY <2>2, <2>3
<1> QED
  BY <1>2, <1>3, <1>4

\* Every entry that has its frame keeps it.
LEMMA HeldOn ==
  ASSUME NEW s \in Seq(Unit), NEW t \in Seq(Unit), NEW r \in Seq(Records), NEW q \in Seq(Entries)
  PROVE  \A k \in DOMAIN q : Holds(s, r, q[k]) => Holds(s \o t, r, q[k])
<1> SUFFICES ASSUME NEW k \in DOMAIN q, Holds(s, r, q[k]) PROVE Holds(s \o t, r, q[k])
  OBVIOUS
<1>1. q[k] \in Entries
  OBVIOUS
<1> QED
  BY <1>1, HoldsOn

\* What both calls of Write have in common.
LEMMA WriteSteps ==
  ASSUME DatInv, NEW part \in {"header", "data"}, Write(part), recorded # <<>>,
         Units(current, part) \in Seq(Unit)
  PROVE  /\ opened /\ UNCHANGED <<rawFile, indexFile, opened, indexBuffer, rawSize, recorded, mixed>>
         /\ Stream' = Stream \o Units(current, part)
         /\ rawBuffer' \in Seq(Unit) /\ writes' \in Nat
         /\ Stream \in Seq(Unit)
<1> USE DEF DatInv
<1>1. opened /\ UNCHANGED <<rawFile, indexFile, opened, indexBuffer, rawSize, recorded, mixed>>
  BY DEF Write, Buffers, fileVars, recordVars
<1>2. rawBuffer' = rawBuffer \o Units(current, part) /\ rawBuffer \in Seq(Unit) /\ rawFile \in Seq(Unit)
  BY DEF Write, WriterTypeOK
<1>3. rawBuffer' \in Seq(Unit)
  BY <1>2
<1>4. Stream' = Stream \o Units(current, part)
  <2>1. rawFile \o (rawBuffer \o Units(current, part)) = (rawFile \o rawBuffer) \o Units(current, part)
    BY <1>2, Associative, SMTT(60)
  <2> QED
    BY <1>1, <1>2, <2>1, Zenon DEF Stream
<1>5. writes' \in Nat
  BY DEF Write, WriterTypeOK
<1> QED
  BY <1>1, <1>3, <1>4, <1>5, StreamTyped

LEMMA WriteHeaderInv == DatInv /\ Write("header") => DatInv'
<1> SUFFICES ASSUME DatInv, Write("header") PROVE DatInv'
  OBVIOUS
<1> USE DEF DatInv
<1>1. \/ plan = <<"header", "data">> /\ Tail(plan) = <<"data">>
      \/ plan = <<"header", "data", "entry">> /\ Tail(plan) = <<"data", "entry">>
  BY PlanSteps DEF Write, WriterTypeOK
<1>2. recorded # <<>>
  BY <1>1 DEF InWork, Ahead, Behind
<1> DEFINE t == <<<<Len(recorded), 0>>>>
<1>3. /\ Units(current, "header") = t /\ t \in Seq(Unit) /\ Len(t) = 1
      /\ \A i \in 1..1 : t[i] = <<Len(recorded), 0 + i - 1>>
  BY <1>2, UnitsWritten DEF Units, current, WriterTypeOK
<1> HIDE DEF t
<1>4. /\ opened /\ UNCHANGED <<rawFile, indexFile, opened, indexBuffer, rawSize, recorded, mixed>>
      /\ Stream' = Stream \o t /\ Stream \in Seq(Unit)
      /\ rawBuffer' \in Seq(Unit) /\ writes' \in Nat
  BY <1>2, <1>3, WriteSteps
<1>5. writes' = writes + 1 /\ plan' = Tail(plan) /\ writes' % 2 = 1
  <2>1. writes % 2 = 0 /\ writes \in Nat
    BY <1>1, <1>4 DEF Pace, WriterTypeOK
  <2>2. (writes + 1) % 2 = 1
    BY <2>1
  <2>3. writes + 1 # FlushCount
    BY <2>2, FlushAssumption
  <2> QED
    BY <2>2, <2>3 DEF Write
<1>6. WriterTypeOK'
  BY <1>1, <1>4, <1>5 DEF WriterTypeOK, Plans, Ahead, Behind
<1>7. Pace'
  BY <1>1, <1>5 DEF Pace
<1>8. Buffers' /\ InWork'
  BY <1>1, <1>2, <1>4, <1>5 DEF Buffers, InWork, HalfFlushed
<1>9. Layout'
  <2> SUFFICES ASSUME ~mixed PROVE LaidOut(plan', Stream', recorded, indexBuffer, rawSize)
    BY <1>4 DEF Layout
  <2>1. LaidOut(plan, Stream, recorded, indexBuffer, rawSize)
    BY <1>4 DEF Layout
  <2>2. Begun(plan, recorded) = 0 /\ Begun(plan', recorded) = 1
    BY <1>1, <1>5 DEF Begun
  <2>3. \A o \in Nat : EndsWith(Stream, recorded, o, 0) => EndsWith(Stream', recorded, o, 1)
    <3> SUFFICES ASSUME NEW o \in Nat, EndsWith(Stream, recorded, o, 0)
                 PROVE  EndsWith(Stream', recorded, o, 0 + Len(t))
      BY <1>3
    <3> QED
      BY <1>3, <1>4, Growing DEF WriterTypeOK
  <2>4. \A k \in DOMAIN indexBuffer : Holds(Stream, recorded, indexBuffer[k])
                                        => Holds(Stream', recorded, indexBuffer[k])
    BY <1>3, <1>4, HeldOn DEF WriterTypeOK
  <2>5. /\ \A k \in 1..(Len(indexBuffer) - 1) : k \in DOMAIN indexBuffer
        /\ rawSize \in Nat /\ \A o \in 0..rawSize : o \in Nat
    BY DEF WriterTypeOK
  <2>6. plan \in Ahead <=> plan' \in Ahead
    <3>1. <<"header", "data">> \in Ahead /\ <<"data">> \in Ahead
      BY DEF Ahead
    <3>2. <<"header", "data", "entry">> \notin Ahead /\ <<"data", "entry">> \notin Ahead
      BY PlansDiffer DEF Behind
    <3> QED
      BY <1>1, <1>5, <3>1, <3>2
  <2> QED
    BY <2>1, <2>2, <2>3, <2>4, <2>5, <2>6 DEF LaidOut, AllHeld
<1>10. FilesCovered'
  BY <1>4 DEF FilesCovered
<1> QED
  BY <1>6, <1>7, <1>8, <1>9, <1>10

LEMMA WriteDataInv == DatInv /\ Write("data") => DatInv'
<1> SUFFICES ASSUME DatInv, Write("data") PROVE DatInv'
  OBVIOUS
<1> USE DEF DatInv
<1>1. \/ plan = <<"data">> /\ Tail(plan) = <<>>
      \/ plan = <<"data", "entry">> /\ Tail(plan) = <<"entry">>
  BY PlanSteps DEF Write, WriterTypeOK
<1>2. recorded # <<>> /\ Len(recorded) \in DOMAIN recorded
  BY <1>1 DEF InWork, Ahead, Behind, WriterTypeOK
<1>3. PICK size \in Nat : size = recorded[Len(recorded)].size
  BY <1>2, RecordFields DEF WriterTypeOK
<1> DEFINE t == [i \in 1..size |-> <<Len(recorded), i>>]
<1>4. /\ Units(current, "data") = t /\ t \in Seq(Unit) /\ Len(t) = size
      /\ \A i \in 1..Len(t) : t[i] = <<Len(recorded), 1 + i - 1>>
  <2>1. Units(current, "data") = t
    BY <1>3 DEF Units, current
  <2> QED
    BY <1>2, <2>1, UnitsWritten DEF WriterTypeOK
<1> HIDE DEF t
<1>5. /\ opened /\ UNCHANGED <<rawFile, indexFile, opened, indexBuffer, rawSize, recorded, mixed>>
      /\ Stream' = Stream \o t /\ Stream \in Seq(Unit)
      /\ rawBuffer' \in Seq(Unit) /\ writes' \in Nat
  BY <1>2, <1>4, WriteSteps
<1>6. /\ plan = <<"data">> => plan' \in {<<>>, <<"flushRaw", "flushIndex">>}
      /\ plan = <<"data", "entry">> =>
           plan' \in {<<"entry">>, <<"flushRaw", "flushIndex", "entry">>}
  BY <1>1, FlushPlans, PlansDiffer DEF Write
<1>7. writes' % 2 = 0
  <2>1. writes % 2 = 1 /\ writes \in Nat
    BY <1>1, <1>5 DEF Pace, WriterTypeOK
  <2>2. (writes + 1) % 2 = 0
    BY <2>1
  <2> QED
    BY <2>2 DEF Write
<1>8. WriterTypeOK'
  <2>1. plan' \in Plans
    BY <1>1, <1>6 DEF Plans, Behind, Flushing
  <2> QED
    BY <1>5, <2>1 DEF WriterTypeOK
<1>9. plan' \notin Ahead /\ plan' \notin HalfFlushed
  BY <1>1, <1>6 DEF Ahead, HalfFlushed
<1>10. Pace'
  BY <1>1, <1>6, <1>7 DEF Pace
<1>11. Buffers' /\ InWork'
  BY <1>1, <1>2, <1>5, <1>6, <1>9 DEF Buffers, InWork
<1>12. Layout'
  <2> SUFFICES ASSUME ~mixed PROVE LaidOut(plan', Stream', recorded, indexBuffer, rawSize)
    BY <1>5 DEF Layout
  <2>1. LaidOut(plan, Stream, recorded, indexBuffer, rawSize)
    BY <1>5 DEF Layout
  <2>2. Begun(plan, recorded) = 1
    BY <1>1 DEF Begun
  <2>3. \A o \in Nat : EndsWith(Stream, recorded, o, 1) => EndsWith(Stream', recorded, o, 1 + size)
    BY <1>4, <1>5, Growing DEF WriterTypeOK
  <2>4. \A k \in DOMAIN indexBuffer : Holds(Stream, recorded, indexBuffer[k])
                                        => Holds(Stream', recorded, indexBuffer[k])
    BY <1>4, <1>5, HeldOn DEF WriterTypeOK
  <2>5. CASE plan = <<"data">>
    <3>1. Begun(plan', recorded) = 0 /\ plan \in Ahead
      <4>1. Begun(<<>>, recorded) = 0
        BY DEF Begun
      <4>2. Begun(<<"flushRaw", "flushIndex">>, recorded) = 0
        BY DEF Begun
      <4>3. <<"data">> \in Ahead
        BY DEF Ahead
      <4> QED
        BY <1>6, <2>5, <4>1, <4>2, <4>3
    <3>2. PICK o \in 0..rawSize :
            /\ Announced(indexBuffer, recorded, rawSize, o)
            /\ EndsWith(Stream, recorded, o, 1)
            /\ \A k \in 1..(Len(indexBuffer) - 1) : Holds(Stream, recorded, indexBuffer[k])
      BY <2>1, <2>2, <3>1 DEF LaidOut
    <3>3. EndsWith(Stream', recorded, o, 1 + size)
      BY <2>3, <3>2 DEF WriterTypeOK
    <3>4. rawSize = o + 1 + size /\ o \in Nat
      BY <1>3, <3>2 DEF Announced, WriterTypeOK
    <3>5. EndsWith(Stream', recorded, rawSize, 0)
      BY <3>3, <3>4 DEF EndsWith, Stands
    <3>6. DOMAIN indexBuffer = 1..Len(indexBuffer) /\ Len(indexBuffer) \in DOMAIN indexBuffer
      BY <3>2 DEF Announced, WriterTypeOK
    <3>7. Holds(Stream', recorded, indexBuffer[Len(indexBuffer)])
      <4> DEFINE e == indexBuffer[Len(indexBuffer)]
      <4>1. e \in Entries /\ e.offset = o /\ e.frame = Len(recorded)
        BY <3>2, <3>6 DEF Announced, WriterTypeOK
      <4> HIDE DEF e
      <4>2. Stream' \in Seq(Unit)
        BY <1>4, <1>5
      <4>3. Holds(Stream', recorded, e)
        BY <1>2, <1>3, <3>3, <4>1, <4>2, HoldsComplete DEF WriterTypeOK
      <4> QED
        BY <4>3 DEF e
    <3>8. AllHeld(Stream', recorded, indexBuffer)
      <4>1. \A k \in DOMAIN indexBuffer : k = Len(indexBuffer) \/ k \in 1..(Len(indexBuffer) - 1)
        BY <3>6 DEF WriterTypeOK
      <4> QED
        BY <2>4, <3>2, <3>7, <4>1 DEF AllHeld
    <3> QED
      BY <1>9, <3>1, <3>5, <3>8 DEF LaidOut
  <2>6. CASE plan = <<"data", "entry">>
    <3>1. Begun(plan', recorded) = 1 + size /\ plan \notin Ahead
      BY <1>3, <1>6, <2>6 DEF Begun, Ahead
    <3>2. EndsWith(Stream, recorded, rawSize, 1) /\ AllHeld(Stream, recorded, indexBuffer)
      BY <2>1, <2>2, <3>1 DEF LaidOut
    <3>3. EndsWith(Stream', recorded, rawSize, 1 + size)
      BY <2>3, <3>2 DEF WriterTypeOK
    <3> QED
      BY <1>9, <2>4, <3>1, <3>2, <3>3 DEF LaidOut, AllHeld
  <2> QED
    BY <1>1, <2>5, <2>6
<1>13. FilesCovered'
  BY <1>5 DEF FilesCovered
<1> QED
  BY <1>8, <1>10, <1>11, <1>12, <1>13

LEMMA SpillInv == DatInv /\ Spill => DatInv'
<1> SUFFICES ASSUME DatInv, Spill PROVE DatInv'
  OBVIOUS
<1> USE DEF DatInv
<1>1. PICK k \in 1..Len(rawBuffer) :
        /\ rawFile' = rawFile \o SubSeq(rawBuffer, 1, k)
        /\ rawBuffer' = SubSeq(rawBuffer, k + 1, Len(rawBuffer))
  BY DEF Spill
<1>2. UNCHANGED <<indexFile, opened, indexBuffer, rawSize, writes, plan, recorded, mixed>>
  BY DEF Spill, recordVars
<1>3. rawFile \in Seq(Unit) /\ rawBuffer \in Seq(Unit) /\ rawBuffer # <<>>
  BY DEF WriterTypeOK
<1>4. /\ UNCHANGED Stream /\ SubSeq(rawBuffer, 1, k) \in Seq(Unit) /\ rawBuffer' \in Seq(Unit)
  <2>1. (rawFile \o SubSeq(rawBuffer, 1, k)) \o SubSeq(rawBuffer, k + 1, Len(rawBuffer))
          = rawFile \o rawBuffer
    BY <1>3, Spilt, Zenon
  <2>2. UNCHANGED Stream
    BY <1>1, <2>1, Zenon DEF Stream
  <2>3. SubSeq(rawBuffer, 1, k) \in Seq(Unit) /\ SubSeq(rawBuffer, k + 1, Len(rawBuffer)) \in Seq(Unit)
    BY <1>3, Spilt, Zenon
  <2> QED
    BY <1>1, <2>2, <2>3
<1>5. WriterTypeOK'
  <2>1. rawFile' \in Seq(Unit)
    BY <1>1, <1>3, <1>4, Concat
  <2> QED
    BY <1>2, <1>4, <2>1 DEF WriterTypeOK
<1>6. Buffers' /\ Pace' /\ InWork'
  BY <1>2, <1>3 DEF Buffers, Pace, InWork
<1>7. Layout'
  BY <1>2, <1>4 DEF Layout
<1>8. FilesCovered'
  BY <1>1, <1>2, <1>3, <1>4, HeldOn DEF FilesCovered, AllHeld, WriterTypeOK
<1> QED
  BY <1>5, <1>6, <1>7, <1>8

LEMMA FlushRawInv == DatInv /\ FlushRaw => DatInv'
<1> SUFFICES ASSUME DatInv, FlushRaw PROVE DatInv'
  OBVIOUS
<1> USE DEF DatInv
<1>1. \/ plan = <<"flushRaw", "flushIndex">> /\ plan' = <<"flushIndex">>
      \/ plan = <<"flushRaw", "flushIndex", "entry">> /\ plan' = <<"flushIndex", "entry">>
      \/ plan = <<"flushRaw", "flushIndex", "closed">> /\ plan' = <<"flushIndex", "closed">>
  BY PlanSteps DEF FlushRaw, WriterTypeOK
<1>2. /\ UNCHANGED <<indexFile, opened, indexBuffer, rawSize, writes, recorded, mixed>>
      /\ rawFile' = rawFile \o rawBuffer /\ rawBuffer' = <<>>
  BY DEF FlushRaw, recordVars
<1>3. rawFile \in Seq(Unit) /\ rawBuffer \in Seq(Unit) /\ Stream \in Seq(Unit)
  BY StreamTyped DEF WriterTypeOK
<1>4. UNCHANGED Stream
  <2>1. Stream \o <<>> = Stream
    BY <1>3, ConcatEmptySeq, SMTT(30)
  <2> QED
    BY <1>2, <2>1, Zenon DEF Stream
<1>5. plan' \in HalfFlushed /\ plan' \notin Ahead /\ plan \notin Ahead
  <2>1. plan \in Flushing /\ plan' \in HalfFlushed
    BY <1>1 DEF Flushing, HalfFlushed
  <2> QED
    BY <2>1, PlansDiffer
<1>6. WriterTypeOK'
  <2>1. <<>> \in Seq(Unit) /\ rawFile' \in Seq(Unit)
    BY <1>2, <1>3 DEF Stream
  <2> QED
    BY <1>2, <1>5, <2>1 DEF WriterTypeOK, Plans
<1>7. Buffers'
  <2>1. plan # <<>> /\ plan' \notin {<<"closed">>, <<"truncateIndex">>}
    BY <1>1
  <2> QED
    BY <1>2, <2>1 DEF Buffers
<1>8. Pace' /\ InWork'
  BY <1>1, <1>2 DEF Pace, InWork, Ahead, Behind
<1>9. Begun(plan', recorded) = Begun(plan, recorded)
  BY <1>1 DEF Begun
<1>10. Layout'
  BY <1>2, <1>4, <1>5, <1>9 DEF Layout, LaidOut
<1>11. FilesCovered'
  BY <1>2, <1>3, HeldOn DEF FilesCovered, AllHeld, WriterTypeOK
<1> QED
  BY <1>6, <1>7, <1>8, <1>10, <1>11

\* The index is written out when every frame it is about is in the file.
LEMMA FlushIndexInv == DatInv /\ FlushIndex => DatInv'
<1> SUFFICES ASSUME DatInv, FlushIndex PROVE DatInv'
  OBVIOUS
<1> USE DEF DatInv
<1>1. \/ plan = <<"flushIndex">> /\ plan' = <<>>
      \/ plan = <<"flushIndex", "entry">> /\ plan' = <<"entry">>
      \/ plan = <<"flushIndex", "closed">> /\ plan' = <<"closed">>
  BY PlanSteps DEF FlushIndex, WriterTypeOK
<1>2. /\ UNCHANGED <<rawFile, opened, rawBuffer, rawSize, writes, recorded, mixed>>
      /\ indexFile' = indexFile \o indexBuffer /\ indexBuffer' = <<>>
  BY DEF FlushIndex, recordVars
<1>3. plan \in HalfFlushed /\ plan \notin Ahead
  <2>1. plan \in HalfFlushed
    BY <1>1 DEF HalfFlushed
  <2> QED
    BY <2>1, PlansDiffer
<1>4. opened /\ rawBuffer = <<>> /\ Stream = rawFile
  <2>1. opened /\ rawBuffer = <<>>
    BY <1>1, <1>3 DEF Buffers
  <2>2. rawFile \o <<>> = rawFile
    BY ConcatEmptySeq, SMTT(30) DEF WriterTypeOK
  <2> QED
    BY <2>1, <2>2, Zenon DEF Stream
<1>5. plan' \notin Ahead /\ plan' \notin HalfFlushed
  BY <1>1, PlansDiffer DEF Ahead, HalfFlushed, Behind
<1>6. WriterTypeOK'
  <2>1. <<>> \in Seq(Entries)
    OBVIOUS
  <2>2. indexFile' \in Seq(Entries)
    BY <1>2, Concat DEF WriterTypeOK
  <2>3. plan' \in Plans
    BY <1>1 DEF Plans, Behind
  <2> QED
    BY <1>2, <2>1, <2>2, <2>3 DEF WriterTypeOK
<1>7. Buffers'
  BY <1>1, <1>2, <1>4, <1>5 DEF Buffers
<1>8. Pace' /\ InWork'
  BY <1>1, <1>2 DEF Pace, InWork, Ahead, Behind
<1>9. Begun(plan', recorded) = Begun(plan, recorded)
  <2>1. Begun(<<"flushIndex">>, recorded) = 0 /\ Begun(<<>>, recorded) = 0
    BY DEF Begun
  <2>2. Begun(<<"flushIndex", "closed">>, recorded) = 0 /\ Begun(<<"closed">>, recorded) = 0
    BY DEF Begun
  <2>3. Begun(<<"flushIndex", "entry">>, recorded) = Begun(<<"entry">>, recorded)
    BY DEF Begun
  <2> QED
    BY <1>1, <2>1, <2>2, <2>3
<1>10. UNCHANGED Stream
  BY <1>2 DEF Stream
<1>11. Layout'
  BY <1>2, <1>3, <1>5, <1>9, <1>10 DEF Layout, LaidOut, AllHeld
<1>12. FilesCovered'
  <2> SUFFICES ASSUME ~mixed PROVE AllHeld(rawFile, recorded, indexFile \o indexBuffer)
    BY <1>2 DEF FilesCovered
  <2>1. AllHeld(rawFile, recorded, indexFile) /\ AllHeld(rawFile, recorded, indexBuffer)
    BY <1>3, <1>4 DEF FilesCovered, Layout, LaidOut
  <2>2. indexFile \in Seq(Entries) /\ indexBuffer \in Seq(Entries)
    BY DEF WriterTypeOK
  <2>3. /\ DOMAIN (indexFile \o indexBuffer) = 1..(Len(indexFile) + Len(indexBuffer))
        /\ \A i \in 1..(Len(indexFile) + Len(indexBuffer)) :
             (indexFile \o indexBuffer)[i]
               = IF i <= Len(indexFile) THEN indexFile[i] ELSE indexBuffer[i - Len(indexFile)]
    BY <2>2
  <2>4. ASSUME NEW i \in 1..(Len(indexFile) + Len(indexBuffer))
        PROVE  Holds(rawFile, recorded, (indexFile \o indexBuffer)[i])
    <3>1. CASE i <= Len(indexFile)
      BY <2>1, <2>2, <2>3, <3>1 DEF AllHeld
    <3>2. CASE i > Len(indexFile)
      <4>1. i - Len(indexFile) \in DOMAIN indexBuffer
        BY <2>2, <3>2
      <4> QED
        BY <2>1, <2>2, <2>3, <3>2, <4>1 DEF AllHeld
    <3> QED
      BY <2>2, <3>1, <3>2
  <2> QED
    BY <2>3, <2>4 DEF AllHeld
<1> QED
  BY <1>6, <1>7, <1>8, <1>11, <1>12

-----------------------------------------------------------------------------
(* The theorem. *)

LEMMA InitDatInv == DatInit => DatInv
<1> SUFFICES ASSUME DatInit PROVE DatInv
  OBVIOUS
<1>1. /\ rawFile = <<>> /\ indexFile = <<>> /\ rawBuffer = <<>> /\ indexBuffer = <<>>
      /\ recorded = <<>> /\ opened = FALSE /\ mixed = FALSE
      /\ rawSize = 0 /\ writes = 0 /\ plan = <<>>
  BY DEF DatInit
<1>2. <<>> \in Seq(Unit) /\ <<>> \in Seq(Entries) /\ <<>> \in Seq(Records)
  OBVIOUS
<1>3. WriterTypeOK
  BY <1>1, <1>2 DEF WriterTypeOK, Plans
<1>4. Buffers /\ Pace /\ InWork /\ Layout /\ FilesCovered
  BY <1>1 DEF Buffers, Pace, InWork, Layout, FilesCovered, AllHeld, Ahead, Behind, HalfFlushed
<1> QED
  BY <1>3, <1>4 DEF DatInv

\* The reader and the clients of both leave the writer and the files alone.
LEMMA ReaderInv == DatInv /\ UNCHANGED datWriterVars => DatInv'
BY DEF DatInv, datWriterVars, fileVars, streamVars, recordVars, WriterTypeOK, Buffers, Pace,
       InWork, Layout, Stream, FilesCovered

LEMMA DatNextInv == DatInv /\ [DatNext]_datVars => DatInv'
<1> SUFFICES ASSUME DatInv, [DatNext]_datVars PROVE DatInv'
  OBVIOUS
<1>1. CASE DatWriter
  BY <1>1, OpenFilesInv, TruncateIndexInv, ClosingInv, CloseInv, RecordInv, SaveMetaDataInv,
     WriteHeaderInv, WriteDataInv, SpillInv, FlushRawInv, FlushIndexInv DEF DatWriter
<1>2. CASE ReaderThread \/ Stop \/ \E inf \in BOOLEAN : StartReader(inf)
  <2>1. UNCHANGED datWriterVars
    BY <1>2 DEF ReaderThread, Loop, Slot, ReadEntry, ReadClosed, EndSlot, Deliver, EndPass,
       Stop, StartReader
  <2> QED
    BY <2>1, ReaderInv
<1>3. CASE UNCHANGED datVars
  BY <1>3, ReaderInv DEF datVars
<1> QED
  BY <1>1, <1>2, <1>3 DEF DatNext

LEMMA DatInvariant == DatSpec => []DatInv
<1> QED
  BY InitDatInv, DatNextInv, PTL DEF DatSpec

\* Wherever the writer is killed, an entry of the index file leads to its
\* frame, whole, in the file of the data (DatFileWriter.cpp:40-64), unless the
\* files are of different sessions.
THEOREM IndexIsCovered == DatSpec => []IndexCovered
<1>1. DatInv => IndexCovered
  <2> SUFFICES ASSUME DatInv, ~mixed, NEW k \in DOMAIN indexFile
               PROVE  Found(indexFile[k].offset) = indexFile[k].frame
    BY DEF IndexCovered
  <2>1. indexFile[k] \in Entries /\ Holds(rawFile, recorded, indexFile[k])
    BY DEF DatInv, WriterTypeOK, FilesCovered, AllHeld
  <2> QED
    BY <2>1, HoldsFound DEF DatInv, WriterTypeOK
<1> QED
  BY <1>1, DatInvariant, PTL

-----------------------------------------------------------------------------
(* The reader: what the inductive invariant of a pass is made of. *)

\* e is the entry of a whole frame, with the time of that frame.
Good(s, r, e) == Holds(s, r, e) /\ e.time = r[e.frame].time

Timed(r, q) == \A k \in DOMAIN q : q[k].frame \in DOMAIN r /\ q[k].time = r[q[k].frame].time

\* Every entry carries the time of its frame, whatever became of the files.
EntriesTimed == Timed(recorded, indexFile) /\ Timed(recorded, indexBuffer)

\* An index: one entry for a time, up to some time, each of a whole frame.  Only
\* the one entry that stands for an empty file is of none.
Loaded(s, r, entries) ==
  /\ entries \subseteq Entries /\ entries # {}
  /\ \E b \in Nat : \A e \in entries : e.time < b
  /\ \A e, d \in entries : e.time = d.time => e = d
  /\ \A e \in entries : entries = {e} \/ Good(s, r, e)

\* With an entry, all the earlier ones among entries are in part.
DownClosed(part, entries) == \A e \in entries, d \in part : e.time < d.time => e \in part

\* g lists the entries of done by their times, and s their frames.
Lists(g, s, done) ==
  /\ \A i \in 1..Len(s) : s[i] = g[i].frame
  /\ \A i, j \in 1..Len(s) : i < j => g[i].time < g[j].time
  /\ \A e \in done : \E i \in 1..Len(s) : g[i] = e

Tells(s, done) == \E g \in [1..Len(s) -> done] : Lists(g, s, done)

\* Of the entries before t none but the newest is left.
Swept(entries, left, t) == \A e, d \in entries : e.time < d.time /\ d.time < t => e \notin left

\* Where the thread is in a pass.
InPass ==
  /\ given \in Seq(Nat) /\ frames \in Seq(Nat) /\ now \in Nat
  /\ phase \in {"start", "walk"} => frames = <<>>
  /\ phase = "deliver" => frames # <<>>
  /\ index \subseteq indexCopy
  /\ phase = "start" /\ infinitely => index = indexCopy
  /\ phase \in {"walk", "deliver"} => Swept(indexCopy, index, now - Step)
  /\ phase = "read" =>
       /\ due \subseteq index /\ DownClosed(due, index)
       /\ \A e \in due : Good(rawFile, recorded, e)
       /\ Swept(indexCopy, index \ due, now)

\* The index entries erased so far are those whose frames were read.
Erasing == phase \in {"walk", "read", "deliver"} \/ (phase = "start" /\ ~infinitely)

\* What was delivered or waits for it are the frames of the oldest entries.
Told ==
  \E done \in SUBSET indexCopy :
    /\ \A e \in done : Good(rawFile, recorded, e)
    /\ DownClosed(done, indexCopy)
    /\ Tells(given \o frames, done)
    /\ Erasing => done = indexCopy \ index

PassInv ==
  /\ phase = "off" => given = <<>> /\ frames = <<>> /\ now = 0
  /\ sound /\ phase # "off" => Loaded(rawFile, recorded, indexCopy) /\ InPass /\ Told
-----------------------------------------------------------------------------
(* Sets of entries: the oldest and the newest of them exist. *)

LEMMA Smallest ==
  ASSUME NEW T, T \subseteq Nat, T # {}
  PROVE  \E x \in T : \A y \in T : x <= y
<1> DEFINE R == OpToRel(<, Nat)
<1>1. \A x, y \in Nat : x < y => <<x, y>> \in R
  BY DEF OpToRel
<1>2. IsWellFoundedOn(R, Nat)
  BY NatLessThanWellFounded
<1> HIDE DEF R
<1>3. PICK x \in T : \A y \in T : ~(<<y, x>> \in R)
  BY <1>2, WFMin
<1>4. \A y \in T : ~(y < x)
  <2> TAKE y \in T
  <2>1. y \in Nat /\ x \in Nat /\ ~(<<y, x>> \in R)
    BY <1>3
  <2> QED
    BY <1>1, <2>1, Zenon
<1>5. \A y \in T : y \in Nat /\ x \in Nat
  OBVIOUS
<1> QED
  BY <1>4, <1>5

LEMMA OldestOf ==
  ASSUME NEW T, T \subseteq Entries, T # {}
  PROVE  Oldest(T) \in T /\ \A d \in T : d.time >= Oldest(T).time
<1> DEFINE times == {e.time : e \in T}
<1>1. times \subseteq Nat /\ times # {}
  BY DEF Entries
<1>2. PICK x \in times : \A y \in times : x <= y
  BY <1>1, Smallest
<1>3. PICK e \in T : e.time = x
  OBVIOUS
<1>4. \A d \in T : d.time >= e.time
  <2> TAKE d \in T
  <2>1. d.time \in times /\ d.time \in Nat /\ e.time \in Nat
    BY DEF Entries
  <2> QED
    BY <1>2, <1>3, <2>1
<1> QED
  BY <1>4 DEF Oldest

LEMMA NewestOf ==
  ASSUME NEW T, T \subseteq Entries, T # {}, NEW b \in Nat, \A e \in T : e.time < b
  PROVE  Newest(T) \in T /\ \A d \in T : d.time <= Newest(T).time
<1> DEFINE gaps == {b - e.time : e \in T}
<1>1. gaps \subseteq Nat /\ gaps # {}
  <2>1. \A e \in T : e.time \in Nat /\ e.time < b
    BY DEF Entries
  <2> QED
    BY <2>1
<1>2. PICK x \in gaps : \A y \in gaps : x <= y
  BY <1>1, Smallest
<1>3. PICK e \in T : b - e.time = x
  OBVIOUS
<1>4. \A d \in T : d.time <= e.time
  <2> TAKE d \in T
  <2>1. b - d.time \in gaps /\ d.time \in Nat /\ e.time \in Nat
    BY DEF Entries
  <2> QED
    BY <1>2, <1>3, <2>1
<1> QED
  BY <1>4 DEF Newest

\* The times of a file's entries have a bound: of its initial segments there is
\* no shortest one without.
Bounded(q, k) == \E b \in Nat : \A i \in 1..k : q[i].time < b

LEMMA BoundedNext ==
  ASSUME NEW q \in Seq(Entries), NEW k \in 1..Len(q), Bounded(q, k - 1)
  PROVE  Bounded(q, k)
<1>1. PICK b \in Nat : \A i \in 1..(k - 1) : q[i].time < b
  BY DEF Bounded
<1>2. \A i \in 1..k : q[i].time \in Nat
  <2>1. \A i \in 1..k : q[i] \in Entries
    OBVIOUS
  <2> QED
    BY <2>1 DEF Entries
<1>3. k \in 1..k /\ \A i \in 1..k : i = k \/ i \in 1..(k - 1)
  OBVIOUS
<1>4. PICK c \in Nat : b <= c /\ q[k].time < c
  <2> DEFINE c == b + q[k].time + 1
  <2>1. q[k].time \in Nat
    BY <1>2, <1>3
  <2>2. c \in Nat /\ b <= c /\ q[k].time < c
    BY <2>1
  <2> QED
    BY <2>2
<1>5. ASSUME NEW i \in 1..k PROVE q[i].time < c
  <2>1. CASE i = k
    BY <1>4, <2>1
  <2>2. CASE i \in 1..(k - 1)
    <3>1. q[i].time \in Nat /\ q[i].time < b
      BY <1>1, <1>2, <2>2
    <3> QED
      BY <1>4, <3>1
  <2> QED
    BY <1>3, <2>1, <2>2
<1> QED
  BY <1>5 DEF Bounded

LEMMA TimesBounded == ASSUME NEW q \in Seq(Entries) PROVE Bounded(q, Len(q))
<1> DEFINE rest == {k \in 0..Len(q) : ~Bounded(q, k)}
<1>1. Len(q) \in Nat /\ rest \subseteq Nat
  OBVIOUS
<1>2. Bounded(q, 0)
  <2>1. \A i \in 1..0 : q[i].time < 0
    OBVIOUS
  <2> QED
    BY <2>1 DEF Bounded
<1>3. ASSUME rest # {} PROVE FALSE
  <2>1. PICK k \in rest : \A l \in rest : k <= l
    BY <1>1, <1>3, Smallest
  <2>2. k \in 1..Len(q) /\ ~Bounded(q, k)
    BY <1>1, <1>2, <2>1
  <2>3. k - 1 \in 0..Len(q) /\ k - 1 \notin rest
    BY <1>1, <2>1, <2>2
  <2> QED
    BY <2>2, <2>3, BoundedNext
<1> QED
  BY <1>1, <1>3

-----------------------------------------------------------------------------
(* Lists of entries. *)

LEMMA TellsNothing == Tells(<<>>, {})
<1> DEFINE g == [i \in 1..Len(<<>>) |-> 0]
<1>1. g \in [1..Len(<<>>) -> {}]
  OBVIOUS
<1>2. Lists(g, <<>>, {})
  BY DEF Lists
<1> QED
  BY <1>1, <1>2 DEF Tells

LEMMA TellsMore ==
  ASSUME NEW s \in Seq(Nat), NEW done, done \subseteq Entries, NEW e \in Entries,
         Tells(s, done), \A d \in done : d.time < e.time
  PROVE  Tells(Append(s, e.frame), done \cup {e})
<1>1. PICK g \in [1..Len(s) -> done] : Lists(g, s, done)
  BY DEF Tells
<1> DEFINE t == Append(s, e.frame)
           n == Len(s) + 1
           h == [i \in 1..n |-> IF i = n THEN e ELSE g[i]]
<1>2. Len(s) \in Nat /\ Len(t) = n /\ t[n] = e.frame /\ \A i \in 1..Len(s) : t[i] = s[i]
  BY DEF Entries
<1>3. \A i \in 1..n : i = n \/ i \in 1..Len(s)
  BY <1>2
<1>4. h[n] = e /\ \A i \in 1..Len(s) : h[i] = g[i] /\ g[i] \in done
  BY <1>2
<1>5. h \in [1..n -> done \cup {e}]
  BY <1>2, <1>3
<1>6. n \in Nat /\ n \in 1..n /\ 1..Len(s) \subseteq 1..n
  BY <1>2
<1> HIDE DEF h, t
<1>7. Lists(h, t, done \cup {e})
  <2>1. \A i \in 1..n : t[i] = h[i].frame
    BY <1>1, <1>2, <1>3, <1>4 DEF Lists
  <2>2. \A i, j \in 1..n : i < j => h[i].time < h[j].time
    <3> SUFFICES ASSUME NEW i \in 1..n, NEW j \in 1..n, i < j PROVE h[i].time < h[j].time
      OBVIOUS
    <3>1. i \in 1..Len(s)
      BY <1>2
    <3> QED
      BY <1>1, <1>3, <1>4, <3>1 DEF Lists
  <2>3. \A d \in done \cup {e} : \E i \in 1..n : h[i] = d
    <3> TAKE d \in done \cup {e}
    <3>1. CASE d = e
      BY <1>4, <1>6, <3>1
    <3>2. CASE d \in done
      <4>1. PICK i \in 1..Len(s) : g[i] = d
        BY <1>1, <3>2 DEF Lists
      <4> QED
        BY <1>4, <1>6, <4>1
    <3> QED
      BY <3>1, <3>2
  <2> QED
    BY <1>2, <2>1, <2>2, <2>3 DEF Lists
<1> QED
  BY <1>2, <1>5, <1>7 DEF Tells, t

\* A frame that goes from the ones read to the ones delivered.
LEMMA HandedOn ==
  ASSUME NEW a \in Seq(Nat), NEW b \in Seq(Nat)
  PROVE  /\ a \o b \in Seq(Nat) /\ a \o <<>> = a
         /\ \A x \in Nat : a \o Append(b, x) = Append(a \o b, x) /\ Append(b, x) # <<>>
         /\ b # <<>> =>
              /\ Head(b) \in Nat /\ Tail(b) \in Seq(Nat) /\ Append(a, Head(b)) \in Seq(Nat)
              /\ Append(a, Head(b)) \o Tail(b) = a \o b
              /\ Len(b) = 1 => Tail(b) = <<>>
              /\ Len(b) # 1 => Tail(b) # <<>>
<1>1. a \o b \in Seq(Nat) /\ a \o <<>> = a
  OBVIOUS
<1>2. ASSUME NEW x \in Nat
      PROVE  a \o Append(b, x) = Append(a \o b, x) /\ Append(b, x) # <<>>
  <2>1. <<x>> \in Seq(Nat)
    OBVIOUS
  <2>2. Append(b, x) = b \o <<x>>
    BY AppendIsConcat, SMTT(30)
  <2>3. Append(a \o b, x) = (a \o b) \o <<x>>
    <3> DEFINE c == a \o b
    <3>1. c \in Seq(Nat)
      BY <1>1
    <3> HIDE DEF c
    <3>2. Append(c, x) = c \o <<x>>
      BY <3>1, AppendIsConcat, SMTT(30)
    <3> QED
      BY <3>2 DEF c
  <2>4. (a \o b) \o <<x>> = a \o (b \o <<x>>)
    BY <2>1, Associative
  <2>5. Append(b, x) # <<>>
    <3> DEFINE y == Append(b, x)
    <3>1. y \in Seq(Nat) /\ Len(y) = Len(b) + 1 /\ Len(b) \in Nat
      OBVIOUS
    <3> HIDE DEF y
    <3>2. Len(<<>>) = 0
      OBVIOUS
    <3>3. y # <<>>
      BY <3>1, <3>2
    <3> QED
      BY <3>3 DEF y
  <2> QED
    BY <2>2, <2>3, <2>4, <2>5, Zenon
<1>3. ASSUME b # <<>>
      PROVE  /\ Head(b) \in Nat /\ Tail(b) \in Seq(Nat) /\ Append(a, Head(b)) \in Seq(Nat)
             /\ Append(a, Head(b)) \o Tail(b) = a \o b
             /\ Len(b) = 1 => Tail(b) = <<>>
             /\ Len(b) # 1 => Tail(b) # <<>>
  <2>1. Head(b) \in Nat /\ Tail(b) \in Seq(Nat)
    BY <1>3
  <2> DEFINE x == Head(b)
             t == Tail(b)
  <2>2. <<x>> \in Seq(Nat)
    BY <2>1
  <2>3. <<x>> \o t = b
    <3> DEFINE u == <<x>> \o t
    <3>1. /\ t \in Seq(Nat) /\ Len(t) = Len(b) - 1 /\ x = b[1] /\ Len(b) \in Nat \ {0}
          /\ \A i \in 1..Len(b) - 1 : t[i] = b[i + 1]
      BY <1>3, <2>1
    <3> HIDE DEF x, t
    <3>2. /\ u \in Seq(Nat) /\ Len(u) = 1 + Len(t) /\ u[1] = x
          /\ \A i \in 1..Len(t) : u[1 + i] = t[i]
      BY <2>2, <3>1
    <3> HIDE DEF u
    <3>3. \A i \in 1..Len(b) : u[i] = b[i]
      <4> TAKE i \in 1..Len(b)
      <4>1. CASE i = 1
        BY <3>1, <3>2, <4>1
      <4>2. CASE i # 1
        <5>1. i - 1 \in 1..Len(t) /\ 1 + (i - 1) = i /\ (i - 1) + 1 = i
          BY <3>1, <4>2
        <5> QED
          BY <3>1, <3>2, <5>1
      <4> QED
        BY <4>1, <4>2
    <3>4. Len(u) = Len(b)
      BY <3>1, <3>2
    <3>5. u = b
      BY <3>2, <3>3, <3>4, SeqEqual
    <3> QED
      BY <3>5 DEF u
  <2>4. Len(t) = Len(b) - 1 /\ Len(b) \in Nat
    BY <1>3
  <2>5. (Len(b) = 1 => t = <<>>) /\ (Len(b) # 1 => t # <<>>)
    <3> HIDE DEF t
    <3>1. t = <<>> <=> Len(t) = 0
      BY <2>1, EmptySeq DEF t
    <3> QED
      BY <2>4, <3>1
  <2> HIDE DEF x, t
  <2>6. Append(a, x) = a \o <<x>>
    BY <2>1, AppendIsConcat, SMTT(30) DEF x
  <2>7. (a \o <<x>>) \o t = a \o (<<x>> \o t)
    BY <2>1, <2>2, Associative DEF t
  <2>8. Append(a, x) \o t = a \o b
    BY <2>3, <2>6, <2>7, Zenon
  <2>9. Append(a, x) \in Seq(Nat)
    BY <2>1 DEF x
  <2> QED
    BY <2>1, <2>5, <2>8, <2>9 DEF x, t
<1> QED
  BY <1>1, <1>2, <1>3
-----------------------------------------------------------------------------
(* What the writer does to an index that was loaded. *)

LEMMA TimedOn ==
  ASSUME NEW r \in Seq(Records), NEW x \in Records, NEW q \in Seq(Entries), Timed(r, q)
  PROVE  Timed(Append(r, x), q)
<1> SUFFICES ASSUME NEW k \in DOMAIN q
             PROVE  /\ q[k].frame \in DOMAIN Append(r, x)
                    /\ q[k].time = Append(r, x)[q[k].frame].time
  BY DEF Timed
<1>1. q[k].frame \in DOMAIN r /\ q[k].time = r[q[k].frame].time
  BY DEF Timed
<1>2. \A n \in DOMAIN r : n \in DOMAIN Append(r, x) /\ Append(r, x)[n] = r[n]
  OBVIOUS
<1> QED
  BY <1>1, <1>2

LEMMA TimedMore ==
  ASSUME NEW r, NEW q \in Seq(Entries), Timed(r, q),
         NEW e \in Entries, e.frame \in DOMAIN r, e.time = r[e.frame].time
  PROVE  Timed(r, Append(q, e))
<1> SUFFICES ASSUME NEW k \in DOMAIN Append(q, e)
             PROVE  /\ Append(q, e)[k].frame \in DOMAIN r
                    /\ Append(q, e)[k].time = r[Append(q, e)[k].frame].time
  BY DEF Timed
<1>1. Append(q, e)[k] = e \/ (k \in DOMAIN q /\ Append(q, e)[k] = q[k])
  OBVIOUS
<1>2. k \in DOMAIN q => q[k].frame \in DOMAIN r /\ q[k].time = r[q[k].frame].time
  BY DEF Timed
<1> QED
  BY <1>1, <1>2

LEMMA TimedConcat ==
  ASSUME NEW r, NEW q \in Seq(Entries), NEW u \in Seq(Entries), Timed(r, q), Timed(r, u)
  PROVE  Timed(r, q \o u)
<1> SUFFICES ASSUME NEW k \in DOMAIN (q \o u)
             PROVE  /\ (q \o u)[k].frame \in DOMAIN r
                    /\ (q \o u)[k].time = r[(q \o u)[k].frame].time
  BY DEF Timed
<1>1. CASE k \in DOMAIN q
  <2>1. (q \o u)[k] = q[k]
    BY <1>1
  <2> QED
    BY <1>1, <2>1 DEF Timed
<1>2. CASE k \notin DOMAIN q
  <2>1. k - Len(q) \in DOMAIN u /\ (q \o u)[k] = u[k - Len(q)]
    BY <1>2
  <2> QED
    BY <2>1 DEF Timed
<1> QED
  BY <1>1, <1>2

LEMMA RecordMade ==
  ASSUME NEW t \in Times, NEW size \in Sizes
  PROVE  [time |-> t, size |-> size] \in Records
BY TimesAssumption DEF Records

LEMMA EntriesTimedNext == DatInv /\ EntriesTimed /\ [DatNext]_datVars => EntriesTimed'
<1> SUFFICES ASSUME DatInv, EntriesTimed, [DatNext]_datVars PROVE EntriesTimed'
  OBVIOUS
<1> USE DEF EntriesTimed, recordVars, fileVars, streamVars, datWriterVars
<1>1. /\ indexFile \in Seq(Entries) /\ indexBuffer \in Seq(Entries)
      /\ recorded \in Seq(Records) /\ rawSize \in Nat
  BY DEF DatInv, WriterTypeOK
<1>2. \A r : Timed(r, <<>>)
  BY DEF Timed
<1>3. ASSUME UNCHANGED <<indexFile, indexBuffer, recorded>>
      PROVE  EntriesTimed'
  BY <1>3
<1>4. CASE OpenFiles \/ Write("header") \/ Write("data") \/ Spill \/ FlushRaw \/ Close \/ Closed
  BY <1>3, <1>4 DEF OpenFiles, Write, Spill, FlushRaw, Close, Closed
<1>5. CASE TruncateIndex
  BY <1>2, <1>5 DEF TruncateIndex
<1>6. ASSUME NEW t \in Times, NEW size \in Sizes, Record(t, size)
      PROVE  EntriesTimed'
  <2> DEFINE x == [time |-> t, size |-> size]
  <2>1. x \in Records
    BY RecordMade
  <2>2. recorded' = Append(recorded, x) /\ UNCHANGED <<indexFile, indexBuffer>>
    BY <1>6 DEF Record
  <2> HIDE DEF x
  <2> QED
    BY <1>1, <2>1, <2>2, TimedOn
<1>7. CASE SaveMetaData
  <2> DEFINE n == Len(recorded)
             e == Entry(recorded[n].time, rawSize, n)
  <2>1. /\ plan # <<>> /\ Head(plan) = "entry"
        /\ indexBuffer' = Append(indexBuffer, e) /\ UNCHANGED <<indexFile, recorded>>
    BY <1>7 DEF SaveMetaData, current
  <2>2. recorded # <<>>
    BY <2>1, PlanSteps DEF DatInv, WriterTypeOK, InWork, Behind
  <2>3. n \in DOMAIN recorded /\ n \in Nat
    BY <1>1, <2>2
  <2>4. recorded[n].time \in Nat
    BY <1>1, <2>3, RecordFields
  <2>5. e \in Entries /\ e.frame = n /\ e.time = recorded[n].time
    BY <1>1, <2>3, <2>4 DEF Entry, Entries
  <2> HIDE DEF e
  <2>6. Timed(recorded, Append(indexBuffer, e))
    BY <1>1, <2>3, <2>5, TimedMore
  <2> QED
    BY <2>1, <2>6
<1>8. CASE FlushIndex
  BY <1>1, <1>2, <1>8, TimedConcat DEF FlushIndex
<1>9. CASE Kill
  BY <1>2, <1>9 DEF Kill
<1>10. CASE ReaderThread \/ Stop \/ \E inf \in BOOLEAN : StartReader(inf)
  BY <1>3, <1>10 DEF ReaderThread, Loop, Slot, ReadEntry, ReadClosed, EndSlot, Deliver, EndPass,
     Stop, StartReader
<1>11. CASE UNCHANGED datVars
  BY <1>3, <1>11 DEF datVars
<1> QED
  BY <1>4, <1>5, <1>6, <1>7, <1>8, <1>9, <1>10, <1>11 DEF DatNext, DatWriter

\* Frames that an index leads to stay, unless the files are truncated under it.
LEMMA WriterKeeps ==
  ASSUME DatInv, DatWriter, sound', phase # "off"
  PROVE  /\ UNCHANGED datReaderVars
         /\ \A e \in Entries : Good(rawFile, recorded, e) => Good(rawFile', recorded', e)
<1> USE DEF recordVars, fileVars
<1>1. rawFile \in Seq(Unit) /\ rawBuffer \in Seq(Unit) /\ recorded \in Seq(Records)
  BY DEF DatInv, WriterTypeOK
<1>2. CASE OpenFiles
  BY <1>2 DEF OpenFiles, datReaderVars, walkVars
<1>3. CASE \/ TruncateIndex \/ SaveMetaData \/ Write("header") \/ Write("data") \/ FlushIndex
           \/ Close \/ Closed \/ Kill
  BY <1>3 DEF TruncateIndex, SaveMetaData, Write, FlushIndex, Close, Closed, Kill
<1>4. ASSUME NEW t \in Seq(Unit), rawFile' = rawFile \o t, UNCHANGED recorded, NEW e \in Entries,
             Good(rawFile, recorded, e)
      PROVE  Good(rawFile', recorded', e)
  BY <1>1, <1>4, HoldsOn DEF Good
<1>5. CASE FlushRaw
  <2>1. rawFile' = rawFile \o rawBuffer /\ UNCHANGED <<recorded, datReaderVars>>
    BY <1>5 DEF FlushRaw
  <2> QED
    BY <1>1, <1>4, <2>1
<1>6. CASE Spill
  <2>1. PICK k \in 1..Len(rawBuffer) : rawFile' = rawFile \o SubSeq(rawBuffer, 1, k)
    BY <1>6 DEF Spill
  <2>2. SubSeq(rawBuffer, 1, k) \in Seq(Unit)
    BY <1>1, Spilt, Zenon
  <2>3. UNCHANGED <<recorded, datReaderVars>>
    BY <1>6 DEF Spill
  <2> QED
    BY <1>4, <2>1, <2>2, <2>3
<1>7. ASSUME NEW t \in Times, NEW size \in Sizes, Record(t, size)
      PROVE  /\ UNCHANGED datReaderVars
             /\ \A e \in Entries : Good(rawFile, recorded, e) => Good(rawFile', recorded', e)
  <2> DEFINE x == [time |-> t, size |-> size]
  <2>1. x \in Records
    BY RecordMade
  <2>2. recorded' = Append(recorded, x) /\ UNCHANGED <<rawFile, datReaderVars>>
    BY <1>7 DEF Record
  <2> HIDE DEF x
  <2>3. ASSUME NEW e \in Entries, Good(rawFile, recorded, e)
        PROVE  Good(rawFile, Append(recorded, x), e)
    <3>1. Holds(rawFile, recorded, e) /\ e.frame \in DOMAIN recorded
      BY <2>3 DEF Good, Holds
    <3>2. Append(recorded, x)[e.frame] = recorded[e.frame]
      BY <1>1, <3>1
    <3>3. Holds(rawFile, Append(recorded, x), e)
      BY <1>1, <2>1, <3>1, HoldsRecorded
    <3> QED
      BY <2>3, <3>2, <3>3 DEF Good
  <2> QED
    BY <2>2, <2>3
<1> QED
  BY <1>2, <1>3, <1>5, <1>6, <1>7 DEF DatWriter

\* The index of the files of one writer can be read.
LEMMA LoadIndexLoaded ==
  ASSUME DatInv, EntriesTimed, ~mixed
  PROVE  Loaded(rawFile, recorded, LoadIndex)
<1>1. indexFile \in Seq(Entries) /\ Len(indexFile) \in Nat /\ DOMAIN indexFile = 1..Len(indexFile)
  BY DEF DatInv, WriterTypeOK
<1>2. CASE indexFile = <<>>
  <2>1. Entry(0, 0, 0) \in Entries /\ LoadIndex = {Entry(0, 0, 0)}
    BY <1>2 DEF LoadIndex, Entry, Entries
  <2>2. \A e \in {Entry(0, 0, 0)} : e.time < 1
    BY DEF Entry
  <2> HIDE DEF LoadIndex
  <2> QED
    BY <2>1, <2>2 DEF Loaded
<1>3. CASE indexFile # <<>>
  <2> DEFINE firsts == {j \in DOMAIN indexFile :
                          \A i \in 1..(j - 1) : indexFile[i].time # indexFile[j].time}
  <2>1. LoadIndex = {indexFile[k] : k \in firsts}
    BY <1>3 DEF LoadIndex
  <2>2. 1 \in firsts
    BY <1>1, <1>3
  <2>3. \A j, k \in firsts : indexFile[j].time = indexFile[k].time => j = k
    <3> SUFFICES ASSUME NEW j \in firsts, NEW k \in firsts, j < k
                 PROVE  indexFile[j].time # indexFile[k].time
      BY <1>1
    <3>1. j \in 1..(k - 1)
      BY <1>1
    <3> QED
      BY <3>1
  <2>4. \A k \in firsts : indexFile[k] \in Entries /\ Good(rawFile, recorded, indexFile[k])
    BY <1>1 DEF Good, EntriesTimed, Timed, DatInv, FilesCovered, AllHeld
  <2>5. \E b \in Nat : \A k \in firsts : indexFile[k].time < b
    BY <1>1, TimesBounded DEF Bounded
  <2> HIDE DEF firsts
  <2> QED
    BY <2>1, <2>2, <2>3, <2>4, <2>5 DEF Loaded
<1> QED
  BY <1>2, <1>3
-----------------------------------------------------------------------------
(* One lemma for each step of the reader's thread. *)

\* A pass, over an index of whole frames.
Pass == Loaded(rawFile, recorded, indexCopy) /\ InPass /\ Told

LEMMA InitPass == DatInit => PassInv /\ EntriesTimed
BY DEF DatInit, PassInv, EntriesTimed, Timed

LEMMA WriterPass == DatInv /\ PassInv /\ DatWriter => PassInv'
<1> SUFFICES ASSUME DatInv, PassInv, DatWriter PROVE PassInv'
  OBVIOUS
<1>1. UNCHANGED <<walkVars, given>>
  BY DEF DatWriter, OpenFiles, TruncateIndex, SaveMetaData, Write, Spill, FlushRaw, FlushIndex,
         Close, Closed, Kill, Record, datReaderVars
<1>2. phase' = phase /\ frames' = frames /\ now' = now /\ given' = given
  BY <1>1 DEF walkVars
<1>3. ASSUME sound', phase # "off"
      PROVE  Loaded(rawFile', recorded', indexCopy') /\ InPass' /\ Told'
  <2>1. /\ UNCHANGED datReaderVars
        /\ \A e \in Entries : Good(rawFile, recorded, e) => Good(rawFile', recorded', e)
    BY <1>3, WriterKeeps
  <2>2. UNCHANGED <<phase, index, indexCopy, infinitely, now, due, frames, given, sound>>
    BY <2>1 DEF datReaderVars, walkVars
  <2>3. Loaded(rawFile, recorded, indexCopy) /\ InPass /\ Told
    BY <1>3, <2>2 DEF PassInv
  <2>4. Loaded(rawFile', recorded', indexCopy')
    BY <2>1, <2>2, <2>3 DEF Loaded
  <2>5. InPass'
    <3>1. \/ due \subseteq index /\ index \subseteq indexCopy /\ indexCopy \subseteq Entries
          \/ phase # "read"
      BY <2>3 DEF InPass, Loaded
    <3> QED
      BY <2>1, <2>2, <2>3, <3>1 DEF InPass
  <2>6. Told'
    <3>1. PICK done \in SUBSET indexCopy :
            /\ \A e \in done : Good(rawFile, recorded, e)
            /\ DownClosed(done, indexCopy)
            /\ Tells(given \o frames, done)
            /\ Erasing => done = indexCopy \ index
      BY <2>3 DEF Told
    <3>2. \A e \in done : Good(rawFile', recorded', e)
      BY <2>1, <2>3, <3>1 DEF Loaded
    <3> QED
      BY <2>2, <3>1, <3>2 DEF Told, Erasing
  <2> QED
    BY <2>4, <2>5, <2>6
<1> QED
  BY <1>2, <1>3 DEF PassInv

LEMMA StartPass ==
  ASSUME DatInv, EntriesTimed, PassInv, NEW inf \in BOOLEAN, StartReader(inf)
  PROVE  PassInv'
<1>1. /\ phase = "off" /\ phase' = "start" /\ index' = LoadIndex /\ indexCopy' = LoadIndex
      /\ sound' = ~mixed
      /\ UNCHANGED <<rawFile, recorded, now, frames, given>>
  BY DEF StartReader, datWriterVars, fileVars, recordVars
<1>2. given = <<>> /\ frames = <<>> /\ now = 0
  BY <1>1 DEF PassInv
<1>3. ASSUME sound' PROVE Loaded(rawFile', recorded', indexCopy')
  BY <1>1, <1>3, LoadIndexLoaded
<1>4. InPass'
  BY <1>1, <1>2 DEF InPass
<1>5. Told'
  <2>1. given' \o frames' = <<>>
    BY <1>1, <1>2
  <2>2. Tells(given' \o frames', {})
    BY <2>1, TellsNothing
  <2>3. /\ \A e \in {} : Good(rawFile', recorded', e)
        /\ DownClosed({}, indexCopy') /\ {} = indexCopy' \ index'
    BY <1>1 DEF DownClosed
  <2> QED
    BY <2>2, <2>3 DEF Told
<1> QED
  BY <1>1, <1>3, <1>4, <1>5 DEF PassInv

\* The end of the thread, a read that does not return, a pass that is over.
LEMMA StandstillPass ==
  ASSUME Pass, UNCHANGED <<datWriterVars, indexCopy, given, frames, now, index>>,
         phase' \in {"ended", "hang", "lost"}
  PROVE  InPass' /\ Told'
<1>1. InPass'
  BY DEF Pass, InPass
<1>2. Told'
  <2>1. PICK done \in SUBSET indexCopy :
          /\ \A e \in done : Good(rawFile, recorded, e)
          /\ DownClosed(done, indexCopy)
          /\ Tells(given \o frames, done)
    BY DEF Pass, Told
  <2>2. ~Erasing'
    BY DEF Erasing
  <2> QED
    BY <2>1, <2>2 DEF Told, datWriterVars, fileVars, recordVars
<1> QED
  BY <1>1, <1>2

LEMMA LoopPass == Pass /\ Loop => InPass' /\ Told'
<1> SUFFICES ASSUME Pass, Loop PROVE InPass' /\ Told'
  OBVIOUS
<1>1. /\ phase = "start" /\ UNCHANGED <<datWriterVars, index, indexCopy, infinitely, frames>>
      /\ rawFile' = rawFile /\ recorded' = recorded
  BY DEF Loop, datWriterVars, fileVars, recordVars
<1>2. CASE stopped
  BY <1>1, <1>2, StandstillPass DEF Loop
<1>3. CASE ~stopped
  <2>1. /\ phase' = "walk" /\ now' = Oldest(indexCopy).time
        /\ given' = IF infinitely THEN <<>> ELSE given
    BY <1>3 DEF Loop, First
  <2>2. indexCopy \subseteq Entries /\ indexCopy # {}
    BY DEF Pass, Loaded
  <2>3. Oldest(indexCopy) \in indexCopy /\ \A d \in indexCopy : d.time >= Oldest(indexCopy).time
    BY <2>2, OldestOf
  <2>4. now' \in Nat /\ \A d \in indexCopy : d.time \in Nat /\ d.time >= now'
    BY <2>1, <2>2, <2>3 DEF Entries
  <2>5. Swept(indexCopy, index, now' - Step)
    BY <2>4, StepAssumption DEF Swept
  <2>6. InPass'
    BY <1>1, <2>1, <2>4, <2>5 DEF Pass, InPass
  <2>7. PICK done \in SUBSET indexCopy :
          /\ \A e \in done : Good(rawFile, recorded, e)
          /\ DownClosed(done, indexCopy)
          /\ Tells(given \o frames, done)
          /\ Erasing => done = indexCopy \ index
    BY DEF Pass, Told
  <2>8. frames = <<>> /\ (infinitely => index = indexCopy)
    BY <1>1 DEF Pass, InPass
  <2>9. CASE infinitely
    <3>1. Tells(given' \o frames', {})
      <4>1. given' \o frames' = <<>>
        BY <1>1, <2>1, <2>8, <2>9
      <4> QED
        BY <4>1, TellsNothing
    <3>2. (\A e \in {} : Good(rawFile', recorded', e)) /\ DownClosed({}, indexCopy')
      BY DEF DownClosed
    <3>3. {} = indexCopy' \ index'
      BY <1>1, <2>8, <2>9
    <3> QED
      BY <2>6, <3>1, <3>2, <3>3 DEF Told
  <2>10. CASE ~infinitely
    <3>1. done = indexCopy \ index
      BY <1>1, <2>7, <2>10 DEF Erasing
    <3> QED
      BY <1>1, <2>1, <2>6, <2>7, <2>10, <3>1 DEF Told
  <2> QED
    BY <2>9, <2>10
<1> QED
  BY <1>2, <1>3

LEMMA SlotPass == Pass /\ Slot => InPass' /\ Told'
<1> SUFFICES ASSUME Pass, Slot PROVE InPass' /\ Told'
  OBVIOUS
<1> DEFINE below == Earlier(index, now)
<1>1. /\ phase = "walk" /\ phase' = "read" /\ frames' = <<>>
      /\ due' = IF below = {} THEN {} ELSE below \ {Newest(below)}
      /\ UNCHANGED <<index, indexCopy, infinitely, now, given, rawFile, recorded>>
  BY DEF Slot, datWriterVars, fileVars, recordVars
<1>2. /\ index \subseteq indexCopy /\ indexCopy \subseteq Entries /\ now \in Nat /\ frames = <<>>
      /\ \A e \in indexCopy : indexCopy = {e} \/ Good(rawFile, recorded, e)
  BY <1>1 DEF Pass, InPass, Loaded
<1>3. PICK done \in SUBSET indexCopy :
        /\ \A e \in done : Good(rawFile, recorded, e)
        /\ DownClosed(done, indexCopy)
        /\ Tells(given \o frames, done)
        /\ done = indexCopy \ index
  BY <1>1 DEF Pass, Told, Erasing
<1>4. below = {e \in index : e.time < now}
  BY DEF Earlier
<1>5. \A e \in indexCopy : e.time \in Nat
  BY <1>2 DEF Entries
<1> HIDE DEF below
<1>6. below # {} => /\ Newest(below) \in below
                    /\ \A d \in below : d.time <= Newest(below).time
  BY <1>2, <1>4, NewestOf
<1>7. due' \subseteq index
  BY <1>1, <1>4
<1>8. DownClosed(due', index)
  <2> SUFFICES ASSUME NEW e \in index, NEW d \in due', e.time < d.time PROVE e \in due'
    BY DEF DownClosed
  <2>1. d \in below /\ below # {}
    BY <1>1
  <2>2. e \in below /\ e # Newest(below)
    BY <1>2, <1>4, <1>5, <1>6, <2>1
  <2> QED
    BY <1>1, <2>1, <2>2
<1>9. \A e \in due' : Good(rawFile, recorded, e)
  <2> TAKE e \in due'
  <2>1. e \in indexCopy /\ Newest(below) \in indexCopy /\ e # Newest(below)
    BY <1>1, <1>2, <1>4, <1>6
  <2> QED
    BY <1>2, <2>1
<1>10. Swept(indexCopy, index \ due', now)
  <2> SUFFICES ASSUME NEW e \in indexCopy, NEW d \in indexCopy, e.time < d.time, d.time < now,
                      e \in index, e \notin due'
               PROVE  FALSE
    BY DEF Swept
  <2>1. e \in below /\ below # {}
    BY <1>2, <1>4, <1>5
  <2>2. e = Newest(below)
    BY <1>1, <2>1
  <2>3. d \notin index
    BY <1>4, <1>5, <1>6, <2>1, <2>2
  <2>4. e \in done
    BY <1>3, <2>3 DEF DownClosed
  <2> QED
    BY <1>3, <2>4
<1>11. InPass'
  BY <1>1, <1>2, <1>7, <1>8, <1>9, <1>10 DEF Pass, InPass
<1>12. Told'
  BY <1>1, <1>2, <1>3 DEF Told
<1> QED
  BY <1>11, <1>12

LEMMA ReadEntryPass == DatInv /\ Pass /\ ReadEntry => InPass' /\ Told'
<1> SUFFICES ASSUME DatInv, Pass, ReadEntry PROVE InPass' /\ Told'
  OBVIOUS
<1> DEFINE e == Oldest(due)
           found == Found(e.offset)
<1>1. /\ phase = "read" /\ due # {}
      /\ UNCHANGED <<datWriterVars, indexCopy, infinitely, now, given>>
      /\ rawFile' = rawFile /\ recorded' = recorded
  BY DEF ReadEntry, datWriterVars, fileVars, recordVars
<1>2. CASE phase' \in {"hang", "lost"} /\ UNCHANGED <<index, frames>>
  BY <1>1, <1>2, StandstillPass
<1>3. CASE /\ index' = index \ {e} /\ due' = due \ {e}
           /\ frames' = Append(frames, found) /\ UNCHANGED phase
  <2>1. /\ due \subseteq index /\ index \subseteq indexCopy /\ indexCopy \subseteq Entries
        /\ DownClosed(due, index) /\ Swept(indexCopy, index \ due, now)
        /\ \A d \in due : Good(rawFile, recorded, d)
        /\ \A c, d \in indexCopy : c.time = d.time => c = d
        /\ given \in Seq(Nat) /\ frames \in Seq(Nat) /\ now \in Nat
    BY <1>1 DEF Pass, InPass, Loaded
  <2>2. e \in due /\ \A d \in due : d.time >= e.time
    BY <1>1, <2>1, OldestOf
  <2>3. e \in index /\ e \in indexCopy /\ e \in Entries /\ Good(rawFile, recorded, e)
    BY <2>1, <2>2
  <2>4. found = e.frame /\ e.frame \in Nat
    BY <2>3, HoldsFound DEF Good, DatInv, WriterTypeOK, Entries
  <2> HIDE DEF e, found
  <2>5. \A d \in indexCopy : d.time \in Nat
    BY <2>1 DEF Entries
  <2>6. DownClosed(due', index')
    BY <1>3, <2>1 DEF DownClosed
  <2>7. index \ due = index' \ due' /\ due' \subseteq index' /\ index' \subseteq indexCopy
    BY <1>3, <2>1, <2>2
  <2>8. given \o frames' = Append(given \o frames, e.frame) /\ frames' \in Seq(Nat)
        /\ given \o frames \in Seq(Nat)
    BY <1>3, <2>1, <2>4, HandedOn
  <2>9. InPass'
    BY <1>1, <1>3, <2>1, <2>6, <2>7, <2>8 DEF Pass, InPass
  <2>10. PICK done \in SUBSET indexCopy :
           /\ \A d \in done : Good(rawFile, recorded, d)
           /\ DownClosed(done, indexCopy)
           /\ Tells(given \o frames, done)
           /\ done = indexCopy \ index
    BY <1>1 DEF Pass, Told, Erasing
  <2>11. \A d \in done : d.time < e.time
    <3> TAKE d \in done
    <3>1. d \in indexCopy /\ d # e
      BY <2>3, <2>10
    <3>2. ~(e.time < d.time)
      BY <2>3, <2>10 DEF DownClosed
    <3> QED
      BY <2>1, <2>3, <2>5, <3>1, <3>2
  <2>12. DownClosed(done \cup {e}, indexCopy)
    <3> SUFFICES ASSUME NEW c \in indexCopy, NEW d \in done \cup {e}, c.time < d.time,
                        c \notin done
                 PROVE  FALSE
      BY DEF DownClosed
    <3>1. d = e /\ c \in index
      BY <2>10 DEF DownClosed
    <3>2. c \in due
      BY <2>1, <2>2, <3>1 DEF DownClosed
    <3>3. c.time >= e.time
      BY <2>2, <3>2
    <3> QED
      BY <2>3, <2>5, <3>1, <3>3
  <2>13. Tells(Append(given \o frames, e.frame), done \cup {e})
    BY <2>1, <2>3, <2>8, <2>10, <2>11, TellsMore
  <2>14. done \cup {e} = indexCopy' \ index' /\ done \cup {e} \in SUBSET indexCopy'
    BY <1>1, <1>3, <2>3, <2>10
  <2>15. \A d \in done \cup {e} : Good(rawFile', recorded', d)
    BY <1>1, <2>3, <2>10
  <2>16. Told'
    BY <1>1, <2>8, <2>12, <2>13, <2>14, <2>15 DEF Told
  <2> QED
    BY <2>9, <2>16
<1> QED
  BY <1>2, <1>3 DEF ReadEntry
LEMMA EndSlotPass == Pass /\ EndSlot => InPass' /\ Told'
<1> SUFFICES ASSUME Pass, EndSlot PROVE InPass' /\ Told'
  OBVIOUS
<1>1. /\ phase = "read" /\ due = {} /\ now' = now + Step
      /\ phase' = IF frames = <<>> THEN "walk" ELSE "deliver"
      /\ UNCHANGED <<index, indexCopy, infinitely, frames, given, rawFile, recorded>>
  BY DEF EndSlot, datWriterVars, fileVars, recordVars
<1>2. now \in Nat /\ Swept(indexCopy, index \ {}, now)
  BY <1>1 DEF Pass, InPass
<1>3. now' \in Nat /\ now' - Step = now /\ index \ {} = index
  BY <1>1, <1>2, StepAssumption
<1>4. InPass'
  BY <1>1, <1>2, <1>3 DEF Pass, InPass
<1>5. Told'
  <2>1. Erasing
    BY <1>1 DEF Erasing
  <2> QED
    BY <1>1, <2>1 DEF Pass, Told
<1> QED
  BY <1>4, <1>5

LEMMA DeliverPass == Pass /\ Deliver => InPass' /\ Told'
<1> SUFFICES ASSUME Pass, Deliver PROVE InPass' /\ Told'
  OBVIOUS
<1>1. /\ phase = "deliver"
      /\ given' = Append(given, Head(frames)) /\ frames' = Tail(frames)
      /\ phase' = IF Len(frames) = 1 THEN "walk" ELSE "deliver"
      /\ UNCHANGED <<index, indexCopy, infinitely, now, rawFile, recorded>>
  BY DEF Deliver, datWriterVars, fileVars, recordVars
<1>2. given \in Seq(Nat) /\ frames \in Seq(Nat) /\ frames # <<>>
  BY <1>1 DEF Pass, InPass
<1>3. /\ given' \in Seq(Nat) /\ frames' \in Seq(Nat) /\ given' \o frames' = given \o frames
      /\ phase' = "walk" => frames' = <<>>
      /\ phase' = "deliver" => frames' # <<>>
  BY <1>1, <1>2, HandedOn
<1>4. InPass'
  BY <1>1, <1>3 DEF Pass, InPass
<1>5. Told'
  <2>1. Erasing
    BY <1>1 DEF Erasing
  <2> QED
    BY <1>1, <1>3, <2>1 DEF Pass, Told
<1> QED
  BY <1>4, <1>5

LEMMA EndPassPass == Pass /\ EndPass => InPass' /\ Told'
<1> SUFFICES ASSUME Pass, EndPass PROVE InPass' /\ Told'
  OBVIOUS
<1>1. /\ phase = "walk" /\ phase' = "start"
      /\ index' = IF infinitely THEN indexCopy ELSE index
      /\ UNCHANGED <<indexCopy, infinitely, now, frames, given, rawFile, recorded>>
  BY DEF EndPass, datWriterVars, fileVars, recordVars
<1>2. InPass'
  BY <1>1 DEF Pass, InPass
<1>3. Told'
  <2>1. Erasing
    BY <1>1 DEF Erasing
  <2>2. Erasing' => index' = index
    BY <1>1 DEF Erasing
  <2> QED
    BY <1>1, <2>1, <2>2 DEF Pass, Told
<1> QED
  BY <1>2, <1>3

LEMMA ThreadPass == DatInv /\ PassInv /\ (ReaderThread \/ Stop) => PassInv'
<1> SUFFICES ASSUME DatInv, PassInv, ReaderThread \/ Stop PROVE PassInv'
  OBVIOUS
<1>1. phase # "off" /\ phase' # "off" /\ UNCHANGED <<datWriterVars, indexCopy, sound>>
  <2>1. CASE Loop
    BY <2>1 DEF Loop
  <2>2. CASE ReadEntry
    BY <2>2, Zenon DEF ReadEntry
  <2>3. CASE Slot \/ ReadClosed \/ EndSlot \/ Deliver \/ EndPass \/ Stop
    BY <2>3 DEF Slot, ReadClosed, EndSlot, Deliver, EndPass, Stop
  <2> QED
    BY <2>1, <2>2, <2>3 DEF ReaderThread
<1>2. CASE ~sound
  BY <1>1, <1>2 DEF PassInv
<1>3. CASE sound
  <2>1. Pass
    BY <1>1, <1>3 DEF PassInv, Pass
  <2>2. ASSUME Stop PROVE InPass' /\ Told'
    BY <2>1, <2>2 DEF Stop, Pass, InPass, Told, Erasing, datWriterVars, fileVars, recordVars
  <2>3. ASSUME ReadClosed PROVE InPass' /\ Told'
    BY <2>1, <2>3, StandstillPass DEF ReadClosed
  <2>4. InPass' /\ Told'
    BY <2>1, <2>2, <2>3, LoopPass, SlotPass, ReadEntryPass, EndSlotPass, DeliverPass,
       EndPassPass DEF ReaderThread
  <2>5. Loaded(rawFile', recorded', indexCopy')
    BY <1>1, <2>1 DEF Pass, datWriterVars, fileVars, recordVars
  <2> QED
    BY <1>1, <2>4, <2>5 DEF PassInv
<1> QED
  BY <1>2, <1>3

LEMMA PassNext == DatInv /\ EntriesTimed /\ PassInv /\ [DatNext]_datVars => PassInv'
<1> SUFFICES ASSUME DatInv, EntriesTimed, PassInv, [DatNext]_datVars PROVE PassInv'
  OBVIOUS
<1>1. CASE UNCHANGED datVars
  BY <1>1 DEF PassInv, Loaded, InPass, Told, Erasing, datVars, datWriterVars, fileVars,
              streamVars, recordVars, datReaderVars, walkVars
<1> QED
  BY <1>1, WriterPass, ThreadPass, StartPass DEF DatNext

\* The frames that are delivered are those of the oldest entries, one each.
LEMMA PassReplays == PassInv => Replay
<1> SUFFICES ASSUME PassInv, sound PROVE Replay
  BY DEF Replay
<1>1. CASE phase = "off"
  <2>1. given = <<>>
    BY <1>1 DEF PassInv
  <2>2. DOMAIN given = {}
    BY <2>1
  <2> QED
    BY <1>1, <2>2 DEF Replay, Gave
<1>2. CASE phase # "off"
  <2>1. /\ indexCopy \subseteq Entries /\ \E b \in Nat : \A e \in indexCopy : e.time < b
        /\ \A e, d \in indexCopy : e.time = d.time => e = d
        /\ \A e \in indexCopy : indexCopy = {e} \/ Good(rawFile, recorded, e)
        /\ given \in Seq(Nat) /\ frames \in Seq(Nat) /\ now \in Nat
        /\ index \subseteq indexCopy
        /\ phase = "walk" => frames = <<>> /\ Swept(indexCopy, index, now - Step)
    BY <1>2 DEF PassInv, Loaded, InPass
  <2>2. PICK done \in SUBSET indexCopy :
          /\ \A e \in done : Good(rawFile, recorded, e)
          /\ DownClosed(done, indexCopy)
          /\ Tells(given \o frames, done)
          /\ Erasing => done = indexCopy \ index
    BY <1>2 DEF PassInv, Told
  <2> DEFINE all == given \o frames
             n == Len(given)
  <2>3. /\ DOMAIN given = 1..n /\ n \in Nat /\ Len(all) \in Nat /\ n <= Len(all)
        /\ \A i \in 1..n : all[i] = given[i]
        /\ phase = "walk" => Len(all) = n
    <3>1. /\ DOMAIN given = 1..n /\ n \in Nat /\ Len(all) = n + Len(frames) /\ Len(frames) \in Nat
          /\ \A i \in 1..n : all[i] = given[i]
      BY <2>1, Concat
    <3>2. phase = "walk" => Len(frames) = 0
      BY <2>1
    <3> HIDE DEF all, n
    <3> QED
      BY <3>1, <3>2
  <2> HIDE DEF all, n
  <2>4. PICK g \in [1..Len(all) -> done] : Lists(g, all, done)
    BY <2>2 DEF Tells, all
  <2>5. /\ \A i \in 1..n : g[i] \in done /\ given[i] = g[i].frame /\ g[i].time \in Nat
                           /\ recorded[given[i]].time = g[i].time
        /\ \A i, j \in 1..Len(all) : i < j => g[i].time < g[j].time
        /\ \A e \in done : \E i \in 1..Len(all) : g[i] = e
    <3>1. \A i \in 1..n : i \in 1..Len(all) /\ g[i] \in done
      BY <2>3
    <3>2. \A e \in done : e.time \in Nat /\ recorded[e.frame].time = e.time
      BY <2>1, <2>2 DEF Good, Entries
    <3> QED
      BY <2>3, <2>4, <3>1, <3>2 DEF Lists
  <2>6. \A i, j \in 1..n : i < j => recorded[given[i]].time < recorded[given[j]].time
    <3>1. \A i \in 1..n : i \in 1..Len(all)
      BY <2>3
    <3> QED
      BY <2>5, <3>1
  <2>7. \A i \in 1..n : \E e \in indexCopy : e.frame = given[i]
    BY <2>5
  <2>8. ASSUME NEW e \in done, NEW k \in Nat, k <= n, \A i \in 1..Len(all) : g[i] = e => i <= k
        PROVE  Gave(e)
    <3>1. PICK i \in 1..Len(all) : g[i] = e
      BY <2>5
    <3>2. i \in 1..n
      BY <2>3, <2>8, <3>1
    <3> QED
      BY <2>3, <2>5, <3>1, <3>2 DEF Gave
  <2>9. ASSUME NEW e \in indexCopy, NEW d \in indexCopy, e.time < d.time, Gave(d)
        PROVE  Gave(e)
    <3>1. PICK i \in 1..n : given[i] = d.frame
      BY <2>3, <2>9 DEF Gave
    <3>2. e.time \in Nat /\ d.time \in Nat
      BY <2>1 DEF Entries
    <3>3. Good(rawFile, recorded, d)
      BY <2>1, <2>9, <3>2
    <3>4. g[i] = d /\ d \in done
      BY <2>1, <2>5, <3>1, <3>3 DEF Good
    <3>5. e \in done
      BY <2>2, <2>9, <3>4 DEF DownClosed
    <3>6. \A j \in 1..Len(all) : g[j] = e => j <= i
      <4> SUFFICES ASSUME NEW j \in 1..Len(all), g[j] = e, i < j PROVE FALSE
        BY <2>3
      <4>1. g[i].time < g[j].time
        BY <2>3, <2>5
      <4> QED
        BY <2>9, <3>2, <3>4, <4>1
    <3> QED
      BY <2>3, <2>8, <3>5, <3>6
  <2>10. ASSUME phase = "walk", now >= Last, NEW e \in indexCopy, NEW d \in indexCopy,
                e.time < d.time, d.time + Step < Last
         PROVE  Gave(e)
    <3>1. d.time < now - Step
      <4>1. d.time \in Nat
        BY <2>1 DEF Entries
      <4>2. Last \in Nat
        BY <2>1, NewestOf DEF Last, Entries
      <4> QED
        BY <2>1, <2>10, <4>1, <4>2, StepAssumption
    <3>2. e \in done
      BY <2>1, <2>2, <2>10, <3>1 DEF Swept, Erasing
    <3> QED
      BY <2>3, <2>8, <2>10, <3>2
  <2> QED
    BY <2>3, <2>6, <2>7, <2>9, <2>10 DEF Replay
<1> QED
  BY <1>1, <1>2

\* A pass delivers the frames of the index in the order of their times, leaves
\* out none before one it delivers, and by its end has delivered all that it
\* owes (DatFileReader.cpp:65, :122), also while the writer goes on.
THEOREM ReplayInOrder == DatSpec => []Replay
<1>1. DatInit => PassInv /\ EntriesTimed
  BY InitPass
<1>2. DatInv /\ EntriesTimed /\ PassInv /\ [DatNext]_datVars => EntriesTimed' /\ PassInv'
  BY EntriesTimedNext, PassNext
<1> QED
  BY <1>1, <1>2, PassReplays, DatInvariant, PTL DEF DatSpec
=============================================================================
