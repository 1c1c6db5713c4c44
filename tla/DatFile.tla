------------------------------- MODULE DatFile -------------------------------
(***************************************************************************)
(* DatFileWriter and DatFileReader (MLCommon/src/SensorData/DatFile): a    *)
(* recording is a file of frames and a file of index entries, each a       *)
(* timestamp and the offset of a frame.  The writer fills the buffers of   *)
(* two streams and may be killed at any point; the reader, a Worker, loads *)
(* the index and replays the frames in slots of Step, again and again.     *)
(*                                                                         *)
(* A frame is a header of one unit and some units of data, which SerializeTo *)
(* writes by two calls of Write.  Its user saves the index entry before or *)
(* after them.  The data's stream may write its buffer out at any time; the*)
(* index's does so in flush and close only, as the entries between two     *)
(* flushes are far fewer than its buffer takes.  Opening the files and     *)
(* writing them succeed.                                                   *)
(***************************************************************************)
EXTENDS Integers, Sequences

CONSTANTS
  Times,        \* timestamps in use
  Sizes,        \* sizes of the data of a frame
  FlushCount,   \* FramesCountToFlush: calls of Write between two flushes
  Step,         \* TimestampStep
  MaxRecords,   \* bound: frames recorded
  MaxSessions   \* bound: DatFileWriters that are opened

ASSUME TimesAssumption == Times \subseteq Nat /\ Sizes \subseteq Nat
ASSUME StepAssumption == Step \in Nat \ {0}
ASSUME FlushAssumption == FlushCount \in Nat \ {0} /\ FlushCount % 2 = 0

VARIABLES
  rawFile, indexFile,       \* what is in the files
  opened,                   \* mFilesOpened
  rawBuffer, indexBuffer,   \* what the streams hold back
  rawSize,                  \* mRawDataStreamSize
  writes,                   \* mFramesWritten
  plan,                     \* the calls the writer has still to make
  recorded,                 \* the frames recorded so far
  entryFirst,               \* whether SaveMetaData comes before SerializeTo
  sessions,
  mixed,                    \* the two files are not of one session
  phase,                    \* what the reader's thread does
  index,                    \* mIndicies
  indexCopy,                \* mIndicies as Start read it, and mCopyIndicies
  infinitely,               \* mReadInfinitely
  now,                      \* currentTimestamp
  due,                      \* the entries GetFramesAtTimestamp has to read
  frames,                   \* the frames it has read
  stopped,                  \* Stop was called
  given,                    \* what the pass delivered
  sound                     \* the reader's index and its data belong together

fileVars == <<rawFile, indexFile>>
streamVars == <<opened, rawBuffer, indexBuffer, rawSize, writes, plan>>
recordVars == <<recorded, entryFirst, sessions, mixed>>
walkVars == <<phase, index, indexCopy, infinitely, now, due, frames, stopped>>
datWriterVars == <<fileVars, streamVars, recordVars>>
datReaderVars == <<walkVars, given, sound>>
datVars == <<datWriterVars, datReaderVars>>

\* An entry of the index; frame says what it was written for, and no code
\* reads it.
Entry(t, o, n) == [time |-> t, offset |-> o, frame |-> n]

DatInit ==
  /\ rawFile = <<>> /\ indexFile = <<>>
  /\ opened = FALSE /\ rawBuffer = <<>> /\ indexBuffer = <<>>
  /\ rawSize = 0 /\ writes = 0 /\ plan = <<>>
  /\ recorded = <<>> /\ entryFirst \in BOOLEAN /\ sessions = 0 /\ mixed = FALSE
  /\ phase = "off" /\ index = {} /\ indexCopy = {} /\ infinitely = FALSE
  /\ now = 0 /\ due = {} /\ frames = <<>> /\ stopped = FALSE
  /\ given = <<>> /\ sound = TRUE

-----------------------------------------------------------------------------
(* The writer. *)

\* OpenFiles of a new DatFileWriter, which counts offsets from 0.
OpenFiles ==
  /\ ~opened /\ sessions < MaxSessions
  /\ sessions' = sessions + 1
  /\ opened' = TRUE /\ rawSize' = 0 /\ writes' = 0
  /\ \/ plan' = <<>>                            \* WritingStrategy::Append
        /\ mixed' = (mixed \/ rawFile # <<>>)
        /\ UNCHANGED <<rawFile, sound>>
     \/ plan' = <<"truncateIndex">>             \* WritingStrategy::Truncate
        /\ rawFile' = <<>> /\ mixed' = (indexFile # <<>>)
        /\ sound' = (phase = "off")
  /\ UNCHANGED <<indexFile, rawBuffer, indexBuffer, recorded, entryFirst, walkVars, given>>

TruncateIndex ==
  /\ plan # <<>> /\ Head(plan) = "truncateIndex"
  /\ indexFile' = <<>> /\ mixed' = FALSE
  /\ plan' = Tail(plan)
  /\ UNCHANGED <<rawFile, opened, rawBuffer, indexBuffer, rawSize, writes, recorded,
                 entryFirst, sessions, datReaderVars>>

\* The user records a frame: SerializeTo, and SaveMetaData before or after.
Record(t, size) ==
  /\ opened /\ plan = <<>> /\ Len(recorded) < MaxRecords
  /\ \A n \in DOMAIN recorded : recorded[n].time <= t
  /\ recorded' = Append(recorded, [time |-> t, size |-> size])
  /\ plan' = IF entryFirst THEN <<"entry", "header", "data">>
             ELSE <<"header", "data", "entry">>
  /\ UNCHANGED <<fileVars, opened, rawBuffer, indexBuffer, rawSize, writes, entryFirst,
                 sessions, mixed, datReaderVars>>

current == Len(recorded)
Units(n, part) ==
  IF part = "header" THEN <<<<n, 0>>>>
  ELSE [i \in 1..recorded[n].size |-> <<n, i>>]

\* Mutant of FlushCalls: the index is written out before the data.
FlushIndexFirst == <<"flushIndex", "flushRaw">>

FlushCalls == <<"flushRaw", "flushIndex">>

Write(part) ==
  /\ plan # <<>> /\ Head(plan) = part
  /\ rawBuffer' = rawBuffer \o Units(current, part)
  /\ IF writes + 1 = FlushCount
     THEN writes' = 0 /\ plan' = FlushCalls \o Tail(plan)
     ELSE writes' = writes + 1 /\ plan' = Tail(plan)
  /\ UNCHANGED <<fileVars, opened, indexBuffer, rawSize, recordVars, datReaderVars>>

SaveMetaData ==
  /\ plan # <<>> /\ Head(plan) = "entry"
  /\ indexBuffer' = Append(indexBuffer, Entry(recorded[current].time, rawSize, current))
  /\ rawSize' = rawSize + 1 + recorded[current].size
  /\ plan' = Tail(plan)
  /\ UNCHANGED <<fileVars, opened, rawBuffer, writes, recordVars, datReaderVars>>

\* The data's stream writes a part of its buffer out.
Spill ==
  /\ \E k \in 1..Len(rawBuffer) :
       /\ rawFile' = rawFile \o SubSeq(rawBuffer, 1, k)
       /\ rawBuffer' = SubSeq(rawBuffer, k + 1, Len(rawBuffer))
  /\ UNCHANGED <<indexFile, opened, indexBuffer, rawSize, writes, plan, recordVars,
                 datReaderVars>>

FlushRaw ==
  /\ plan # <<>> /\ Head(plan) = "flushRaw"
  /\ rawFile' = rawFile \o rawBuffer /\ rawBuffer' = <<>>
  /\ plan' = Tail(plan)
  /\ UNCHANGED <<indexFile, opened, indexBuffer, rawSize, writes, recordVars, datReaderVars>>

FlushIndex ==
  /\ plan # <<>> /\ Head(plan) = "flushIndex"
  /\ indexFile' = indexFile \o indexBuffer /\ indexBuffer' = <<>>
  /\ plan' = Tail(plan)
  /\ UNCHANGED <<rawFile, opened, rawBuffer, rawSize, writes, recordVars, datReaderVars>>

\* ~DatFileWriter closes the data file, then the index.
Close ==
  /\ opened /\ plan = <<>>
  /\ plan' = FlushCalls \o <<"closed">>
  /\ UNCHANGED <<fileVars, opened, rawBuffer, indexBuffer, rawSize, writes, recordVars,
                 datReaderVars>>

Closed ==
  /\ plan # <<>> /\ Head(plan) = "closed"
  /\ opened' = FALSE /\ plan' = <<>>
  /\ UNCHANGED <<fileVars, rawBuffer, indexBuffer, rawSize, writes, recordVars, datReaderVars>>

\* The writer's process is killed: what the streams hold back is lost.
Kill ==
  /\ opened
  /\ opened' = FALSE /\ plan' = <<>> /\ rawBuffer' = <<>> /\ indexBuffer' = <<>>
  /\ UNCHANGED <<fileVars, rawSize, writes, recordVars, datReaderVars>>

DatWriter ==
  \/ OpenFiles \/ TruncateIndex \/ SaveMetaData \/ Write("header") \/ Write("data")
  \/ Spill \/ FlushRaw \/ FlushIndex \/ Close \/ Closed \/ Kill
  \/ \E t \in Times, size \in Sizes : Record(t, size)

-----------------------------------------------------------------------------
(* The reader. *)

Earlier(entries, t) == {e \in entries : e.time < t}
Newest(entries) == CHOOSE e \in entries : \A d \in entries : d.time <= e.time
Oldest(entries) == CHOOSE e \in entries : \A d \in entries : d.time >= e.time

\* ReadIndicies: insert() keeps the first entry of a timestamp.  Nothing is
\* read from a file without entries, and what the two uninitialized variables
\* hold is inserted: whatever it is, it is the only entry and no frame is read.
LoadIndex ==
  IF indexFile = <<>> THEN {Entry(0, 0, 0)}
  ELSE {indexFile[k] : k \in {j \in DOMAIN indexFile :
          \A i \in 1..(j - 1) : indexFile[i].time # indexFile[j].time}}

\* GetTimestampPeeks: mStartTimestamp and mEndTimestamp.
First == Oldest(indexCopy).time
Last == Newest(indexCopy).time

\* Start of a DatFileReader that was not started before.
StartReader(inf) ==
  /\ phase = "off" /\ sessions > 0
  /\ index' = LoadIndex
  /\ indexCopy' = index' /\ infinitely' = inf
  /\ phase' = "start" /\ sound' = ~mixed
  /\ UNCHANGED <<datWriterVars, now, due, frames, stopped, given>>

\* The thread is on its own from here: Stop detaches it.
Stop ==
  /\ phase \notin {"off", "ended"} /\ ~stopped
  /\ stopped' = TRUE
  /\ UNCHANGED <<datWriterVars, phase, index, indexCopy, infinitely, now, due, frames,
                 given, sound>>

\* The thread calls Loop, or ends.
Loop ==
  /\ phase = "start"
  /\ IF stopped
     THEN phase' = "ended" /\ UNCHANGED <<now, given>>
     ELSE phase' = "walk" /\ now' = First
          /\ given' = IF infinitely THEN <<>> ELSE given
  /\ UNCHANGED <<datWriterVars, index, indexCopy, infinitely, due, frames, stopped, sound>>

\* GetFramesAtTimestamp: all entries before this time but the last of them.
Slot ==
  /\ phase = "walk" /\ now < Last
  /\ LET below == Earlier(index, now) IN
       due' = IF below = {} THEN {} ELSE below \ {Newest(below)}
  /\ frames' = <<>> /\ phase' = "read"
  /\ UNCHANGED <<datWriterVars, index, indexCopy, infinitely, now, stopped, given, sound>>

\* What DeserializeFrom finds at an offset: a frame, Garbage where none begins
\* or its data is another's, or Nothing: at the end of the file Read returns 0,
\* and it reads on for ever.
Nothing == 0
Garbage == -1
Found(offset) ==
  IF offset >= Len(rawFile) THEN Nothing
  ELSE LET n == rawFile[offset + 1][1] IN
    IF rawFile[offset + 1][2] # 0 THEN Garbage
    ELSE IF offset + 1 + recorded[n].size > Len(rawFile) THEN Nothing
    ELSE IF SubSeq(rawFile, offset + 2, offset + 1 + recorded[n].size) = Units(n, "data")
         THEN n ELSE Garbage

\* The oldest of them is read, and erased from the map that for_each walks:
\* the thread may go on as if nothing had happened, or be lost.
ReadEntry ==
  /\ phase = "read" /\ due # {} /\ ~stopped
  /\ LET e == Oldest(due)
         found == Found(e.offset) IN
     \/ /\ found > 0
        /\ index' = index \ {e} /\ due' = due \ {e}
        /\ frames' = Append(frames, found) /\ UNCHANGED phase
     \/ /\ found # Nothing
        /\ phase' = "lost" /\ UNCHANGED <<index, due, frames>>
     \/ /\ found = Nothing
        /\ phase' = "hang" /\ UNCHANGED <<index, due, frames>>
  /\ UNCHANGED <<datWriterVars, indexCopy, infinitely, now, stopped, given, sound>>

\* Stop has closed the streams, and destroys them.
ReadClosed ==
  /\ phase = "read" /\ due # {} /\ stopped
  /\ phase' \in {"hang", "lost"}
  /\ UNCHANGED <<datWriterVars, index, indexCopy, infinitely, now, due, frames, stopped,
                 given, sound>>

\* Mutant of EndSlot: an empty slot is skipped before the time is advanced.
EndSlotEarly ==
  /\ phase = "read" /\ due = {}
  /\ now' = IF frames = <<>> THEN now ELSE now + Step
  /\ phase' = IF frames = <<>> THEN "walk" ELSE "deliver"
  /\ UNCHANGED <<datWriterVars, index, indexCopy, infinitely, due, frames, stopped, given,
                 sound>>

EndSlot ==
  /\ phase = "read" /\ due = {}
  /\ now' = now + Step
  /\ phase' = IF frames = <<>> THEN "walk" ELSE "deliver"
  /\ UNCHANGED <<datWriterVars, index, indexCopy, infinitely, due, frames, stopped, given,
                 sound>>

\* ConsumeData of the listener.
Deliver ==
  /\ phase = "deliver"
  /\ given' = Append(given, Head(frames)) /\ frames' = Tail(frames)
  /\ phase' = IF Len(frames) = 1 THEN "walk" ELSE "deliver"
  /\ UNCHANGED <<datWriterVars, index, indexCopy, infinitely, now, due, stopped, sound>>

\* Mutant of EndPass: what was read stays erased, also for an infinite reader.
EndPassOnce ==
  /\ phase = "walk" /\ now >= Last
  /\ phase' = "start"
  /\ UNCHANGED <<datWriterVars, index, indexCopy, infinitely, now, due, frames, stopped,
                 given, sound>>

EndPass ==
  /\ phase = "walk" /\ now >= Last
  /\ index' = IF infinitely THEN indexCopy ELSE index
  /\ phase' = "start"
  /\ UNCHANGED <<datWriterVars, indexCopy, infinitely, now, due, frames, stopped, given,
                 sound>>

ReaderThread ==
  Loop \/ Slot \/ ReadEntry \/ ReadClosed \/ EndSlot \/ Deliver \/ EndPass

DatNext ==
  \/ DatWriter \/ ReaderThread \/ Stop
  \/ \E inf \in BOOLEAN : StartReader(inf)

DatSpec == DatInit /\ [][DatNext]_datVars

-----------------------------------------------------------------------------
\* An entry of the index file leads to its frame, which is whole in the file of
\* the data, at every point at which the writer may be killed.  Unless the files
\* are of different sessions: OpenFiles appends to files that are there and
\* counts offsets from 0, and it truncates the one before the other.
IndexCovered ==
  mixed \/ \A k \in DOMAIN indexFile :
             Found(indexFile[k].offset) = indexFile[k].frame

\* A pass gives the frames of the index in the order of their times and leaves
\* out none before one it gives; when it ends it has given all of those that are
\* followed by another one, a step or more before the end.
Gave(e) == \E i \in DOMAIN given : given[i] = e.frame
Replay ==
  sound =>
    /\ \A i, j \in DOMAIN given : i < j => recorded[given[i]].time < recorded[given[j]].time
    /\ \A i \in DOMAIN given : \E e \in indexCopy : e.frame = given[i]
    /\ \A e, d \in indexCopy : e.time < d.time /\ Gave(d) => Gave(e)
    /\ phase = "walk" /\ now >= Last =>
         \A e, d \in indexCopy : e.time < d.time /\ d.time + Step < Last => Gave(e)

\* A pass over a recording comes to its end: the thread neither hangs in a read
\* nor stays in a slot, unless Stop or the erased iterator got in its way.
PassEnds ==
  (phase = "walk" /\ sound)
    ~> (phase = "walk" /\ now >= Last) \/ phase = "lost" \/ stopped \/ ~sound
=============================================================================
