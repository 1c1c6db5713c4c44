----------------------------- MODULE FrameStream -----------------------------
(***************************************************************************)
(* V4LFrame over a TCP connection.  SerializeTo writes a frame's header    *)
(* and its data through TcpClient and Socket::writeData; the peer reads    *)
(* frame after frame with AsyncDeserializeFrom from whatever pieces the    *)
(* connection delivers.                                                    *)
(*                                                                         *)
(* A byte stands for its frame, its part and its position, so that bytes   *)
(* that end up in the wrong place are seen.  The eight bytes that are read *)
(* before the length of the header is known are Prefix of them here.       *)
(* send() takes at least one byte of what it is given and, once it has     *)
(* failed, fails for ever.  A Read that yields nothing changes nothing:    *)
(* AsyncDeserializeFrom returns false and is called again.  What           *)
(* SerializeTo returns is left out; it compares a sum of counts with the   *)
(* frame's length, which two partial sends can make come out right.        *)
(***************************************************************************)
EXTENDS Integers, Sequences

CONSTANTS
  Frames,       \* frames that are sent
  HeaderSize,   \* the length of each frame's header, its name included
  DataSize,     \* the length of each frame's data, which may be none
  Prefix,       \* the part of the header that tells both
  MaxFrames,    \* bound: how many frames are sent
  Garbled,      \* a frame that nobody sent
  Unset         \* a byte that was not read yet

ASSUME SizesAssumption ==
  /\ Prefix \in Nat \ {0}
  /\ HeaderSize \in [Frames -> {n \in Nat : n > Prefix}] /\ DataSize \in [Frames -> Nat]
  /\ MaxFrames \in Nat
  /\ Garbled \notin Frames

VARIABLES
  wire,         \* bytes on their way
  gone,         \* send fails
  at,           \* where SerializeTo is: "idle", "header" or "data"
  frame,        \* the frame being written, or written last
  written,      \* writtenBytes of writeData
  calls,
  state,        \* State of the frame being read, or "lost"
  accumulated,
  mHeader,      \* the bytes of header ...
  mData,        \* ... and data that were read
  sent, received, broken

writerVars == <<at, frame, written, calls>>
readerVars == <<state, accumulated, mHeader, mData>>
historyVars == <<sent, received, broken>>
vars == <<wire, gone, writerVars, readerVars, historyVars>>

Bytes(f, part, size) == [i \in 1..size |-> <<f, part, i>>]
Header(f) == Bytes(f, "header", HeaderSize[f])
Data(f) == Bytes(f, "data", DataSize[f])
Blank(size) == [i \in 1..size |-> Unset]

Init ==
  /\ wire = <<>> /\ gone = FALSE
  /\ at = "idle" /\ frame \in Frames /\ written = 0 /\ calls = 0
  /\ state = "IF_HEADER" /\ accumulated = 0
  /\ mHeader = Blank(Prefix) /\ mData = <<>>
  /\ sent = <<>> /\ received = <<>> /\ broken = FALSE

-----------------------------------------------------------------------------
(* The writer. *)

SerializeTo(f) ==
  /\ at = "idle" /\ calls < MaxFrames
  /\ calls' = calls + 1
  /\ at' = "header" /\ frame' = f
  /\ written' = 0
  /\ UNCHANGED <<wire, gone, readerVars, historyVars>>

buffer == IF at = "header" THEN Header(frame) ELSE Data(frame)

\* Write returned: SerializeTo goes on with the data, whatever it returned.
NextWrite == at' = IF at = "header" THEN "data" ELSE "idle"

\* The last byte of the frame is in this buffer.
LastByte == at = (IF DataSize[frame] = 0 THEN "header" ELSE "data")

\* One send of writeData, which always begins at the start of the buffer.
Send ==
  /\ at # "idle" /\ ~gone
  /\ \E n \in 0..Len(buffer) :
       /\ n > 0 \/ buffer = <<>>
       /\ wire' = wire \o SubSeq(buffer, 1, n)
       /\ broken' = (broken \/ n < Len(buffer))
       /\ IF written + n < Len(buffer)
          THEN written' = written + n /\ UNCHANGED at
          ELSE written' = 0 /\ NextWrite
  /\ sent' = IF LastByte /\ at' # at /\ ~broken' THEN Append(sent, frame) ELSE sent
  /\ UNCHANGED <<gone, frame, calls, readerVars, received>>

SendFails ==
  /\ at # "idle"
  /\ gone' = TRUE /\ broken' = TRUE
  /\ written' = 0 /\ NextWrite
  /\ UNCHANGED <<wire, frame, calls, readerVars, sent, received>>

-----------------------------------------------------------------------------
(* The reader. *)

\* fillupBuffer's next Read: it puts n bytes after those that are there.
Read(buf, n) ==
  /\ n \in 1..Len(wire) \/ (n = 0 /\ accumulated = Len(buf))
  /\ n <= Len(buf) - accumulated
  /\ wire' = SubSeq(wire, n + 1, Len(wire))

Filled(buf, n) ==
  [i \in 1..Len(buf) |->
     IF i \in accumulated + 1 .. accumulated + n THEN wire[i - accumulated] ELSE buf[i]]

IsFull(buf, n) == accumulated + n = Len(buf)

\* Mutant of ReadPrefix: the header is read from its start again.
ReadPrefixReset(n) ==
  /\ state = "IF_HEADER" /\ Read(mHeader, n)
  /\ IF ~IsFull(mHeader, n)
     THEN /\ mHeader' = Filled(mHeader, n) /\ accumulated' = accumulated + n
          /\ UNCHANGED <<state, mData>>
     ELSE \E f \in Frames :
            /\ Filled(mHeader, n) = SubSeq(Header(f), 1, Prefix)
            /\ state' = "V4L_HEADER" /\ accumulated' = 0
            /\ mHeader' = Filled(mHeader, n) \o Blank(HeaderSize[f] - Prefix)
            /\ mData' = Blank(DataSize[f])
  /\ UNCHANGED <<gone, writerVars, historyVars>>

\* parseIFrameHeader: the prefix tells how long header and data are, and the
\* header is read on.  Lengths that nobody sent are the end of it.
ReadPrefix(n) ==
  /\ state = "IF_HEADER" /\ Read(mHeader, n)
  /\ accumulated' = accumulated + n
  /\ LET head == Filled(mHeader, n)
         Sender == {f \in Frames : head = SubSeq(Header(f), 1, Prefix)}
     IN \/ /\ ~IsFull(mHeader, n)
           /\ mHeader' = head /\ UNCHANGED <<state, mData>>
        \/ /\ IsFull(mHeader, n)
           /\ \E f \in Sender :
                /\ state' = "V4L_HEADER"
                /\ mHeader' = head \o Blank(HeaderSize[f] - Prefix)
                /\ mData' = Blank(DataSize[f])
        \/ /\ IsFull(mHeader, n) /\ Sender = {}
           /\ state' = "lost" /\ mHeader' = head /\ UNCHANGED mData
  /\ UNCHANGED <<gone, writerVars, historyVars>>

\* parseV4LFrameHeader.
ReadHeader(n) ==
  /\ state = "V4L_HEADER" /\ Read(mHeader, n)
  /\ mHeader' = Filled(mHeader, n)
  /\ IF IsFull(mHeader, n)
     THEN state' = "V4L_BODY" /\ accumulated' = 0
     ELSE accumulated' = accumulated + n /\ UNCHANGED state
  /\ UNCHANGED <<gone, mData, writerVars, historyVars>>

Content(data) ==
  IF \E f \in Frames : mHeader = Header(f) /\ data = Data(f)
  THEN CHOOSE f \in Frames : mHeader = Header(f) /\ data = Data(f)
  ELSE Garbled

\* The data; the caller takes the frame that is complete, and goes on with a
\* new V4LFrame.
ReadBody(n) ==
  /\ state = "V4L_BODY" /\ Read(mData, n)
  /\ IF IsFull(mData, n)
     THEN /\ received' = Append(received, Content(Filled(mData, n)))
          /\ state' = "IF_HEADER" /\ accumulated' = 0
          /\ mHeader' = Blank(Prefix) /\ mData' = <<>>
     ELSE /\ mData' = Filled(mData, n) /\ accumulated' = accumulated + n
          /\ UNCHANGED <<state, mHeader, received>>
  /\ UNCHANGED <<gone, writerVars, sent, broken>>

AsyncDeserializeFrom ==
  \E n \in 0..Len(wire) : ReadPrefix(n) \/ ReadHeader(n) \/ ReadBody(n)

-----------------------------------------------------------------------------
Writer == (\E f \in Frames : SerializeTo(f)) \/ Send \/ SendFails

Next == Writer \/ AsyncDeserializeFrom

Spec == Init /\ [][Next]_vars

\* The reader calls as long as there is something to read; the writer may
\* stop at any point.
FairSpec == Spec /\ WF_vars(AsyncDeserializeFrom)

-----------------------------------------------------------------------------
\* However the bytes are cut into pieces, the reader gets every frame as it was
\* sent, in order and in the end, as long as no send was partial or failed.
Channel == INSTANCE FrameChannel
FramesArrive == Channel!Spec
=============================================================================
