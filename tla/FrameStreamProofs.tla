-------------------------- MODULE FrameStreamProofs --------------------------
(***************************************************************************)
(* Frames of any sizes, in any number, written to a connection and read    *)
(* from any pieces of it: as long as no send was partial or failed, they   *)
(* come out as they were sent and in that order.                           *)
(***************************************************************************)
EXTENDS FrameStream, SequenceTheorems, TLAPS

Octets == Frames \X {"header", "data"} \X Nat

Size(f) == HeaderSize[f] + DataSize[f]

\* The bytes of a frame, counted through header and data.
Byte(f, i) == IF i <= HeaderSize[f] THEN <<f, "header", i>> ELSE <<f, "data", i - HeaderSize[f]>>

\* A buffer for those from one on, of which the first got are there.
Part(f, from, got, size) == [i \in 1..size |-> IF i <= got THEN Byte(f, from + i) ELSE Unset]

-----------------------------------------------------------------------------
(* What is on the wire w, of length len: the frames of t are numbered up   *)
(* to last, which is being written; the reader has read the first ro bytes *)
(* of frame r, the writer has written the first wo of frame last.          *)

\* start[k] is the place before the first byte of frame k; the reader's own
\* frame begins before the wire.
Starts(start, len, t, r, last, ro, wo) ==
  /\ start[r] = 0 - ro
  /\ start[last] + wo = len
  /\ \A k \in r..(last - 1) : start[k + 1] = start[k] + Size(t[k])
  /\ \A k \in r..last : start[k] <= len

Carries(start, w, len, t, r, last) ==
  \A k \in r..last, j \in 1..len :
    start[k] < j /\ j <= start[k] + Size(t[k]) => w[j] = Byte(t[k], j - start[k])

Between(w, len, t, r, last, ro, wo) ==
  \E start \in [Nat -> Int] :
    Starts(start, len, t, r, last, ro, wo) /\ Carries(start, w, len, t, r, last)

-----------------------------------------------------------------------------
(* The inductive invariant. *)

\* Where the writer is in its frame: after a whole buffer.
Written == IF at = "data" /\ DataSize[frame] > 0 THEN HeaderSize[frame] ELSE 0

\* What the reader has of frame f, and how much that is.
ReadOf(f) == IF state = "V4L_BODY" THEN HeaderSize[f] + accumulated ELSE accumulated

ReaderAt(f) ==
  \/ /\ state = "IF_HEADER" /\ accumulated \in 0..(Prefix - 1)
     /\ mHeader = Part(f, 0, accumulated, Prefix)
  \/ /\ state = "V4L_HEADER" /\ accumulated \in Prefix..(HeaderSize[f] - 1)
     /\ mHeader = Part(f, 0, accumulated, HeaderSize[f])
     /\ mData = Part(f, HeaderSize[f], 0, DataSize[f])
  \/ /\ state = "V4L_BODY" /\ accumulated \in 0..DataSize[f]
     /\ mHeader = Part(f, 0, HeaderSize[f], HeaderSize[f])
     /\ mData = Part(f, HeaderSize[f], accumulated, DataSize[f])

WriterTypes ==
  /\ wire \in Seq(Octets) /\ at \in {"idle", "header", "data"}
  /\ frame \in Frames /\ written = 0
  /\ sent \in Seq(Frames) /\ received \in Seq(Frames) /\ Len(received) <= Len(sent)

\* All frames whose writing has begun, and the one that is to be read.
Begun == Append(sent, frame)
Due == Begun[Len(received) + 1]

Whole ==
  /\ WriterTypes
  /\ ReaderAt(Due)
  /\ Between(wire, Len(wire), Begun, Len(received) + 1, Len(sent) + 1, ReadOf(Due), Written)

StreamInv == broken \in BOOLEAN /\ (~broken => Whole)
-----------------------------------------------------------------------------
(* Frames and buffers. *)

LEMMA Sizes ==
  ASSUME NEW f \in Frames
  PROVE  /\ HeaderSize[f] \in Nat /\ HeaderSize[f] > Prefix /\ DataSize[f] \in Nat
         /\ Prefix \in Nat /\ Prefix > 0 /\ Size(f) \in Nat /\ Size(f) > 0
<1>1. HeaderSize[f] \in {n \in Nat : n > Prefix} /\ DataSize[f] \in Nat /\ Prefix \in Nat \ {0}
  BY SizesAssumption
<1> QED
  BY <1>1 DEF Size

LEMMA Buffers ==
  ASSUME NEW f \in Frames
  PROVE  /\ Header(f) = Part(f, 0, HeaderSize[f], HeaderSize[f])
         /\ Data(f) = Part(f, HeaderSize[f], DataSize[f], DataSize[f])
         /\ SubSeq(Header(f), 1, Prefix) = Part(f, 0, Prefix, Prefix)
<1> DEFINE h == HeaderSize[f]
           d == DataSize[f]
<1>1. h \in Nat /\ d \in Nat /\ Prefix \in Nat /\ h > Prefix
  BY Sizes
<1> HIDE DEF h, d
<1>2. \A i \in 1..h : Byte(f, 0 + i) = <<f, "header", i>>
  BY <1>1 DEF Byte, h
<1>3. \A i \in 1..d : Byte(f, h + i) = <<f, "data", i>>
  <2> TAKE i \in 1..d
  <2>1. ~(h + i <= h) /\ (h + i) - h = i
    BY <1>1
  <2> QED
    BY <2>1 DEF Byte, h
<1>4. Header(f) = [i \in 1..h |-> <<f, "header", i>>] /\ Data(f) = [i \in 1..d |-> <<f, "data", i>>]
  BY DEF Header, Data, Bytes, h, d
<1>5. Header(f) = Part(f, 0, h, h)
  BY <1>2, <1>4 DEF Part
<1>6. Data(f) = Part(f, h, d, d)
  BY <1>3, <1>4 DEF Part
<1>7. SubSeq(Header(f), 1, Prefix) = Part(f, 0, Prefix, Prefix)
  <2>1. \A i \in 1..Prefix : i \in 1..h
    BY <1>1
  <2>2. Header(f) \in Seq(Nat \cup {Header(f)[i] : i \in 1..h}) /\ Len(Header(f)) = h
    BY <1>1, <1>4
  <2>3. SubSeq(Header(f), 1, Prefix) = [i \in 1..Prefix |-> Header(f)[i]]
    BY <1>1, <2>2
  <2> QED
    BY <1>2, <1>4, <2>1, <2>3 DEF Part
<1> QED
  BY <1>5, <1>6, <1>7 DEF h, d

LEMMA OctetOf ==
  ASSUME NEW f \in Frames, NEW i \in Nat \ {0}
  PROVE  Byte(f, i) \in Octets
<1>1. HeaderSize[f] \in Nat
  BY Sizes
<1>2. CASE i <= HeaderSize[f]
  <2>1. <<f, "header", i>> \in Octets
    BY DEF Octets
  <2> QED
    BY <1>2, <2>1 DEF Byte
<1>3. CASE ~(i <= HeaderSize[f])
  <2>1. i - HeaderSize[f] \in Nat
    BY <1>1, <1>3
  <2>2. <<f, "data", i - HeaderSize[f]>> \in Octets
    BY <2>1 DEF Octets
  <2> QED
    BY <1>3, <2>2 DEF Byte
<1> QED
  BY <1>2, <1>3

\* A byte tells its frame.
LEMMA ByteTells ==
  ASSUME NEW f \in Frames, NEW g \in Frames, NEW i \in Nat, Byte(f, i) = Byte(g, i)
  PROVE  f = g
<1>1. Byte(f, i)[1] = f
  BY DEF Byte
<1>2. Byte(g, i)[1] = g
  BY DEF Byte
<1> QED
  BY <1>1, <1>2

LEMMA BufferOctets ==
  ASSUME NEW f \in Frames
  PROVE  /\ Header(f) \in Seq(Octets) /\ Len(Header(f)) = HeaderSize[f]
         /\ \A i \in 1..HeaderSize[f] : Header(f)[i] = Byte(f, 0 + i)
         /\ Data(f) \in Seq(Octets) /\ Len(Data(f)) = DataSize[f]
         /\ \A i \in 1..DataSize[f] : Data(f)[i] = Byte(f, HeaderSize[f] + i)
<1> DEFINE h == HeaderSize[f]
           d == DataSize[f]
<1>1. h \in Nat /\ d \in Nat
  BY Sizes
<1>2. Header(f) = [i \in 1..h |-> Byte(f, 0 + i)]
  BY Buffers DEF Part, h
<1>3. Data(f) = [i \in 1..d |-> Byte(f, h + i)]
  BY Buffers DEF Part, h, d
<1> HIDE DEF h, d
<1>4. \A i \in 1..h : Byte(f, 0 + i) \in Octets
  <2> TAKE i \in 1..h
  <2>1. 0 + i \in Nat \ {0}
    OBVIOUS
  <2> QED
    BY <2>1, OctetOf
<1>5. \A i \in 1..d : Byte(f, h + i) \in Octets
  <2> TAKE i \in 1..d
  <2>1. h + i \in Nat \ {0}
    BY <1>1
  <2> QED
    BY <2>1, OctetOf
<1>6. Header(f) \in Seq(Octets) /\ Len(Header(f)) = h
  BY <1>1, <1>2, <1>4
<1>7. Data(f) \in Seq(Octets) /\ Len(Data(f)) = d
  BY <1>1, <1>3, <1>5
<1> QED
  BY <1>2, <1>3, <1>6, <1>7 DEF h, d

LEMMA WholeSeq == ASSUME NEW S, NEW q \in Seq(S) PROVE SubSeq(q, 1, Len(q)) = q
OBVIOUS

LEMMA AsFunction == ASSUME NEW S, NEW q \in Seq(S) PROVE q = [i \in 1..Len(q) |-> q[i]]
OBVIOUS

LEMMA RestOf ==
  ASSUME NEW S, NEW q \in Seq(S), NEW n \in Nat, n <= Len(q)
  PROVE  LET rest == SubSeq(q, n + 1, Len(q))
         IN /\ rest \in Seq(S) /\ Len(rest) = Len(q) - n
            /\ \A j \in 1..(Len(q) - n) : rest[j] = q[j + n]
OBVIOUS

\* What fillupBuffer makes of a buffer, when the bytes are those that are missing.
LEMMA FilledUp ==
  ASSUME NEW f, NEW from \in Nat, NEW size \in Nat, accumulated \in Nat,
         NEW n \in Nat, accumulated + n <= size,
         \A i \in 1..n : wire[i] = Byte(f, from + accumulated + i)
  PROVE  Filled(Part(f, from, accumulated, size), n) = Part(f, from, accumulated + n, size)
<1> DEFINE got == accumulated
           b == Part(f, from, got, size)
<1>1. Len(b) = size /\ \A i \in 1..size : b[i] = IF i <= got THEN Byte(f, from + i) ELSE Unset
  BY DEF Part
<1> HIDE DEF b
<1>2. ASSUME NEW i \in 1..size
      PROVE  (IF i \in got + 1 .. got + n THEN wire[i - got] ELSE b[i])
               = IF i <= got + n THEN Byte(f, from + i) ELSE Unset
  <2>1. CASE i \in got + 1 .. got + n
    <3>1. i - got \in 1..n /\ from + got + (i - got) = from + i /\ i <= got + n
      BY <2>1
    <3>2. wire[i - got] = Byte(f, from + got + (i - got))
      BY <3>1
    <3> QED
      BY <2>1, <3>1, <3>2
  <2>2. CASE i \notin got + 1 .. got + n
    <3>1. i <= got <=> i <= got + n
      BY <2>2
    <3> QED
      BY <1>1, <2>2, <3>1
  <2> QED
    BY <2>1, <2>2
<1>3. Filled(b, n) = [i \in 1..size |-> IF i \in got + 1 .. got + n THEN wire[i - got] ELSE b[i]]
  BY <1>1 DEF Filled
<1>4. Filled(b, n) = Part(f, from, got + n, size)
  BY <1>2, <1>3 DEF Part
<1> QED
  BY <1>4 DEF b

-----------------------------------------------------------------------------
(* Reading and writing the wire. *)

\* The bytes that come next belong to the frame that is read; once it is
\* complete the reader is at the next one, and the writer is through with it.
LEMMA Take ==
  ASSUME NEW r \in Nat, NEW last \in Nat, r <= last, NEW len \in Nat, NEW n \in Nat, n <= len,
         NEW ro \in Nat, NEW wo \in Nat, NEW t, NEW w, NEW rest,
         \A k \in r..last : Size(t[k]) \in Nat,
         Between(w, len, t, r, last, ro, wo), wo < Size(t[last]), ro + n <= Size(t[r]),
         \A j \in 1..(len - n) : rest[j] = w[j + n]
  PROVE  /\ \A i \in 1..n : w[i] = Byte(t[r], ro + i)
         /\ Between(rest, len - n, t, r, last, ro + n, wo)
         /\ ro + n = Size(t[r]) => r < last /\ Between(rest, len - n, t, r + 1, last, 0, wo)
<1>1. PICK start \in [Nat -> Int] :
        Starts(start, len, t, r, last, ro, wo) /\ Carries(start, w, len, t, r, last)
  BY DEF Between
<1>2. r \in r..last /\ last \in r..last
  OBVIOUS
<1>3. \A k \in r..last : k \in Nat /\ start[k] \in Int
  OBVIOUS
<1>4. start[r] = 0 - ro /\ start[last] + wo = len
  BY <1>1 DEF Starts
<1>5. \A k \in r..(last - 1) : start[k + 1] = start[k] + Size(t[k])
  BY <1>1 DEF Starts
<1>6. \A k \in r..last : start[k] <= len
  BY <1>1 DEF Starts
<1>7. \A k \in r..last, j \in 1..len :
        start[k] < j /\ j <= start[k] + Size(t[k]) => w[j] = Byte(t[k], j - start[k])
  BY <1>1 DEF Carries
<1>8. ASSUME NEW i \in 1..n PROVE w[i] = Byte(t[r], ro + i)
  <2>1. i \in 1..len /\ start[r] < i /\ i <= start[r] + Size(t[r]) /\ i - start[r] = ro + i
    BY <1>2, <1>3, <1>4
  <2> QED
    BY <1>2, <1>7, <2>1
<1> DEFINE later == [k \in Nat |-> start[k] - n]
<1>9. /\ later \in [Nat -> Int]
      /\ \A k \in r..last : later[k] = start[k] - n
  BY <1>3
<1> HIDE DEF later
<1>10. Carries(later, rest, len - n, t, r, last)
  <2> SUFFICES ASSUME NEW k \in r..last, NEW j \in 1..(len - n), later[k] < j,
                      j <= later[k] + Size(t[k])
               PROVE  rest[j] = Byte(t[k], j - later[k])
    BY DEF Carries
  <2>1. start[k] \in Int /\ Size(t[k]) \in Nat /\ later[k] = start[k] - n
    BY <1>3, <1>9
  <2>2. /\ j + n \in 1..len /\ start[k] < j + n
        /\ j + n <= start[k] + Size(t[k]) /\ (j + n) - start[k] = j - later[k]
    BY <2>1
  <2>3. w[j + n] = Byte(t[k], (j + n) - start[k])
    BY <1>7, <2>2
  <2> QED
    BY <2>2, <2>3
<1>11. later[r] = 0 - (ro + n) /\ later[last] + wo = len - n
  <2>1. start[r] \in Int /\ start[last] \in Int /\ later[r] = start[r] - n
        /\ later[last] = start[last] - n
    BY <1>2, <1>3, <1>9
  <2> QED
    BY <1>4, <2>1
<1>12. ASSUME NEW k \in r..(last - 1) PROVE later[k + 1] = later[k] + Size(t[k])
  <2>1. k \in r..last /\ k + 1 \in r..last
    OBVIOUS
  <2>2. start[k] \in Int /\ start[k + 1] \in Int /\ Size(t[k]) \in Nat
        /\ later[k] = start[k] - n /\ later[k + 1] = start[k + 1] - n
    BY <1>3, <1>9, <2>1
  <2>3. start[k + 1] = start[k] + Size(t[k])
    BY <1>5
  <2> QED
    BY <2>2, <2>3
<1>13. ASSUME NEW k \in r..last PROVE later[k] <= len - n
  <2>1. start[k] \in Int /\ later[k] = start[k] - n /\ start[k] <= len
    BY <1>3, <1>6, <1>9
  <2> QED
    BY <2>1
<1>14. Starts(later, len - n, t, r, last, ro + n, wo)
  BY <1>11, <1>12, <1>13 DEF Starts
<1>15. ASSUME ro + n = Size(t[r])
       PROVE  r < last /\ Between(rest, len - n, t, r + 1, last, 0, wo)
  <2>1. ASSUME r = last PROVE FALSE
    <3>1. wo < ro + n
      BY <1>15, <2>1
    <3>2. (0 - ro) + wo = len
      BY <1>4, <2>1
    <3> QED
      BY <3>1, <3>2
  <2>2. r < last /\ r \in r..(last - 1)
    BY <2>1
  <2>3. later[r + 1] = later[r] + Size(t[r]) /\ Size(t[r]) \in Nat
    BY <1>2, <1>12, <2>2
  <2>4. later[r + 1] = 0 - 0
    BY <1>11, <1>15, <2>3
  <2>5. /\ \A k \in (r + 1)..(last - 1) : k \in r..(last - 1)
        /\ \A k \in (r + 1)..last : k \in r..last
    OBVIOUS
  <2>6. Starts(later, len - n, t, r + 1, last, 0, wo)
    BY <1>11, <1>12, <1>13, <2>4, <2>5 DEF Starts
  <2>7. Carries(later, rest, len - n, t, r + 1, last)
    BY <1>10, <2>5 DEF Carries
  <2> QED
    BY <1>9, <2>2, <2>6, <2>7 DEF Between
<1>16. Between(rest, len - n, t, r, last, ro + n, wo)
  BY <1>9, <1>10, <1>14 DEF Between
<1> QED
  BY <1>8, <1>15, <1>16

\* The writer appends the next bytes of its frame.
LEMMA Put ==
  ASSUME NEW r \in Nat, NEW last \in Nat, r <= last, NEW len \in Nat, NEW n \in Nat,
         NEW ro \in Nat, NEW wo \in Nat, NEW t, NEW w, NEW longer,
         \A k \in r..last : Size(t[k]) \in Nat,
         Between(w, len, t, r, last, ro, wo),
         \A j \in 1..len : longer[j] = w[j],
         \A i \in 1..n : longer[len + i] = Byte(t[last], wo + i)
  PROVE  Between(longer, len + n, t, r, last, ro, wo + n)
<1>1. PICK start \in [Nat -> Int] :
        Starts(start, len, t, r, last, ro, wo) /\ Carries(start, w, len, t, r, last)
  BY DEF Between
<1>2. \A k \in r..last : k \in Nat /\ start[k] \in Int
  OBVIOUS
<1>3. start[r] = 0 - ro /\ start[last] + wo = len
  BY <1>1 DEF Starts
<1>4. \A k \in r..(last - 1) : start[k + 1] = start[k] + Size(t[k])
  BY <1>1 DEF Starts
<1>5. \A k \in r..last : start[k] <= len
  BY <1>1 DEF Starts
<1>6. start[last] + (wo + n) = len + n
  <2>1. start[last] \in Int
    BY <1>2
  <2> QED
    BY <1>3, <2>1
<1>7. ASSUME NEW k \in r..last PROVE start[k] <= len + n
  <2>1. start[k] \in Int /\ start[k] <= len
    BY <1>2, <1>5
  <2> QED
    BY <2>1
<1>8. Starts(start, len + n, t, r, last, ro, wo + n)
  BY <1>3, <1>4, <1>6, <1>7 DEF Starts
<1>9. Carries(start, longer, len + n, t, r, last)
  <2> SUFFICES ASSUME NEW k \in r..last, NEW j \in 1..(len + n), start[k] < j,
                      j <= start[k] + Size(t[k])
               PROVE  longer[j] = Byte(t[k], j - start[k])
    BY DEF Carries
  <2>1. start[k] \in Int /\ Size(t[k]) \in Nat
    BY <1>2
  <2>2. CASE j <= len
    <3>1. j \in 1..len
      BY <2>2
    <3>2. w[j] = Byte(t[k], j - start[k])
      BY <1>1, <3>1 DEF Carries
    <3> QED
      BY <3>1, <3>2
  <2>3. CASE j > len
    <3>1. ASSUME k # last PROVE FALSE
      <4>1. k \in r..(last - 1) /\ k + 1 \in r..last
        BY <3>1
      <4>2. start[k + 1] = start[k] + Size(t[k]) /\ start[k + 1] <= len
        BY <1>4, <1>5, <4>1
      <4> QED
        BY <2>1, <2>3, <4>2
    <3>2. k = last
      BY <3>1
    <3>3. j - len \in 1..n /\ len + (j - len) = j /\ wo + (j - len) = j - start[k]
      BY <1>3, <2>1, <2>3, <3>2
    <3> QED
      BY <3>2, <3>3
  <2> QED
    BY <2>2, <2>3
<1> QED
  BY <1>8, <1>9 DEF Between

\* A frame that was written is followed by another one, ...
LEMMA Complete ==
  ASSUME NEW r \in Nat, NEW last \in Nat, r <= last, NEW len \in Nat,
         NEW ro \in Nat, NEW t, NEW u, NEW w,
         Size(t[last]) \in Nat, Between(w, len, t, r, last, ro, Size(t[last])),
         \A k \in r..last : u[k] = t[k]
  PROVE  Between(w, len, u, r, last + 1, ro, 0)
<1>1. PICK start \in [Nat -> Int] :
        Starts(start, len, t, r, last, ro, Size(t[last])) /\ Carries(start, w, len, t, r, last)
  BY DEF Between
<1> DEFINE after == [start EXCEPT ![last + 1] = len]
<1>2. /\ after \in [Nat -> Int] /\ after[last + 1] = len
      /\ \A k \in r..last : after[k] = start[k]
  OBVIOUS
<1> HIDE DEF after
<1>3. /\ \A k \in r..(last + 1) : k \in r..last \/ k = last + 1
      /\ r \in r..last /\ last \in r..last
  OBVIOUS
<1>4. \A k \in r..last : start[k] \in Int /\ start[k] <= len
  BY <1>1 DEF Starts
<1>5. start[r] = 0 - ro /\ start[last] + Size(t[last]) = len
  BY <1>1 DEF Starts
<1>6. ASSUME NEW k \in r..((last + 1) - 1) PROVE after[k + 1] = after[k] + Size(u[k])
  <2>1. CASE k \in r..(last - 1)
    <3>1. k \in r..last /\ k + 1 \in r..last
      BY <2>1
    <3>2. start[k + 1] = start[k] + Size(t[k])
      BY <1>1, <2>1 DEF Starts
    <3> QED
      BY <1>2, <3>1, <3>2
  <2>2. CASE k = last
    BY <1>2, <1>3, <1>5, <2>2
  <2> QED
    BY <2>1, <2>2
<1>7. \A k \in r..(last + 1) : after[k] <= len
  BY <1>2, <1>3, <1>4
<1>8. Starts(after, len, u, r, last + 1, ro, 0)
  BY <1>2, <1>3, <1>5, <1>6, <1>7 DEF Starts
<1>9. Carries(after, w, len, u, r, last + 1)
  <2> SUFFICES ASSUME NEW k \in r..(last + 1), NEW j \in 1..len, after[k] < j,
                      j <= after[k] + Size(u[k])
               PROVE  w[j] = Byte(u[k], j - after[k])
    BY DEF Carries
  <2>1. k \in r..last /\ after[k] = start[k] /\ u[k] = t[k]
    BY <1>2, <1>3
  <2> QED
    BY <1>1, <2>1 DEF Carries
<1> QED
  BY <1>2, <1>8, <1>9 DEF Between

\* ... which may be any frame before its first byte is written.
LEMMA Unwritten ==
  ASSUME NEW r \in Nat, NEW last \in Nat, r <= last, NEW len \in Nat,
         NEW ro \in Nat, NEW t, NEW u, NEW w, Between(w, len, t, r, last, ro, 0),
         \A k \in r..(last - 1) : u[k] = t[k]
  PROVE  Between(w, len, u, r, last, ro, 0)
<1>1. PICK start \in [Nat -> Int] :
        Starts(start, len, t, r, last, ro, 0) /\ Carries(start, w, len, t, r, last)
  BY DEF Between
<1>2. Starts(start, len, u, r, last, ro, 0)
  BY <1>1 DEF Starts
<1>3. Carries(start, w, len, u, r, last)
  <2> SUFFICES ASSUME NEW k \in r..last, NEW j \in 1..len, start[k] < j,
                      j <= start[k] + Size(u[k])
               PROVE  w[j] = Byte(u[k], j - start[k])
    BY DEF Carries
  <2>1. k # last
    BY <1>1 DEF Starts
  <2>2. k \in r..(last - 1) /\ u[k] = t[k]
    BY <2>1
  <2> QED
    BY <1>1, <2>2 DEF Carries
<1> QED
  BY <1>2, <1>3 DEF Between

\* A reader at the writer's frame has read what is not on the wire of it.
LEMMA CaughtUp ==
  ASSUME NEW r \in Nat, NEW len \in Nat, NEW ro \in Nat, NEW wo \in Nat, NEW t, NEW w,
         Between(w, len, t, r, r, ro, wo)
  PROVE  ro + len = wo
<1>1. PICK start \in [Nat -> Int] : start[r] = 0 - ro /\ start[r] + wo = len
  BY DEF Between, Starts
<1> QED
  BY <1>1

-----------------------------------------------------------------------------
(* The steps of the writer. *)

LEMMA WholeFacts ==
  ASSUME Whole
  PROVE  LET r == Len(received) + 1
             last == Len(sent) + 1
         IN /\ r \in Nat /\ last \in Nat /\ 1 <= r /\ r <= last /\ Len(wire) \in Nat
            /\ Len(Begun) = last /\ Begun[last] = frame
            /\ \A k \in 1..Len(sent) : Begun[k] = sent[k]
            /\ \A k \in r..last : Begun[k] \in Frames /\ Size(Begun[k]) \in Nat
            /\ Due \in Frames /\ (r < last => Due = sent[r])
            /\ ReadOf(Due) \in Nat /\ Written \in Nat /\ Written < Size(frame)
<1> DEFINE r == Len(received) + 1
           last == Len(sent) + 1
<1>1. /\ Len(received) \in Nat /\ Len(sent) \in Nat /\ Len(received) <= Len(sent)
      /\ Len(wire) \in Nat
  BY DEF Whole, WriterTypes
<1>2. /\ Len(Begun) = last /\ Begun[last] = frame
      /\ \A k \in 1..Len(sent) : Begun[k] = sent[k]
  BY DEF Whole, WriterTypes, Begun
<1>3. frame \in Frames /\ \A k \in 1..Len(sent) : sent[k] \in Frames
  BY DEF Whole, WriterTypes
<1>4. ASSUME NEW k \in r..last PROVE Begun[k] \in Frames /\ Size(Begun[k]) \in Nat
  <2>1. k \in 1..Len(sent) \/ k = last
    BY <1>1
  <2>2. Begun[k] \in Frames
    BY <1>2, <1>3, <2>1
  <2> QED
    BY <2>2, Sizes
<1>5. Due \in Frames /\ (r < last => Due = sent[r])
  <2>1. r \in r..last /\ (r < last => r \in 1..Len(sent))
    BY <1>1
  <2> QED
    BY <1>2, <1>4, <2>1 DEF Due
<1>6. ReadOf(Due) \in Nat
  <2>1. HeaderSize[Due] \in Nat /\ DataSize[Due] \in Nat /\ Prefix \in Nat
    BY <1>5, Sizes
  <2>2. accumulated \in Nat
    BY <2>1 DEF Whole, ReaderAt
  <2> QED
    BY <2>1, <2>2 DEF ReadOf
<1>7. Written \in Nat /\ Written < Size(frame)
  BY <1>3, Sizes DEF Written, Size
<1> QED
  BY <1>1, <1>2, <1>4, <1>5, <1>6, <1>7

LEMMA SerializeKeeps ==
  ASSUME Whole, NEW f \in Frames, SerializeTo(f)
  PROVE  Whole'
<1> DEFINE r == Len(received) + 1
           last == Len(sent) + 1
<1>1. /\ at = "idle" /\ at' = "header" /\ frame' = f /\ written' = 0
      /\ UNCHANGED <<wire, state, accumulated, mHeader, mData, sent, received>>
  BY DEF SerializeTo, readerVars, historyVars
<1>2. WriterTypes'
  BY <1>1 DEF Whole, WriterTypes
<1>3. Written = 0 /\ Written' = 0
  BY <1>1 DEF Written
<1>4. /\ r \in Nat /\ last \in Nat /\ 1 <= r /\ r <= last /\ Len(wire) \in Nat
      /\ \A k \in 1..Len(sent) : Begun[k] = sent[k]
      /\ Due \in Frames /\ ReadOf(Due) \in Nat
  BY WholeFacts
<1>5. /\ Begun' = Append(sent, f)
      /\ \A k \in 1..Len(sent) : Append(sent, f)[k] = sent[k]
      /\ Append(sent, f)[last] = f
  BY <1>1 DEF Whole, WriterTypes, Begun
<1>6. \A k \in r..(last - 1) : Append(sent, f)[k] = Begun[k]
  <2>1. \A k \in r..(last - 1) : k \in 1..Len(sent)
    BY <1>4
  <2> QED
    BY <1>4, <1>5, <2>1
<1>7. ReaderAt(Due)
  BY DEF Whole
<1>8. Between(wire, Len(wire), Begun, r, last, ReadOf(Due), 0)
  BY <1>3 DEF Whole
<1>9. Between(wire, Len(wire), Append(sent, f), r, last, ReadOf(Due), 0)
  BY <1>4, <1>6, <1>8, Unwritten
<1>10. Due' = Append(sent, f)[r]
  BY <1>1, <1>5 DEF Due
<1>11. ReaderAt(Due)' /\ ReadOf(Due)' = ReadOf(Due)
  <2>1. CASE r < last
    <3>1. Due' = Due
      BY <1>4, <1>6, <1>10, <2>1 DEF Due
    <3> QED
      BY <1>1, <1>7, <3>1 DEF ReaderAt, ReadOf
  <2>2. CASE r = last
    <3>1. Between(wire, Len(wire), Begun, r, r, ReadOf(Due), 0)
      BY <1>8, <2>2
    <3>2. ReadOf(Due) + Len(wire) = 0
      BY <1>4, <3>1, CaughtUp
    <3>3. ReadOf(Due) = 0
      BY <1>4, <3>2
    <3>4. state = "IF_HEADER" /\ accumulated = 0 /\ mHeader = Part(Due, 0, 0, Prefix)
      <4>1. HeaderSize[Due] \in Nat /\ HeaderSize[Due] > Prefix /\ Prefix \in Nat /\ Prefix > 0
            /\ DataSize[Due] \in Nat
        BY <1>4, Sizes
      <4> QED
        BY <1>7, <3>3, <4>1 DEF ReaderAt, ReadOf
    <3>5. Part(Due, 0, 0, Prefix) = Part(f, 0, 0, Prefix)
      BY DEF Part
    <3>6. 0 \in 0..(Prefix - 1)
      BY <1>7, <3>4 DEF ReaderAt
    <3>7. Due' = f
      BY <1>5, <1>10, <2>2
    <3> QED
      BY <1>1, <3>3, <3>4, <3>5, <3>6, <3>7 DEF ReaderAt, ReadOf
  <2> QED
    BY <1>4, <2>1, <2>2
<1> QED
  BY <1>1, <1>2, <1>3, <1>5, <1>9, <1>11 DEF Whole

\* A send that takes the whole buffer.
LEMMA SendAll ==
  ASSUME Whole, Send, ~broken'
  PROVE  /\ wire' = wire \o buffer /\ written' = 0
         /\ at' = IF at = "header" THEN "data" ELSE "idle"
         /\ at \in {"header", "data"}
         /\ sent' = IF LastByte THEN Append(sent, frame) ELSE sent
         /\ UNCHANGED <<frame, state, accumulated, mHeader, mData, received>>
<1>1. at \in {"header", "data"} /\ frame \in Frames /\ written = 0
  BY DEF Whole, WriterTypes, Send
<1>2. Len(buffer) \in Nat /\ SubSeq(buffer, 1, Len(buffer)) = buffer
  <2>1. HeaderSize[frame] \in Nat /\ DataSize[frame] \in Nat
    BY <1>1, Sizes
  <2>2. buffer \in Seq(Octets)
    BY <2>1, BufferOctets, <1>1 DEF buffer
  <2> QED
    BY <2>2, WholeSeq
<1>3. PICK n \in 0..Len(buffer) :
        /\ wire' = wire \o SubSeq(buffer, 1, n)
        /\ broken' = (broken \/ n < Len(buffer))
        /\ IF written + n < Len(buffer)
           THEN written' = written + n /\ UNCHANGED at
           ELSE written' = 0 /\ NextWrite
  BY DEF Send
<1>4. n = Len(buffer)
  <2>1. ~(n < Len(buffer))
    BY <1>3, Zenon
  <2>2. \A m \in Nat : \A i \in 0..m : i < m \/ i = m
    OBVIOUS
  <2> QED
    BY <1>2, <2>1, <2>2, Zenon
<1>5. wire' = wire \o buffer /\ written' = 0 /\ NextWrite
  BY <1>1, <1>2, <1>3, <1>4
<1>6. at' # at
  BY <1>1, <1>5 DEF NextWrite
<1> QED
  BY <1>1, <1>5, <1>6 DEF Send, NextWrite, readerVars

LEMMA SendKeeps ==
  ASSUME Whole, Send, ~broken'
  PROVE  Whole'
<1> DEFINE r == Len(received) + 1
           last == Len(sent) + 1
           h == HeaderSize[frame]
           d == DataSize[frame]
           q == buffer
<1>1. /\ wire' = wire \o q /\ written' = 0 /\ at \in {"header", "data"}
      /\ at' = IF at = "header" THEN "data" ELSE "idle"
      /\ sent' = IF LastByte THEN Append(sent, frame) ELSE sent
      /\ UNCHANGED <<frame, state, accumulated, mHeader, mData, received>>
  BY SendAll
<1>2. /\ wire \in Seq(Octets) /\ frame \in Frames /\ sent \in Seq(Frames)
      /\ received \in Seq(Frames) /\ Len(received) <= Len(sent)
  BY DEF Whole, WriterTypes
<1>3. /\ r \in Nat /\ last \in Nat /\ 1 <= r /\ r <= last /\ Len(wire) \in Nat
      /\ Begun[last] = frame /\ Len(Begun) = last
      /\ \A k \in 1..Len(sent) : Begun[k] = sent[k]
      /\ \A k \in r..last : Size(Begun[k]) \in Nat
      /\ ReadOf(Due) \in Nat /\ Written \in Nat
  BY WholeFacts
<1>4. h \in Nat /\ h > 0 /\ d \in Nat /\ Size(frame) = h + d
  BY <1>2, Sizes DEF Size
<1>5. q \in Seq(Octets) /\ Len(q) \in Nat
  BY <1>2, BufferOctets DEF buffer
<1>6. Len(q) = IF at = "header" THEN h ELSE d
  BY <1>1, <1>2, BufferOctets DEF buffer
<1>7. Written = IF at = "data" /\ d > 0 THEN h ELSE 0
  BY DEF Written
<1>8. \A i \in 1..Len(q) : q[i] = Byte(frame, Written + i)
  <2>1. CASE at = "header"
    BY <1>2, <1>6, <1>7, <2>1, BufferOctets DEF buffer
  <2>2. CASE at = "data" /\ d > 0
    BY <1>2, <1>6, <1>7, <2>2, BufferOctets DEF buffer
  <2>3. CASE at = "data" /\ d = 0
    BY <1>6, <2>3
  <2> QED
    BY <1>1, <1>4, <2>1, <2>2, <2>3
<1>9. Between(wire, Len(wire), Begun, r, last, ReadOf(Due), Written)
  BY DEF Whole
<1> HIDE DEF q, h, d
<1>10. /\ wire' \in Seq(Octets) /\ Len(wire') = Len(wire) + Len(q)
       /\ \A j \in 1..Len(wire) : wire'[j] = wire[j]
       /\ \A i \in 1..Len(q) : wire'[Len(wire) + i] = q[i]
  BY <1>1, <1>2, <1>5
<1>11. Between(wire', Len(wire'), Begun, r, last, ReadOf(Due), Written + Len(q))
  <2>1. \A i \in 1..Len(q) : wire'[Len(wire) + i] = Byte(Begun[last], Written + i)
    BY <1>3, <1>8, <1>10
  <2>2. Between(wire', Len(wire) + Len(q), Begun, r, last, ReadOf(Due), Written + Len(q))
    BY <1>3, <1>5, <1>9, <1>10, <2>1, Put
  <2> QED
    BY <1>10, <2>2
<1>12. CASE ~LastByte
  <2>1. sent' = sent /\ Begun' = Begun /\ Due' = Due
    BY <1>1, <1>12 DEF Begun, Due
  <2>2. Written' = Written + Len(q)
    <3>1. CASE at = "header"
      <4>1. d # 0 /\ d > 0
        BY <1>4, <1>12, <3>1 DEF LastByte, d
      <4> QED
        BY <1>1, <1>4, <1>6, <1>7, <3>1, <4>1 DEF Written, h, d
    <3>2. CASE at = "data"
      <4>1. d = 0
        BY <1>12, <3>2 DEF LastByte, d
      <4>2. at' = "idle"
        BY <1>1, <3>2
      <4> QED
        BY <1>6, <1>7, <3>2, <4>1, <4>2 DEF Written
    <3> QED
      BY <1>1, <3>1, <3>2
  <2>3. WriterTypes'
    BY <1>1, <1>2, <1>10, <2>1 DEF WriterTypes
  <2>4. ReaderAt(Due)' /\ ReadOf(Due)' = ReadOf(Due)
    BY <1>1, <2>1 DEF Whole, ReaderAt, ReadOf
  <2> QED
    BY <1>1, <1>11, <2>1, <2>2, <2>3, <2>4 DEF Whole
<1>13. CASE LastByte
  <2>1. sent' = Append(sent, frame)
    BY <1>1, <1>13
  <2>2. /\ sent' \in Seq(Frames) /\ Len(sent') = last /\ sent' = Begun
    BY <1>2, <1>3, <2>1 DEF Begun
  <2>3. Begun' = Append(Begun, frame)
    BY <1>1, <2>2 DEF Begun
  <2>4. \A k \in 1..last : Append(Begun, frame)[k] = Begun[k]
    BY <1>3, <2>2
  <2>5. Written + Len(q) = Size(Begun[last]) /\ Written' = 0
    <3>1. CASE at = "header"
      <4>1. d = 0
        BY <1>13, <3>1 DEF LastByte, d
      <4> QED
        BY <1>1, <1>3, <1>4, <1>6, <1>7, <3>1, <4>1 DEF Written, d
    <3>2. CASE at = "data"
      <4>1. d # 0 /\ d > 0
        BY <1>4, <1>13, <3>2 DEF LastByte, d
      <4>2. at' = "idle"
        BY <1>1, <3>2
      <4> QED
        BY <1>3, <1>4, <1>6, <1>7, <3>2, <4>1, <4>2 DEF Written
    <3> QED
      BY <1>1, <3>1, <3>2
  <2>6. Between(wire', Len(wire'), Begun, r, last, ReadOf(Due), Size(Begun[last]))
    BY <1>11, <2>5
  <2>7. /\ \A k \in r..last : Append(Begun, frame)[k] = Begun[k]
        /\ Size(Begun[last]) \in Nat /\ Len(wire') \in Nat /\ r \in r..last
    BY <1>3, <1>5, <1>10, <2>4
  <2>8. Between(wire', Len(wire'), Append(Begun, frame), r, last + 1, ReadOf(Due), 0)
    BY <1>3, <2>6, <2>7, Complete
  <2>9. Due' = Due
    BY <1>1, <2>3, <2>7 DEF Due
  <2>10. WriterTypes'
    BY <1>1, <1>2, <1>3, <1>10, <2>2 DEF WriterTypes
  <2>11. ReaderAt(Due)' /\ ReadOf(Due)' = ReadOf(Due)
    BY <1>1, <2>9 DEF Whole, ReaderAt, ReadOf
  <2> QED
    BY <1>1, <2>2, <2>3, <2>5, <2>8, <2>10, <2>11 DEF Whole
<1> QED
  BY <1>12, <1>13

-----------------------------------------------------------------------------
(* The steps of the reader. *)

\* What a Read of the n bytes that come next leaves.
LEMMA Reads ==
  ASSUME Whole, NEW n \in Nat, n <= Len(wire), ReadOf(Due) + n <= Size(Due)
  PROVE  LET r == Len(received) + 1
             last == Len(sent) + 1
             rest == SubSeq(wire, n + 1, Len(wire))
         IN /\ rest \in Seq(Octets)
            /\ \A i \in 1..n : wire[i] = Byte(Due, ReadOf(Due) + i)
            /\ Between(rest, Len(rest), Begun, r, last, ReadOf(Due) + n, Written)
            /\ ReadOf(Due) + n = Size(Due) =>
                 r < last /\ Between(rest, Len(rest), Begun, r + 1, last, 0, Written)
<1> DEFINE r == Len(received) + 1
           last == Len(sent) + 1
           rest == SubSeq(wire, n + 1, Len(wire))
           len == Len(wire)
<1>1. /\ r \in Nat /\ last \in Nat /\ r <= last /\ len \in Nat
      /\ Begun[last] = frame /\ Begun[r] = Due
      /\ \A k \in r..last : Size(Begun[k]) \in Nat
      /\ ReadOf(Due) \in Nat /\ Written \in Nat /\ Written < Size(Begun[last])
  BY WholeFacts DEF Due
<1>2. Between(wire, len, Begun, r, last, ReadOf(Due), Written)
  BY DEF Whole
<1>3. wire \in Seq(Octets)
  BY DEF Whole, WriterTypes
<1>4. rest \in Seq(Octets) /\ Len(rest) = len - n
      /\ \A j \in 1..(len - n) : rest[j] = wire[j + n]
  BY <1>1, <1>3, RestOf
<1>5. n <= len /\ ReadOf(Due) + n <= Size(Begun[r])
  BY <1>1
<1> HIDE DEF r, last, rest, len
<1>6. /\ \A i \in 1..n : wire[i] = Byte(Begun[r], ReadOf(Due) + i)
      /\ Between(rest, len - n, Begun, r, last, ReadOf(Due) + n, Written)
      /\ ReadOf(Due) + n = Size(Begun[r]) =>
           r < last /\ Between(rest, len - n, Begun, r + 1, last, 0, Written)
  BY <1>1, <1>2, <1>4, <1>5, Take
<1> QED
  BY <1>1, <1>4, <1>6 DEF r, last, rest

LEMMA ReaderFacts ==
  ASSUME Whole
  PROVE  LET h == HeaderSize[Due]
             d == DataSize[Due]
         IN /\ h \in Nat /\ d \in Nat /\ Prefix \in Nat /\ 0 < Prefix /\ Prefix < h
            /\ accumulated \in Nat /\ Size(Due) = h + d /\ Due \in Frames
            /\ state \in {"IF_HEADER", "V4L_HEADER"} => ReadOf(Due) = accumulated
            /\ state = "V4L_BODY" => ReadOf(Due) = h + accumulated
<1>1. Due \in Frames
  BY WholeFacts
<1>2. /\ HeaderSize[Due] \in Nat /\ DataSize[Due] \in Nat
      /\ Prefix \in Nat /\ 0 < Prefix /\ Prefix < HeaderSize[Due]
  BY <1>1, Sizes
<1>3. accumulated \in Nat
  BY <1>2 DEF Whole, ReaderAt
<1> QED
  BY <1>1, <1>2, <1>3 DEF ReadOf, Size

\* A reader that is still in its frame.
LEMMA GoesOn ==
  ASSUME Whole, NEW n \in Nat, n <= Len(wire), ReadOf(Due) + n <= Size(Due),
         wire' = SubSeq(wire, n + 1, Len(wire)),
         UNCHANGED <<writerVars, sent, received>>,
         ReaderAt(Due)', ReadOf(Due)' = ReadOf(Due) + n
  PROVE  Whole'
<1> DEFINE rest == SubSeq(wire, n + 1, Len(wire))
           r == Len(received) + 1
           last == Len(sent) + 1
<1>1. UNCHANGED <<at, frame, written, sent, received>>
  BY DEF writerVars
<1>2. rest \in Seq(Octets) /\ Between(rest, Len(rest), Begun, r, last, ReadOf(Due) + n, Written)
  BY Reads
<1>3. WriterTypes'
  BY <1>1, <1>2 DEF Whole, WriterTypes
<1>4. Begun' = Begun /\ Written' = Written
  BY <1>1 DEF Begun, Written
<1> HIDE DEF rest
<1>5. Between(wire, Len(wire), Begun, Len(received) + 1, Len(sent) + 1, ReadOf(Due), Written)'
  BY <1>1, <1>2, <1>4 DEF rest
<1> QED
  BY <1>3, <1>5 DEF Whole

LEMMA Blanks ==
  ASSUME NEW f, NEW from \in Nat, NEW size \in Nat
  PROVE  Blank(size) = Part(f, from, 0, size)
BY DEF Blank, Part

\* The header is read on, after its prefix.
LEMMA PrefixAndBlank ==
  ASSUME NEW f \in Frames
  PROVE  Part(f, 0, Prefix, Prefix) \o Blank(HeaderSize[f] - Prefix)
           = Part(f, 0, Prefix, HeaderSize[f])
<1> DEFINE h == HeaderSize[f]
           p == Part(f, 0, Prefix, Prefix)
           b == Blank(h - Prefix)
           S == Octets \cup {Unset}
<1>1. h \in Nat /\ Prefix \in Nat /\ Prefix > 0 /\ h > Prefix
  BY Sizes
<1>2. p = [i \in 1..Prefix |-> Byte(f, 0 + i)]
  BY DEF Part
<1>3. \A i \in 1..Prefix : Byte(f, 0 + i) \in S
  <2> TAKE i \in 1..Prefix
  <2>1. 0 + i \in Nat \ {0}
    OBVIOUS
  <2> QED
    BY <2>1, OctetOf
<1>4. p \in Seq(S) /\ Len(p) = Prefix
  BY <1>1, <1>2, <1>3
<1>5. b = [i \in 1..(h - Prefix) |-> Unset]
  BY DEF Blank
<1>6. b \in Seq(S) /\ Len(b) = h - Prefix
  BY <1>1, <1>5
<1> HIDE DEF p, b, S, h
<1>7. /\ p \o b \in Seq(S) /\ Len(p \o b) = Prefix + (h - Prefix)
      /\ \A i \in 1..Prefix : (p \o b)[i] = p[i]
      /\ \A i \in 1..(h - Prefix) : (p \o b)[Prefix + i] = b[i]
  BY <1>4, <1>6
<1>8. Len(p \o b) = h
  BY <1>1, <1>7
<1>9. ASSUME NEW i \in 1..h
      PROVE  (p \o b)[i] = IF i <= Prefix THEN Byte(f, 0 + i) ELSE Unset
  <2>1. CASE i <= Prefix
    <3>1. i \in 1..Prefix
      BY <2>1
    <3> QED
      BY <1>2, <1>7, <2>1, <3>1
  <2>2. CASE ~(i <= Prefix)
    <3>1. i - Prefix \in 1..(h - Prefix) /\ Prefix + (i - Prefix) = i
      BY <1>1, <2>2
    <3>2. (p \o b)[i] = b[i - Prefix]
      BY <1>7, <3>1
    <3> QED
      BY <1>5, <2>2, <3>1, <3>2
  <2> QED
    BY <2>1, <2>2
<1>10. p \o b = [i \in 1..h |-> (p \o b)[i]]
  BY <1>7, <1>8, AsFunction
<1>11. p \o b = [i \in 1..h |-> IF i <= Prefix THEN Byte(f, 0 + i) ELSE Unset]
  BY <1>9, <1>10
<1> QED
  BY <1>11 DEF Part, p, b, h

LEMMA ReadPrefixKeeps ==
  ASSUME Whole, NEW n \in Nat, n <= Len(wire), ReadPrefix(n)
  PROVE  Whole'
<1> DEFINE h == HeaderSize[Due]
           d == DataSize[Due]
           head == Filled(mHeader, n)
<1>1. /\ h \in Nat /\ d \in Nat /\ Prefix \in Nat /\ 0 < Prefix /\ Prefix < h
      /\ accumulated \in Nat /\ Size(Due) = h + d /\ Due \in Frames
      /\ ReadOf(Due) = accumulated
  BY ReaderFacts DEF ReadPrefix
<1>2. /\ accumulated <= Prefix - 1 /\ mHeader = Part(Due, 0, accumulated, Prefix)
  BY <1>1 DEF Whole, ReaderAt, ReadPrefix
<1>3. Len(mHeader) = Prefix
  BY <1>1, <1>2 DEF Part
<1>4. /\ n <= Len(mHeader) - accumulated /\ wire' = SubSeq(wire, n + 1, Len(wire))
      /\ accumulated' = accumulated + n
      /\ UNCHANGED <<writerVars, sent, received>>
  BY DEF ReadPrefix, Read, historyVars
<1>5. accumulated + n <= Prefix /\ ReadOf(Due) + n <= Size(Due)
  BY <1>1, <1>3, <1>4
<1>6. \A i \in 1..n : wire[i] = Byte(Due, 0 + accumulated + i)
  <2>1. \A i \in 1..n : wire[i] = Byte(Due, ReadOf(Due) + i)
    BY <1>5, Reads
  <2>2. ReadOf(Due) = 0 + accumulated
    BY <1>1
  <2> QED
    BY <2>1, <2>2
<1>7. head = Part(Due, 0, accumulated + n, Prefix)
  <2>1. 0 \in Nat /\ Prefix \in Nat /\ accumulated \in Nat /\ accumulated + n <= Prefix
    BY <1>1, <1>5
  <2>2. Filled(Part(Due, 0, accumulated, Prefix), n) = Part(Due, 0, accumulated + n, Prefix)
    BY <1>6, <2>1, FilledUp
  <2> QED
    BY <1>2, <2>2
<1>8. Due' = Due
  BY <1>4 DEF writerVars, Due, Begun
<1>9. IsFull(mHeader, n) <=> accumulated + n = Prefix
  BY <1>3 DEF IsFull
<1> HIDE DEF head
<1>10. CASE accumulated + n # Prefix
  <2>1. state' = "IF_HEADER" /\ mHeader' = head
    BY <1>9, <1>10 DEF ReadPrefix, head
  <2>2. accumulated + n \in 0..(Prefix - 1)
    BY <1>1, <1>5, <1>10
  <2>3. ReaderAt(Due)' /\ ReadOf(Due)' = ReadOf(Due) + n
    BY <1>1, <1>4, <1>7, <1>8, <2>1, <2>2 DEF ReaderAt, ReadOf
  <2> QED
    BY <1>4, <1>5, <2>3, GoesOn
<1>11. CASE accumulated + n = Prefix
  <2>1. head = Part(Due, 0, Prefix, Prefix)
    BY <1>7, <1>11
  <2>2. head = SubSeq(Header(Due), 1, Prefix)
    BY <1>1, <2>1, Buffers
  <2>3. PICK f \in Frames :
          /\ head = SubSeq(Header(f), 1, Prefix)
          /\ state' = "V4L_HEADER"
          /\ mHeader' = head \o Blank(HeaderSize[f] - Prefix)
          /\ mData' = Blank(DataSize[f])
    BY <1>1, <1>9, <1>11, <2>2 DEF ReadPrefix, head
  <2>4. f = Due
    <3>1. Part(f, 0, Prefix, Prefix)[1] = Part(Due, 0, Prefix, Prefix)[1]
      BY <2>1, <2>3, Buffers
    <3>2. 1 \in 1..Prefix /\ 1 <= Prefix /\ 0 + 1 \in Nat
      BY <1>1
    <3>3. Byte(f, 0 + 1) = Byte(Due, 0 + 1)
      BY <3>1, <3>2 DEF Part
    <3> QED
      BY <1>1, <3>2, <3>3, ByteTells
  <2>5. mHeader' = Part(Due, 0, Prefix, h)
    BY <1>1, <2>1, <2>3, <2>4, PrefixAndBlank
  <2>6. mData' = Part(Due, h, 0, d)
    BY <1>1, <2>3, <2>4, Blanks
  <2>7. accumulated' = Prefix /\ Prefix \in Prefix..(h - 1)
    BY <1>1, <1>4, <1>11
  <2>8. ReaderAt(Due)' /\ ReadOf(Due)' = ReadOf(Due) + n
    BY <1>1, <1>8, <1>11, <2>3, <2>5, <2>6, <2>7 DEF ReaderAt, ReadOf
  <2> QED
    BY <1>4, <1>5, <2>8, GoesOn
<1> QED
  BY <1>10, <1>11

LEMMA ReadHeaderKeeps ==
  ASSUME Whole, NEW n \in Nat, n <= Len(wire), ReadHeader(n)
  PROVE  Whole'
<1> DEFINE h == HeaderSize[Due]
           d == DataSize[Due]
           head == Filled(mHeader, n)
<1>1. /\ h \in Nat /\ d \in Nat /\ Prefix \in Nat /\ 0 < Prefix /\ Prefix < h
      /\ accumulated \in Nat /\ Size(Due) = h + d /\ Due \in Frames
      /\ ReadOf(Due) = accumulated
  BY ReaderFacts DEF ReadHeader
<1>2. /\ Prefix <= accumulated /\ accumulated <= h - 1
      /\ mHeader = Part(Due, 0, accumulated, h) /\ mData = Part(Due, h, 0, d)
  BY <1>1 DEF Whole, ReaderAt, ReadHeader
<1>3. Len(mHeader) = h
  BY <1>1, <1>2 DEF Part
<1>4. /\ n <= Len(mHeader) - accumulated /\ wire' = SubSeq(wire, n + 1, Len(wire))
      /\ mHeader' = head /\ mData' = mData
      /\ UNCHANGED <<writerVars, sent, received>>
  BY DEF ReadHeader, Read, historyVars
<1>5. accumulated + n <= h /\ ReadOf(Due) + n <= Size(Due)
  BY <1>1, <1>3, <1>4
<1>6. \A i \in 1..n : wire[i] = Byte(Due, 0 + accumulated + i)
  <2>1. \A i \in 1..n : wire[i] = Byte(Due, ReadOf(Due) + i)
    BY <1>5, Reads
  <2>2. ReadOf(Due) = 0 + accumulated
    BY <1>1
  <2> QED
    BY <2>1, <2>2
<1>7. head = Part(Due, 0, accumulated + n, h)
  <2> HIDE DEF h, d
  <2>1. Filled(Part(Due, 0, accumulated, h), n) = Part(Due, 0, accumulated + n, h)
    <3>1. 0 \in Nat /\ h \in Nat /\ accumulated \in Nat /\ accumulated + n <= h
      BY <1>1, <1>5
    <3> QED
      BY <1>6, <3>1, FilledUp
  <2> QED
    BY <1>2, <2>1
<1>8. Due' = Due
  BY <1>4 DEF writerVars, Due, Begun
<1>9. IsFull(mHeader, n) <=> accumulated + n = h
  BY <1>3 DEF IsFull
<1> HIDE DEF head
<1>10. CASE accumulated + n # h
  <2>1. state' = "V4L_HEADER" /\ accumulated' = accumulated + n
    BY <1>9, <1>10 DEF ReadHeader
  <2>2. accumulated + n \in Prefix..(h - 1)
    BY <1>1, <1>2, <1>5, <1>10
  <2>3. ReaderAt(Due)' /\ ReadOf(Due)' = ReadOf(Due) + n
    BY <1>1, <1>2, <1>4, <1>7, <1>8, <2>1, <2>2 DEF ReaderAt, ReadOf
  <2> QED
    BY <1>4, <1>5, <2>3, GoesOn
<1>11. CASE accumulated + n = h
  <2>1. state' = "V4L_BODY" /\ accumulated' = 0 /\ 0 \in 0..d
    BY <1>1, <1>9, <1>11 DEF ReadHeader
  <2>2. mHeader' = Part(Due, 0, h, h) /\ mData' = Part(Due, h, 0, d)
    BY <1>2, <1>4, <1>7, <1>11
  <2>3. ReaderAt(Due)' /\ ReadOf(Due)' = ReadOf(Due) + n
    BY <1>1, <1>8, <1>11, <2>1, <2>2 DEF ReaderAt, ReadOf
  <2> QED
    BY <1>4, <1>5, <2>3, GoesOn
<1> QED
  BY <1>10, <1>11

\* What is read completely is the frame that was due.
LEMMA ContentDue ==
  ASSUME Due \in Frames, mHeader = Header(Due)
  PROVE  Content(Data(Due)) = Due
<1>1. ASSUME NEW f \in Frames, Header(f) = Header(Due) PROVE f = Due
  <2>1. Header(f)[1] = Byte(f, 0 + 1) /\ Header(Due)[1] = Byte(Due, 0 + 1)
    <3>1. 1 \in 1..HeaderSize[f] /\ 1 \in 1..HeaderSize[Due]
      BY Sizes
    <3> QED
      BY <3>1, BufferOctets
  <2>2. 0 + 1 \in Nat
    OBVIOUS
  <2> QED
    BY <1>1, <2>1, <2>2, ByteTells
<1> DEFINE Is(f) == mHeader = Header(f) /\ Data(Due) = Data(f)
<1>2. Is(Due) /\ \A f \in Frames : Is(f) => f = Due
  BY <1>1
<1> HIDE DEF Is
<1>3. (CHOOSE f \in Frames : Is(f)) = Due
  BY <1>2
<1> QED
  BY <1>2, <1>3 DEF Content, Is

LEMMA ReadBodyKeeps ==
  ASSUME Whole, NEW n \in Nat, n <= Len(wire), ReadBody(n)
  PROVE  /\ Whole'
         /\ \/ received' = received
            \/ Len(received) < Len(sent) /\ received' = Append(received, sent[Len(received) + 1])
<1> DEFINE h == HeaderSize[Due]
           d == DataSize[Due]
           data == Filled(mData, n)
<1>1. /\ h \in Nat /\ d \in Nat /\ Prefix \in Nat /\ 0 < Prefix /\ Prefix < h
      /\ accumulated \in Nat /\ Size(Due) = h + d /\ Due \in Frames
      /\ ReadOf(Due) = h + accumulated
  BY ReaderFacts DEF ReadBody
<1>2. /\ accumulated <= d
      /\ mHeader = Part(Due, 0, h, h) /\ mData = Part(Due, h, accumulated, d)
  BY <1>1 DEF Whole, ReaderAt, ReadBody
<1>3. Len(mData) = d
  BY <1>1, <1>2 DEF Part
<1>4. /\ n <= Len(mData) - accumulated /\ wire' = SubSeq(wire, n + 1, Len(wire))
      /\ UNCHANGED <<writerVars, sent>>
  BY DEF ReadBody, Read
<1>5. accumulated + n <= d /\ ReadOf(Due) + n <= Size(Due)
  BY <1>1, <1>3, <1>4
<1>6. \A i \in 1..n : wire[i] = Byte(Due, h + accumulated + i)
  BY <1>1, <1>5, Reads
<1>7. data = Part(Due, h, accumulated + n, d)
  <2> HIDE DEF h, d
  <2>1. Filled(Part(Due, h, accumulated, d), n) = Part(Due, h, accumulated + n, d)
    <3>1. h \in Nat /\ d \in Nat /\ accumulated \in Nat /\ accumulated + n <= d
      BY <1>1, <1>5
    <3> QED
      BY <1>6, <3>1, FilledUp
  <2> QED
    BY <1>2, <2>1
<1>8. IsFull(mData, n) <=> accumulated + n = d
  BY <1>3 DEF IsFull
<1> HIDE DEF data
<1>9. CASE accumulated + n # d
  <2>1. /\ state' = "V4L_BODY" /\ accumulated' = accumulated + n /\ mData' = data
        /\ mHeader' = mHeader /\ received' = received
    BY <1>8, <1>9 DEF ReadBody, data
  <2>2. accumulated + n \in 0..d
    BY <1>1, <1>5
  <2>3. Due' = Due
    BY <1>4, <2>1 DEF writerVars, Due, Begun
  <2>4. ReaderAt(Due)' /\ ReadOf(Due)' = ReadOf(Due) + n
    BY <1>1, <1>2, <1>7, <2>1, <2>2, <2>3 DEF ReaderAt, ReadOf
  <2> QED
    BY <1>4, <1>5, <2>1, <2>4, GoesOn
<1>10. CASE accumulated + n = d
  <2> DEFINE r == Len(received) + 1
             last == Len(sent) + 1
             rest == SubSeq(wire, n + 1, Len(wire))
  <2>1. /\ received' = Append(received, Content(data))
        /\ state' = "IF_HEADER" /\ accumulated' = 0 /\ mHeader' = Blank(Prefix)
    BY <1>8, <1>10 DEF ReadBody, data
  <2>2. data = Data(Due) /\ mHeader = Header(Due)
    BY <1>1, <1>2, <1>7, <1>10, Buffers
  <2>3. Content(data) = Due
    BY <1>1, <2>2, ContentDue
  <2>4. ReadOf(Due) + n = Size(Due)
    BY <1>1, <1>10
  <2>5. /\ rest \in Seq(Octets) /\ r < last
        /\ Between(rest, Len(rest), Begun, r + 1, last, 0, Written)
    BY <1>5, <2>4, Reads
  <2>6. /\ Len(received) \in Nat /\ Len(sent) \in Nat /\ Due = sent[r]
    BY <2>5, WholeFacts DEF Whole, WriterTypes
  <2>7. Len(received) < Len(sent) /\ received' = Append(received, sent[r])
    BY <2>1, <2>3, <2>5, <2>6
  <2>8. received' \in Seq(Frames) /\ Len(received') = r
    BY <1>1, <2>1, <2>3 DEF Whole, WriterTypes
  <2>9. UNCHANGED <<at, frame, written, sent>> /\ Begun' = Begun /\ Written' = Written
    BY <1>4 DEF writerVars, Begun, Written
  <2>10. WriterTypes'
    BY <1>4, <2>5, <2>6, <2>8, <2>9 DEF Whole, WriterTypes
  <2>11. mHeader' = Part(Due', 0, 0, Prefix) /\ 0 \in 0..(Prefix - 1)
    BY <1>1, <2>1, Blanks
  <2>12. ReaderAt(Due)' /\ ReadOf(Due)' = 0
    BY <2>1, <2>11 DEF ReaderAt, ReadOf
  <2> HIDE DEF rest
  <2>13. Between(wire, Len(wire), Begun, Len(received) + 1, Len(sent) + 1, ReadOf(Due), Written)'
    BY <1>4, <2>5, <2>8, <2>9, <2>12 DEF rest
  <2> QED
    BY <2>7, <2>10, <2>12, <2>13 DEF Whole
<1> QED
  BY <1>9, <1>10

-----------------------------------------------------------------------------
(* Every step of the code is a step of the channel, or none of its.  *)

LEMMA Begins == Init => StreamInv /\ Channel!Init
<1> SUFFICES ASSUME Init PROVE StreamInv /\ Channel!Init
  OBVIOUS
<1>1. /\ wire = <<>> /\ at = "idle" /\ frame \in Frames /\ written = 0
      /\ state = "IF_HEADER" /\ accumulated = 0 /\ mHeader = Blank(Prefix)
      /\ sent = <<>> /\ received = <<>> /\ broken = FALSE
  BY DEF Init
<1>2. WriterTypes
  BY <1>1 DEF WriterTypes
<1>3. Prefix \in Nat /\ Prefix > 0
  BY SizesAssumption
<1>4. ReaderAt(Due) /\ ReadOf(Due) = 0 /\ Written = 0
  <2>1. mHeader = Part(Due, 0, 0, Prefix) /\ 0 \in 0..(Prefix - 1)
    BY <1>1, <1>3, Blanks
  <2> QED
    BY <1>1, <2>1 DEF ReaderAt, ReadOf, Written
<1>5. Between(<<>>, 0, Begun, 1, 1, 0, 0)
  <2> DEFINE start == [k \in Nat |-> 0]
  <2>1. start \in [Nat -> Int] /\ start[1] = 0 /\ \A k \in 1..1 : start[k] <= 0
    OBVIOUS
  <2>2. Starts(start, 0, Begun, 1, 1, 0, 0)
    BY <2>1 DEF Starts
  <2>3. Carries(start, <<>>, 0, Begun, 1, 1)
    BY DEF Carries
  <2> HIDE DEF start
  <2> QED
    BY <2>1, <2>2, <2>3 DEF Between
<1>6. Len(wire) = 0 /\ Len(received) + 1 = 1 /\ Len(sent) + 1 = 1
  BY <1>1
<1>7. Between(wire, Len(wire), Begun, Len(received) + 1, Len(sent) + 1, ReadOf(Due), Written)
  BY <1>1, <1>4, <1>5, <1>6
<1> QED
  BY <1>1, <1>2, <1>4, <1>7 DEF StreamInv, Whole, Channel!Init

LEMMA AfterTheBreak ==
  ASSUME StreamInv, Next, broken
  PROVE  broken' = TRUE
<1>1. broken = TRUE
  BY DEF StreamInv
<1>2. CASE Send
  BY <1>1, <1>2, Zenon DEF Send
<1>3. CASE SendFails
  BY <1>3 DEF SendFails
<1>4. ASSUME NEW f \in Frames, SerializeTo(f) PROVE broken' = broken
  BY <1>4 DEF SerializeTo, historyVars
<1>5. ASSUME NEW n \in 0..Len(wire), ReadPrefix(n) \/ ReadHeader(n) \/ ReadBody(n)
      PROVE  broken' = broken
  BY <1>5 DEF ReadPrefix, ReadHeader, ReadBody, historyVars
<1> QED
  BY <1>1, <1>2, <1>3, <1>4, <1>5 DEF Next, Writer, AsyncDeserializeFrom

LEMMA WriterSteps ==
  ASSUME StreamInv, Writer, ~broken
  PROVE  StreamInv' /\ [Channel!Next]_Channel!vars
<1>1. Whole
  BY DEF StreamInv
<1>2. ASSUME NEW f \in Frames, SerializeTo(f) PROVE StreamInv' /\ UNCHANGED Channel!vars
  <2>1. Whole'
    BY <1>1, <1>2, SerializeKeeps
  <2>2. UNCHANGED <<sent, received, broken>>
    BY <1>2 DEF SerializeTo, historyVars
  <2> QED
    BY <2>1, <2>2 DEF StreamInv, Channel!vars
<1>3. CASE Send \/ SendFails
  <2>1. broken' \in BOOLEAN /\ received' = received
    <3>1. CASE SendFails
      BY <3>1 DEF SendFails
    <3>2. CASE Send
      <4>1. broken \in BOOLEAN
        BY DEF StreamInv
      <4>2. \E n \in 0..Len(buffer) : broken' = (broken \/ n < Len(buffer))
        BY <3>2 DEF Send
      <4>3. received' = received
        BY <3>2 DEF Send
      <4> QED
        BY <4>1, <4>2, <4>3, Zenon
    <3> QED
      BY <1>3, <3>1, <3>2
  <2>2. CASE broken'
    <3>1. sent' = sent
      <4>1. CASE SendFails
        BY <4>1 DEF SendFails
      <4>2. CASE Send
        <5>1. sent' = IF LastByte /\ at' # at /\ ~broken' THEN Append(sent, frame) ELSE sent
          BY <4>2 DEF Send
        <5> QED
          BY <2>2, <5>1, Zenon
      <4> QED
        BY <1>3, <4>1, <4>2
    <3>2. Channel!Break
      BY <2>1, <2>2, <3>1 DEF Channel!Break
    <3> QED
      BY <2>1, <2>2, <3>2 DEF StreamInv, Channel!Next
  <2>3. CASE ~broken'
    <3>1. Send
      BY <1>3, <2>3 DEF SendFails
    <3>2. Whole'
      BY <1>1, <2>3, <3>1, SendKeeps
    <3>3. broken' = broken
      BY <2>1, <2>3 DEF StreamInv
    <3>4. frame \in Frames /\ (sent' = Append(sent, frame) \/ sent' = sent)
      BY <1>1, <2>3, <3>1, SendAll DEF Whole, WriterTypes
    <3>5. Channel!Send \/ UNCHANGED Channel!vars
      BY <2>1, <3>3, <3>4 DEF Channel!Send, Channel!vars
    <3> QED
      BY <2>1, <3>2, <3>5 DEF StreamInv, Channel!Next
  <2> QED
    BY <2>2, <2>3
<1> QED
  BY <1>2, <1>3 DEF Writer

LEMMA ReaderSteps ==
  ASSUME StreamInv, AsyncDeserializeFrom, ~broken
  PROVE  StreamInv' /\ [Channel!Next]_Channel!vars
<1>1. Whole
  BY DEF StreamInv
<1>2. PICK n \in 0..Len(wire) : ReadPrefix(n) \/ ReadHeader(n) \/ ReadBody(n)
  BY DEF AsyncDeserializeFrom
<1>3. n \in Nat /\ n <= Len(wire)
  BY <1>1, WholeFacts
<1>4. broken' = broken /\ sent' = sent
  BY <1>2 DEF ReadPrefix, ReadHeader, ReadBody, historyVars
<1>5. CASE ReadPrefix(n) \/ ReadHeader(n)
  <2>1. Whole'
    BY <1>1, <1>3, <1>5, ReadPrefixKeeps, ReadHeaderKeeps
  <2>2. received' = received
    BY <1>5 DEF ReadPrefix, ReadHeader, historyVars
  <2> QED
    BY <1>4, <2>1, <2>2 DEF StreamInv, Channel!vars
<1>6. CASE ReadBody(n)
  <2>1. Whole'
    BY <1>1, <1>3, <1>6, ReadBodyKeeps
  <2>2. \/ received' = received
        \/ Len(received) < Len(sent) /\ received' = Append(received, sent[Len(received) + 1])
    BY <1>1, <1>3, <1>6, ReadBodyKeeps
  <2>3. UNCHANGED Channel!vars \/ Channel!Receive
    BY <1>4, <2>2 DEF Channel!vars, Channel!Receive
  <2> QED
    BY <1>4, <2>1, <2>3 DEF StreamInv, Channel!Next
<1> QED
  BY <1>2, <1>5, <1>6

\* For frames of any sizes and any pieces in which send takes them and Read gets
\* them: the frames the reader completes are those sent, in that order, until a
\* send is partial or fails (V4LFrame.cpp:27, V4LFrame.cpp:82, unix_socket.cpp:113).
\* The part of FramesArrive that is not liveness.
THEOREM FramesInOrder == Spec => Channel!InOrder
<1>1. StreamInv /\ [Next]_vars => StreamInv' /\ [Channel!Next]_Channel!vars
  <2> SUFFICES ASSUME StreamInv, [Next]_vars PROVE StreamInv' /\ [Channel!Next]_Channel!vars
    OBVIOUS
  <2>1. CASE UNCHANGED vars
    <3>1. UNCHANGED <<wire, at, frame, written, state, accumulated, mHeader, mData, sent, received,
                      broken>>
      BY <2>1 DEF vars, writerVars, readerVars, historyVars
    <3>2. Begun' = Begun /\ Due' = Due /\ Written' = Written /\ ReadOf(Due)' = ReadOf(Due)
          /\ ReaderAt(Due)' = ReaderAt(Due)
      BY <3>1 DEF Begun, Due, Written, ReadOf, ReaderAt
    <3>3. StreamInv'
      BY <3>1, <3>2 DEF StreamInv, Whole, WriterTypes
    <3> QED
      BY <3>1, <3>3 DEF Channel!vars
  <2>2. CASE Next /\ broken
    <3>1. broken' = TRUE
      BY <2>2, AfterTheBreak
    <3> QED
      BY <2>2, <3>1 DEF StreamInv, Channel!Next
  <2>3. CASE Next /\ ~broken
    BY <2>3, WriterSteps, ReaderSteps DEF Next
  <2> QED
    BY <2>1, <2>2, <2>3
<1> QED
  BY <1>1, Begins, PTL DEF Spec, Channel!InOrder
=============================================================================
