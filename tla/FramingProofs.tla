--------------------------- MODULE FramingProofs ----------------------------
(***************************************************************************)
(* Framing, for frames of every size, any number of calls and bytes that   *)
(* arrive in any pieces.  What an end has not dealt with, in its buffer,   *)
(* at its socket and on its way, is one sequence of bytes; the receive     *)
(* loops only drop a beginning of it, the other end only adds whole frames *)
(* at its end, and both keep it a window of consecutive frames.            *)
(***************************************************************************)
EXTENDS Framing, SequenceTheorems, TLAPS

Byte == [frame : Nat, pos : Nat, len : Nat]

FramingTypeOK ==
  /\ open \in [End -> BOOLEAN] /\ want \in [End -> Nat]
  /\ stream \in [End -> Seq(Byte)] /\ arrived \in [End -> Seq(Byte)]
  /\ body \in [End -> Seq(Byte)]
  /\ calls \in Nat /\ waiting \in BOOLEAN
  /\ handled \in Seq(Nat) /\ replies \in Seq(Nat)
  /\ cut \in BOOLEAN /\ unsent \in BOOLEAN

-----------------------------------------------------------------------------
(* The invariant                                                           *)

\* The size of the frame of a byte, and the place in s where it ends.
Size(b) == HeaderSize + b.len + TrailerSize
FrameEnd(s, i) == i + Size(s[i]) - s[i].pos

\* s is a window of frames: no byte of a frame is missing between two others,
\* and a frame follows the end of one with a smaller number.  (A statement
\* about all pairs of places, so that no induction is needed to use it.)
Window(s) ==
  /\ \A i \in 1 .. Len(s) :
       s[i].pos \in 1 .. Size(s[i]) /\ s[i].len <= MaxPayload /\ s[i].frame > 0
  /\ \A i, j \in 1 .. Len(s) : i <= j =>
       \/ /\ j <= FrameEnd(s, i) /\ s[j].frame = s[i].frame /\ s[j].len = s[i].len
          /\ s[j].pos = s[i].pos + (j - i)
       \/ /\ j > FrameEnd(s, i) /\ s[j].frame > s[i].frame
          /\ j = FrameEnd(s, i) + 1 => s[j].pos = 1

\* s ends with the end of a frame.
Whole(s) == \A i \in 1 .. Len(s) : FrameEnd(s, i) <= Len(s)

\* No frame is left out in s.
Gapless(s) ==
  \A i, j \in 1 .. Len(s) : j = FrameEnd(s, i) + 1 => s[j].frame = s[i].frame + 1

\* What e has not dealt with.
Unread(e) == body[e] \o (arrived[e] \o stream[e])

\* The reader at e stands at the first byte of a frame and knows its size.
AtFrame(e) ==
  /\ Unread(e) # << >> => Unread(e)[1].pos = 1
  /\ want[e] # 0 => want[e] = Size(body[e][1])

Buffers(e) ==
  /\ want[e] = 0 => body[e] = << >>
  /\ want[e] # 0 => Len(body[e]) \in HeaderSize .. want[e] - 1
  /\ Window(Unread(e))
  /\ open[Peer(e)] => Whole(Unread(e))

Counts ==
  /\ Len(handled) <= calls /\ Len(replies) <= calls
  /\ calls = 0 => ~waiting /\ \A e \in End : Unread(e) = << >>
  /\ open["worker"] => calls = Len(replies) + IF waiting THEN 1 ELSE 0

\* The coordinator's window starts with the request it takes next and, while
\* the worker is there, ends with the last one made.
CoordinatorSide ==
  LET u == Unread("coordinator")
  IN  /\ AtFrame("coordinator") /\ Gapless(u)
      /\ u # << >> => u[1].frame = Len(handled) + 1
      /\ \A i \in 1 .. Len(u) : u[i].frame <= calls
      /\ open["worker"] =>
           /\ u = << >> => Len(handled) = calls
           /\ \A i \in 1 .. Len(u) : FrameEnd(u, i) = Len(u) => u[i].frame = calls

\* The worker's window holds replies newer than all it took.
WorkerSide ==
  LET u == Unread("worker")
  IN  /\ \A i \in 1 .. Len(u) :
           /\ u[i].frame <= Len(handled)
           /\ \A j \in 1 .. Len(replies) : replies[j] < u[i].frame
      /\ \A j \in 1 .. Len(replies) : replies[j] <= Len(handled)
      /\ ~cut => /\ AtFrame("worker")
                 /\ u # << >> => \A j \in 1 .. Len(replies) : replies[j] = j

FramingInv ==
  /\ FramingTypeOK /\ Counts
  /\ \A e \in End : Buffers(e)
  /\ open["coordinator"] => CoordinatorSide
  /\ open["worker"] => WorkerSide
  /\ RepliesAdvance /\ RepliesMatch

-----------------------------------------------------------------------------
(* Sequences                                                               *)

\* To take the first n of a sequence and add them to the one before it leaves
\* the bytes of the two as they were.
Moving(S, b, a, n) ==
  /\ SubSeq(a, 1, n) \in Seq(S) /\ Len(SubSeq(a, 1, n)) = n
  /\ SubSeq(a, n + 1, Len(a)) \in Seq(S)
  /\ a = SubSeq(a, 1, n) \o SubSeq(a, n + 1, Len(a))
  /\ (b \o SubSeq(a, 1, n)) \o SubSeq(a, n + 1, Len(a)) = b \o a

LEMMA Moved ==
  ASSUME NEW S, NEW b \in Seq(S), NEW a \in Seq(S), NEW n \in 0 .. Len(a)
  PROVE  Moving(S, b, a, n)
<1>1. Len(a) \in Nat /\ \A i \in 1 .. Len(a) : a[i] \in S
  OBVIOUS
<1>2. SubSeq(a, 1, n) \in Seq(S) /\ Len(SubSeq(a, 1, n)) = n
  <2>1. \A i \in 1 .. n : a[i] \in S
    BY <1>1
  <2>2. /\ SubSeq(a, 1, n) \in Seq(S)
        /\ Len(SubSeq(a, 1, n)) = IF 1 <= n THEN n - 1 + 1 ELSE 0
    BY <1>1, <2>1, SubSeqProperties
  <2>3. QED
    BY <1>1, <2>2
<1>3. SubSeq(a, n + 1, Len(a)) \in Seq(S)
  <2>1. \A i \in n + 1 .. Len(a) : a[i] \in S
    BY <1>1
  <2>2. QED
    BY <1>1, <2>1, SubSeqProperties
<1>4. a = SubSeq(a, 1, n) \o SubSeq(a, n + 1, Len(a))
  <2>1. SubSeq(a, 1, Len(a)) = a
    BY SubSeqFull
  <2>2. 1 \in 1 .. Len(a) + 1 /\ n \in 1 - 1 .. Len(a) /\ Len(a) \in n .. Len(a)
    BY <1>1
  <2>3. QED
    BY <2>1, <2>2, ConcatAdjacentSubSeq
<1> DEFINE p == SubSeq(a, 1, n)
           r == SubSeq(a, n + 1, Len(a))
<1>5. (b \o p) \o r = b \o (p \o r)
  <2> HIDE DEF p, r
  <2>1. p \in Seq(S) /\ r \in Seq(S)
    BY <1>2, <1>3 DEF p, r
  <2>2. QED
    BY <2>1, ConcatAssociative
<1>6. QED
  BY <1>2, <1>3, <1>4, <1>5 DEF Moving

-----------------------------------------------------------------------------
(* Windows                                                                 *)

LEMMA ConstantsType ==
  /\ HeaderSize \in Nat /\ HeaderSize > 0 /\ TrailerSize \in Nat /\ TrailerSize > 0
  /\ MaxPayload \in Nat /\ MaxPayload > 0 /\ MaxCalls \in Nat
  /\ RequestSizes \subseteq 1 .. MaxPayload /\ ReplySizes \subseteq Nat \ {0}
BY FramingAssumption

\* What is left of a window when its beginning is dropped.
LEMMA WindowRest ==
  ASSUME NEW p \in Seq(Byte), NEW r \in Seq(Byte), Window(p \o r)
  PROVE  /\ \A i \in 1 .. Len(r) : /\ Len(p) + i \in 1 .. Len(p \o r)
                                   /\ r[i] = (p \o r)[Len(p) + i]
                                   /\ FrameEnd(p \o r, Len(p) + i) = Len(p) + FrameEnd(r, i)
         /\ Len(p \o r) = Len(p) + Len(r)
         /\ Window(r)
         /\ Whole(p \o r) => Whole(r)
         /\ Gapless(p \o r) => Gapless(r)
<1> DEFINE u == p \o r
           d == Len(p)
           m == Len(r)
<1>1. /\ d \in Nat /\ m \in Nat /\ Len(u) = d + m /\ u \in Seq(Byte)
      /\ \A i \in 1 .. d + m : u[i] = IF i <= d THEN p[i] ELSE r[i - d]
  BY ConcatProperties
<1>2. \A i \in 1 .. m : r[i].pos \in Nat /\ r[i].len \in Nat /\ r[i].frame \in Nat
  <2>1. \A i \in 1 .. m : r[i] \in Byte
    OBVIOUS
  <2>2. QED
    BY <2>1 DEF Byte
<1> HIDE DEF u, d, m
<1>3. \A i \in 1 .. m : /\ d + i \in 1 .. Len(u) /\ r[i] = u[d + i]
                        /\ FrameEnd(u, d + i) = d + FrameEnd(r, i)
  <2> SUFFICES ASSUME NEW i \in 1 .. m
               PROVE  /\ d + i \in 1 .. Len(u) /\ r[i] = u[d + i]
                      /\ FrameEnd(u, d + i) = d + FrameEnd(r, i)
    OBVIOUS
  <2>1. d + i \in 1 .. Len(u) /\ r[i] = u[d + i]
    BY <1>1
  <2>2. r[i].pos \in Int /\ Size(r[i]) \in Int
    BY <1>2, ConstantsType DEF Size
  <2>3. QED
    BY <1>1, <2>1, <2>2 DEF FrameEnd
<1>4. \A i \in 1 .. m : FrameEnd(r, i) \in Int
  BY <1>2, ConstantsType DEF FrameEnd, Size
<1>5. Window(u)
  BY DEF u
<1>6. Window(r)
  <2>1. \A i \in 1 .. m :
          r[i].pos \in 1 .. Size(r[i]) /\ r[i].len <= MaxPayload /\ r[i].frame > 0
    BY <1>3, <1>5 DEF Window
  <2>2. ASSUME NEW i \in 1 .. m, NEW j \in 1 .. m, i <= j
        PROVE  \/ /\ j <= FrameEnd(r, i) /\ r[j].frame = r[i].frame /\ r[j].len = r[i].len
                  /\ r[j].pos = r[i].pos + (j - i)
               \/ /\ j > FrameEnd(r, i) /\ r[j].frame > r[i].frame
                  /\ j = FrameEnd(r, i) + 1 => r[j].pos = 1
    <3>1. d + i <= d + j /\ (d + j) - (d + i) = j - i
      BY <1>1, <2>2
    <3>2. \/ /\ d + j <= FrameEnd(u, d + i) /\ u[d + j].frame = u[d + i].frame
             /\ u[d + j].len = u[d + i].len
             /\ u[d + j].pos = u[d + i].pos + ((d + j) - (d + i))
          \/ /\ d + j > FrameEnd(u, d + i) /\ u[d + j].frame > u[d + i].frame
             /\ d + j = FrameEnd(u, d + i) + 1 => u[d + j].pos = 1
      BY <1>3, <1>5, <3>1 DEF Window
    <3> DEFINE end == FrameEnd(r, i)
    <3>3. /\ end \in Int /\ FrameEnd(u, d + i) = d + end
          /\ u[d + i] = r[i] /\ u[d + j] = r[j]
      BY <1>3, <1>4
    <3> HIDE DEF end
    <3>4. \/ /\ d + j <= d + end /\ r[j].frame = r[i].frame /\ r[j].len = r[i].len
             /\ r[j].pos = r[i].pos + (j - i)
          \/ /\ d + j > d + end /\ r[j].frame > r[i].frame
             /\ d + j = (d + end) + 1 => r[j].pos = 1
      BY <3>1, <3>2, <3>3
    <3>5. \/ /\ j <= end /\ r[j].frame = r[i].frame /\ r[j].len = r[i].len
             /\ r[j].pos = r[i].pos + (j - i)
          \/ /\ j > end /\ r[j].frame > r[i].frame
             /\ j = end + 1 => r[j].pos = 1
      BY <1>1, <3>3, <3>4
    <3>6. QED
      BY <3>5 DEF end
  <2>3. QED
    BY <2>1, <2>2 DEF Window, m
<1>7. Whole(u) => Whole(r)
  BY <1>1, <1>3, <1>4 DEF Whole, m
<1>8. Gapless(u) => Gapless(r)
  <2> SUFFICES ASSUME Gapless(u), NEW i \in 1 .. m, NEW j \in 1 .. m, j = FrameEnd(r, i) + 1
               PROVE  r[j].frame = r[i].frame + 1
    BY DEF Gapless, m
  <2>1. d + j = FrameEnd(u, d + i) + 1
    BY <1>1, <1>3, <1>4
  <2>2. QED
    BY <1>3, <2>1 DEF Gapless
<1>9. QED
  BY <1>1, <1>3, <1>6, <1>7, <1>8 DEF u, d, m

\* The beginning of a window.
LEMMA WindowFirst ==
  ASSUME NEW p \in Seq(Byte), NEW r \in Seq(Byte), Window(p \o r)
  PROVE  /\ \A i \in 1 .. Len(p) : i \in 1 .. Len(p \o r) /\ p[i] = (p \o r)[i]
         /\ Window(p)
         /\ Gapless(p \o r) => Gapless(p)
<1>1. \A i \in 1 .. Len(p) : i \in 1 .. Len(p \o r) /\ p[i] = (p \o r)[i]
  BY ConcatProperties
<1>2. \A i \in 1 .. Len(p) : FrameEnd(p, i) = FrameEnd(p \o r, i)
  BY <1>1 DEF FrameEnd
<1>3. QED
  BY <1>1, <1>2 DEF Window, Gapless

\* The bytes of a frame.
LEMMA EncodeFacts ==
  ASSUME NEW k \in Nat, NEW size \in 1 .. MaxPayload
  PROVE  LET f == encode_frame(k, size)
             n == HeaderSize + size + TrailerSize
         IN  /\ f \in Seq(Byte) /\ n \in Nat /\ n > 0 /\ Len(f) = n
             /\ \A i \in 1 .. n : /\ f[i].frame = k /\ f[i].pos = i /\ f[i].len = size
                                  /\ Size(f[i]) = n
<1> DEFINE n == HeaderSize + size + TrailerSize
           f == [p \in 1 .. n |-> [frame |-> k, pos |-> p, len |-> size]]
<1>1. n \in Nat /\ n > 0
  BY ConstantsType
<1>2. encode_frame(k, size) = f
  BY ConstantsType DEF encode_frame
<1>3. \A i \in 1 .. n : [frame |-> k, pos |-> i, len |-> size] \in Byte
  BY <1>1, ConstantsType DEF Byte
<1>4. \A i \in 1 .. n : /\ f[i].frame = k /\ f[i].pos = i /\ f[i].len = size
                        /\ Size(f[i]) = n
  BY DEF Size
<1>5. f \in Seq(Byte) /\ Len(f) = n
  <2> HIDE DEF n
  <2>1. QED
    BY <1>1, <1>3
<1>6. QED
  BY <1>1, <1>2, <1>4, <1>5

\* v is the window u with frame k added at its end.
Added(u, v, k) ==
  /\ v \in Seq(Byte) /\ Window(v) /\ Whole(v) /\ v # << >>
  /\ \A i \in 1 .. Len(u) : i \in 1 .. Len(v) /\ v[i] = u[i]
  /\ \A i \in 1 .. Len(v) : v[i].frame <= k /\ (i \in 1 .. Len(u) \/ v[i].frame = k)
  /\ \A i \in 1 .. Len(v) : FrameEnd(v, i) = Len(v) => v[i].frame = k
  /\ u = << >> => v[1].pos = 1 /\ v[1].frame = k
  /\ /\ Gapless(u)
     /\ \A i \in 1 .. Len(u) : FrameEnd(u, i) = Len(u) => u[i].frame + 1 = k
     => Gapless(v)

\* A whole frame with a larger number follows a window that ends with the end
\* of a frame.
LEMMA WindowAdd ==
  ASSUME NEW u \in Seq(Byte), Window(u), Whole(u),
         NEW k \in Nat, k > 0, NEW size \in 1 .. MaxPayload,
         \A i \in 1 .. Len(u) : u[i].frame < k
  PROVE  Added(u, u \o encode_frame(k, size), k)
<1> DEFINE f == encode_frame(k, size)
           n == HeaderSize + size + TrailerSize
           d == Len(u)
           v == u \o f
<1>1. /\ f \in Seq(Byte) /\ n \in Nat /\ n > 0 /\ Len(f) = n
      /\ \A i \in 1 .. n : /\ f[i].frame = k /\ f[i].pos = i /\ f[i].len = size
                           /\ Size(f[i]) = n
  BY EncodeFacts
<1> HIDE DEF f, n
<1>2. /\ d \in Nat /\ v \in Seq(Byte) /\ Len(v) = d + n
      /\ \A i \in 1 .. d + n : v[i] = IF i <= d THEN u[i] ELSE f[i - d]
  <2>1. /\ v \in Seq(Byte) /\ Len(v) = Len(u) + Len(f)
        /\ \A i \in 1 .. Len(u) + Len(f) : v[i] = IF i <= Len(u) THEN u[i] ELSE f[i - Len(u)]
    BY <1>1, ConcatProperties
  <2>2. QED
    BY <1>1, <2>1
<1>3. \A i \in 1 .. d : /\ u[i].pos \in Nat /\ u[i].frame \in Nat /\ u[i].len \in Nat
                        /\ Size(u[i]) \in Nat /\ FrameEnd(u, i) \in Int
  <2> SUFFICES ASSUME NEW i \in 1 .. d
               PROVE  /\ u[i].pos \in Nat /\ u[i].frame \in Nat /\ u[i].len \in Nat
                      /\ Size(u[i]) \in Nat /\ FrameEnd(u, i) \in Int
    OBVIOUS
  <2>1. u[i] \in Byte
    OBVIOUS
  <2>2. u[i].pos \in Nat /\ u[i].frame \in Nat /\ u[i].len \in Nat
    BY <2>1 DEF Byte
  <2>3. Size(u[i]) \in Nat
    BY <2>2, ConstantsType DEF Size
  <2>4. QED
    BY <2>2, <2>3 DEF FrameEnd
<1>4. \A i \in 1 .. d : /\ i \in 1 .. Len(v) /\ v[i] = u[i] /\ FrameEnd(v, i) = FrameEnd(u, i)
                        /\ FrameEnd(u, i) <= d
  BY <1>2, <1>3 DEF FrameEnd, Whole
<1> HIDE DEF v
<1>5. \A i \in 1 .. Len(v) : i \notin 1 .. d =>
        /\ v[i].frame = k /\ v[i].pos = i - d /\ v[i].len = size /\ Size(v[i]) = n
        /\ FrameEnd(v, i) = d + n /\ i - d \in 1 .. n
  <2> SUFFICES ASSUME NEW i \in 1 .. Len(v), i \notin 1 .. d
               PROVE  /\ v[i].frame = k /\ v[i].pos = i - d /\ v[i].len = size /\ Size(v[i]) = n
                      /\ FrameEnd(v, i) = d + n /\ i - d \in 1 .. n
    OBVIOUS
  <2>1. i - d \in 1 .. n /\ v[i] = f[i - d]
    <3>1. d \in Nat /\ n \in Nat /\ Len(v) = d + n
      BY <1>1, <1>2
    <3>2. i \in 1 .. d + n
      BY <3>1
    <3>3. i - d \in 1 .. n /\ ~(i <= d)
      <4> HIDE DEF d
      <4>1. QED
        BY <3>1, <3>2
    <3>4. QED
      BY <1>2, <3>2, <3>3
  <2>2. /\ v[i].frame = k /\ v[i].pos = i - d /\ v[i].len = size /\ Size(v[i]) = n
    BY <1>1, <2>1
  <2>3. i + n - (i - d) = d + n
    BY <1>1, <1>2
  <2>4. QED
    BY <2>1, <2>2, <2>3 DEF FrameEnd
<1>6. Window(v)
  <2>1. \A i \in 1 .. Len(v) :
          v[i].pos \in 1 .. Size(v[i]) /\ v[i].len <= MaxPayload /\ v[i].frame > 0
    <3>1. \A i \in 1 .. d :
            v[i].pos \in 1 .. Size(v[i]) /\ v[i].len <= MaxPayload /\ v[i].frame > 0
      BY <1>4 DEF Window
    <3>2. ASSUME NEW i \in 1 .. Len(v), i \notin 1 .. d
          PROVE  v[i].pos \in 1 .. Size(v[i]) /\ v[i].len <= MaxPayload /\ v[i].frame > 0
      BY <1>5, <3>2, ConstantsType
    <3>3. QED
      BY <3>1, <3>2
  <2>2. ASSUME NEW i \in 1 .. Len(v), NEW j \in 1 .. Len(v), i <= j
        PROVE  \/ /\ j <= FrameEnd(v, i) /\ v[j].frame = v[i].frame /\ v[j].len = v[i].len
                  /\ v[j].pos = v[i].pos + (j - i)
               \/ /\ j > FrameEnd(v, i) /\ v[j].frame > v[i].frame
                  /\ j = FrameEnd(v, i) + 1 => v[j].pos = 1
    <3>1. CASE j \in 1 .. d
      <4>1. i \in 1 .. d
        BY <1>2, <2>2, <3>1
      <4>2. QED
        BY <1>4, <2>2, <3>1, <4>1 DEF Window
    <3>2. CASE j \notin 1 .. d /\ i \in 1 .. d
      <4>1. j > d /\ j \in Int
        BY <1>2, <3>2
      <4>2. /\ v[j].frame = k /\ v[j].pos = j - d
            /\ v[i] = u[i] /\ FrameEnd(v, i) = FrameEnd(u, i)
            /\ FrameEnd(u, i) <= d /\ FrameEnd(u, i) \in Int /\ u[i].frame < k
            /\ u[i].frame \in Nat
        BY <1>3, <1>4, <1>5, <3>2
      <4>3. j > FrameEnd(v, i)
        BY <1>2, <4>1, <4>2
      <4>4. v[j].frame > v[i].frame
        BY <4>2
      <4>5. j = FrameEnd(v, i) + 1 => v[j].pos = 1
        BY <1>2, <4>1, <4>2
      <4>6. QED
        BY <4>3, <4>4, <4>5
    <3>3. CASE j \notin 1 .. d /\ i \notin 1 .. d
      <4>1. /\ v[i].frame = k /\ v[i].pos = i - d /\ v[i].len = size /\ FrameEnd(v, i) = d + n
            /\ v[j].frame = k /\ v[j].pos = j - d /\ v[j].len = size
        BY <1>5, <3>3
      <4>2. j <= d + n /\ j - d = (i - d) + (j - i)
        BY <1>1, <1>2
      <4>3. QED
        BY <4>1, <4>2
    <3>4. QED
      BY <3>1, <3>2, <3>3
  <2>3. QED
    BY <2>1, <2>2 DEF Window
<1>7. Whole(v)
  BY <1>1, <1>2, <1>3, <1>4, <1>5 DEF Whole
<1>8. \A i \in 1 .. Len(v) : FrameEnd(v, i) = Len(v) => v[i].frame = k
  BY <1>1, <1>2, <1>3, <1>4, <1>5
<1>9. ASSUME Gapless(u), \A i \in 1 .. d : FrameEnd(u, i) = d => u[i].frame + 1 = k
      PROVE  Gapless(v)
  <2> SUFFICES ASSUME NEW i \in 1 .. Len(v), NEW j \in 1 .. Len(v), j = FrameEnd(v, i) + 1
               PROVE  v[j].frame = v[i].frame + 1
    BY DEF Gapless
  <2>1. i \in 1 .. d
    BY <1>1, <1>2, <1>5
  <2>2. CASE j \in 1 .. d
    BY <1>4, <1>9, <2>1, <2>2 DEF Gapless
  <2>3. CASE j \notin 1 .. d
    <3>1. FrameEnd(u, i) = d
      BY <1>2, <1>3, <1>4, <2>1, <2>3
    <3>2. QED
      BY <1>4, <1>5, <1>9, <2>1, <2>3, <3>1
  <2>4. QED
    BY <2>2, <2>3
<1>10. u = << >> => v[1].pos = 1 /\ v[1].frame = k
  <2>1. u = << >> => d = 0
    OBVIOUS
  <2>2. QED
    BY <1>1, <1>2, <1>5, <2>1
<1>11. v # << >> /\ \A i \in 1 .. Len(v) : i \in 1 .. d \/ v[i].frame = k
  BY <1>1, <1>2, <1>5
<1>12. \A i \in 1 .. Len(v) : v[i].frame <= k
  BY <1>3, <1>4, <1>5
<1>13. QED
  BY <1>2, <1>4, <1>6, <1>7, <1>8, <1>9, <1>10, <1>11, <1>12 DEF v, f, Added

\* When exactly the first frame of a window is dropped, the rest begins with a
\* frame of its own.
LEMMA WholeRead ==
  ASSUME NEW p \in Seq(Byte), NEW r \in Seq(Byte), Window(p \o r),
         p # << >>, p[1].pos = 1, Len(p) = Size(p[1])
  PROVE  /\ p \o r # << >> /\ (p \o r)[1] = p[1] /\ FrameEnd(p \o r, 1) = Len(p)
         /\ \A i \in 1 .. Len(r) : r[i].frame > p[1].frame
         /\ r # << >> => r[1].pos = 1
         /\ r # << >> /\ Gapless(p \o r) => r[1].frame = p[1].frame + 1
<1> DEFINE u == p \o r
           d == Len(p)
           m == Len(r)
<1>1. /\ d \in Nat /\ d > 0 /\ m \in Nat /\ Len(u) = d + m /\ u \in Seq(Byte)
      /\ \A i \in 1 .. d + m : u[i] = IF i <= d THEN p[i] ELSE r[i - d]
  BY ConcatProperties, EmptySeq
<1> HIDE DEF u, m
<1>2. u[1] = p[1] /\ 1 \in 1 .. Len(u) /\ u # << >>
  BY <1>1
<1>3. FrameEnd(u, 1) = d
  BY <1>1, <1>2 DEF FrameEnd
<1>4. \A i \in 1 .. m : d + i \in 1 .. Len(u) /\ r[i] = u[d + i] /\ d + i > d /\ 1 <= d + i
  BY <1>1
<1>5. \A i \in 1 .. m : /\ r[i].frame > p[1].frame
                        /\ d + i = d + 1 => r[i].pos = 1
  <2> SUFFICES ASSUME NEW i \in 1 .. m
               PROVE  r[i].frame > p[1].frame /\ (d + i = d + 1 => r[i].pos = 1)
    OBVIOUS
  <2>1. \/ d + i <= FrameEnd(u, 1)
        \/ /\ d + i > FrameEnd(u, 1) /\ u[d + i].frame > u[1].frame
           /\ d + i = FrameEnd(u, 1) + 1 => u[d + i].pos = 1
    BY <1>2, <1>4 DEF Window, u
  <2>2. QED
    BY <1>1, <1>2, <1>3, <1>4, <2>1
<1>6. r # << >> => 1 \in 1 .. m
  BY EmptySeq DEF m
<1>7. r # << >> /\ Gapless(u) => r[1].frame = p[1].frame + 1
  <2> SUFFICES ASSUME r # << >>, Gapless(u) PROVE r[1].frame = p[1].frame + 1
    OBVIOUS
  <2>1. d + 1 \in 1 .. Len(u) /\ r[1] = u[d + 1] /\ d + 1 = FrameEnd(u, 1) + 1
    BY <1>3, <1>4, <1>6
  <2>2. QED
    BY <1>2, <2>1 DEF Gapless
<1>8. QED
  BY <1>2, <1>3, <1>5, <1>6, <1>7 DEF u, m

-----------------------------------------------------------------------------
(* The network                                                             *)

LEMMA UnreadType ==
  ASSUME FramingTypeOK, NEW e \in End
  PROVE  /\ body[e] \in Seq(Byte) /\ arrived[e] \in Seq(Byte) /\ stream[e] \in Seq(Byte)
         /\ arrived[e] \o stream[e] \in Seq(Byte) /\ Unread(e) \in Seq(Byte)
<1>1. body[e] \in Seq(Byte) /\ arrived[e] \in Seq(Byte) /\ stream[e] \in Seq(Byte)
  BY DEF FramingTypeOK
<1>2. arrived[e] \o stream[e] \in Seq(Byte)
  BY <1>1, ConcatProperties
<1>3. QED
  BY <1>1, <1>2, ConcatProperties DEF Unread

LEMMA FramingInitial == FramingInit => FramingInv
<1> SUFFICES ASSUME FramingInit PROVE FramingInv
  OBVIOUS
<1>1. FramingTypeOK
  BY EmptySeq DEF FramingInit, FramingTypeOK
<1>2. \A e \in End : Unread(e) = << >> /\ body[e] = << >> /\ want[e] = 0 /\ ~open[e]
  BY ConcatEmptySeq, EmptySeq DEF FramingInit, Unread
<1>3. \A e \in End : Peer(e) \in End
  BY DEF End, Peer
<1>4. "worker" \in End /\ "coordinator" \in End
  BY DEF End
<1>5. \A e \in End : Buffers(e)
  BY <1>2, <1>3, EmptySeq DEF Buffers, Window
<1>6. Counts /\ RepliesAdvance /\ RepliesMatch
  BY <1>2, <1>4, EmptySeq DEF FramingInit, Counts, RepliesAdvance, RepliesMatch
<1>7. QED
  BY <1>1, <1>2, <1>4, <1>5, <1>6 DEF FramingInv

\* What is said of sequences does not depend on the moment.
LEMMA Rigid ==
  /\ \A s : Window(s)' <=> Window(s)
  /\ \A s : Whole(s)' <=> Whole(s)
  /\ \A s : Gapless(s)' <=> Gapless(s)
  /\ \A s, i : FrameEnd(s, i)' = FrameEnd(s, i)
  /\ \A b : Size(b)' = Size(b)
BY DEF Window, Whole, Gapless, FrameEnd, Size

\* A step that only moves bytes towards an end.
LEMMA SameUnread ==
  ASSUME FramingInv, FramingTypeOK', \A e \in End : Unread(e)' = Unread(e),
         UNCHANGED <<open, body, want, calls, waiting, handled, replies, cut>>
  PROVE  FramingInv'
<1>1. "worker" \in End /\ "coordinator" \in End
  BY DEF End
<1>2. \A e \in End : Buffers(e)'
  BY Rigid DEF FramingInv, Buffers
<1>3. Counts'
  BY DEF FramingInv, Counts
<1>4. (open["coordinator"] => CoordinatorSide)'
  BY <1>1, Rigid DEF FramingInv, CoordinatorSide, AtFrame
<1>5. (open["worker"] => WorkerSide)'
  BY <1>1, Rigid DEF FramingInv, WorkerSide, AtFrame
<1>6. RepliesAdvance' /\ RepliesMatch'
  BY DEF FramingInv, RepliesAdvance, RepliesMatch
<1>7. QED
  BY <1>2, <1>3, <1>4, <1>5, <1>6 DEF FramingInv

LEMMA StepArrive ==
  ASSUME FramingInv, NEW e \in End, NEW n \in 1 .. Len(stream[e]), Arrive(e, n)
  PROVE  FramingInv'
<1> DEFINE a == arrived[e]
           s == stream[e]
<1>1. /\ a \in Seq(Byte) /\ s \in Seq(Byte) /\ body[e] \in Seq(Byte) /\ n \in 0 .. Len(s)
  BY UnreadType DEF FramingInv
<1>2. /\ SubSeq(s, 1, n) \in Seq(Byte) /\ SubSeq(s, n + 1, Len(s)) \in Seq(Byte)
      /\ (a \o SubSeq(s, 1, n)) \o SubSeq(s, n + 1, Len(s)) = a \o s
  <2>1. Moving(Byte, a, s, n)
    BY <1>1, Moved
  <2>2. QED
    BY <2>1 DEF Moving
<1>3. a \o SubSeq(s, 1, n) \in Seq(Byte)
  BY <1>1, <1>2, ConcatProperties
<1>4. /\ arrived' = [arrived EXCEPT ![e] = a \o SubSeq(s, 1, n)]
      /\ stream' = [stream EXCEPT ![e] = SubSeq(s, n + 1, Len(s))]
      /\ UNCHANGED <<open, body, want, calls, waiting, handled, replies, cut, unsent>>
  BY DEF Arrive, hist
<1>5. FramingTypeOK'
  BY <1>2, <1>3, <1>4 DEF FramingInv, FramingTypeOK
<1>6. \A d \in End : Unread(d)' = Unread(d)
  BY <1>2, <1>4 DEF FramingInv, FramingTypeOK, Unread
<1>7. QED
  BY <1>4, <1>5, <1>6, SameUnread

\* A reset leaves an end whose peer is gone what it has in its buffer.
LEMMA StepReset ==
  ASSUME FramingInv, NEW e \in End, Reset(e)
  PROVE  FramingInv'
<1>1. /\ open[e] /\ ~open[Peer(e)]
      /\ stream' = [stream EXCEPT ![e] = << >>] /\ arrived' = [arrived EXCEPT ![e] = << >>]
      /\ UNCHANGED <<open, body, want, calls, waiting, handled, replies, cut, unsent>>
  BY DEF Reset, hist
<1>2. FramingTypeOK'
  BY <1>1, EmptySeq DEF FramingInv, FramingTypeOK
<1> DEFINE b == body[e]
           r == arrived[e] \o stream[e]
<1>3. b \in Seq(Byte) /\ r \in Seq(Byte) /\ Unread(e) = b \o r
  BY UnreadType DEF FramingInv, Unread
<1>4. Unread(e)' = b /\ \A d \in End : d # e => Unread(d)' = Unread(d)
  <2>1. b \o (<< >> \o << >>) = b
    BY <1>3, EmptySeq, ConcatEmptySeq
  <2>2. QED
    BY <1>1, <2>1 DEF FramingInv, FramingTypeOK, Unread
<1> HIDE DEF b, r
<1>5. Window(b \o r)
  BY <1>3 DEF FramingInv, Buffers
<1>6. /\ \A i \in 1 .. Len(b) : i \in 1 .. Len(b \o r) /\ b[i] = (b \o r)[i]
      /\ Window(b) /\ (Gapless(b \o r) => Gapless(b))
  BY <1>3, <1>5, WindowFirst
<1>7. \A d \in End : Buffers(d)'
  <2>1. Buffers(e)'
    BY <1>1, <1>4, <1>6, Rigid DEF FramingInv, Buffers, Peer, End
  <2>2. ASSUME NEW d \in End, d # e PROVE Buffers(d)'
    BY <1>1, <1>4, <2>2, Rigid DEF FramingInv, Buffers, Peer, End
  <2>3. QED
    BY <2>1, <2>2
<1>8. b # << >> => b \o r # << >> /\ (b \o r)[1] = b[1]
  <2>1. b # << >> => 1 \in 1 .. Len(b)
    BY <1>3, EmptySeq
  <2>2. b \o r = << >> => Len(b \o r) = 0
    OBVIOUS
  <2>3. QED
    BY <1>6, <2>1, <2>2
<1>9. Counts'
  BY <1>1, <1>3, <1>4, <1>8 DEF FramingInv, Counts
<1>10. (open["coordinator"] => CoordinatorSide)'
  <2>1. CASE e = "coordinator"
    <3>1. CoordinatorSide /\ ~open["worker"]
      BY <1>1, <2>1 DEF FramingInv, Peer
    <3>2. QED
      BY <1>1, <1>3, <1>4, <1>6, <1>8, <2>1, <3>1, Rigid DEF CoordinatorSide, AtFrame
  <2>2. CASE e # "coordinator"
    BY <1>1, <2>2, Rigid DEF End, Peer
  <2>3. QED
    BY <2>1, <2>2
<1>11. (open["worker"] => WorkerSide)'
  <2>1. CASE e = "worker"
    <3>1. WorkerSide
      BY <1>1, <2>1 DEF FramingInv
    <3>2. QED
      BY <1>1, <1>3, <1>4, <1>6, <1>8, <2>1, <3>1, Rigid DEF WorkerSide, AtFrame
  <2>2. CASE e # "worker"
    BY <1>1, <2>2, Rigid DEF End, Peer
  <2>3. QED
    BY <2>1, <2>2
<1>12. RepliesAdvance' /\ RepliesMatch'
  BY <1>1 DEF FramingInv, RepliesAdvance, RepliesMatch
<1>13. QED
  BY <1>2, <1>7, <1>9, <1>10, <1>11, <1>12 DEF FramingInv

-----------------------------------------------------------------------------
(* The processes                                                           *)

LEMMA StepConnect ==
  ASSUME FramingInv, Connect
  PROVE  FramingInv'
<1>1. /\ calls = 0 /\ open' = [e \in End |-> TRUE]
      /\ UNCHANGED <<stream, arrived, body, want, calls, waiting, handled, replies, cut, unsent>>
  BY DEF Connect, hist
<1>2. "worker" \in End /\ "coordinator" \in End
  BY DEF End
<1>3. /\ \A e \in End : Unread(e)' = << >> /\ Unread(e) = << >>
      /\ handled \in Seq(Nat) /\ replies \in Seq(Nat) /\ Len(handled) = 0 /\ Len(replies) = 0
      /\ ~waiting
  BY <1>1 DEF FramingInv, FramingTypeOK, Counts, Unread
<1>4. replies = << >> /\ \A e \in End : body[e] = << >> /\ want[e] = 0
  <2>1. replies = << >>
    BY <1>3, EmptySeq
  <2>2. ASSUME NEW e \in End PROVE body[e] = << >> /\ want[e] = 0
    <3>1. body[e] = << >>
      <4>1. body[e] \in Seq(Byte) /\ arrived[e] \o stream[e] \in Seq(Byte)
        BY UnreadType DEF FramingInv
      <4>2. QED
        BY <1>3, <4>1, ConcatEqualIffEmpty DEF Unread
    <3>2. Len(body[e]) = 0
      BY <3>1, EmptySeq
    <3>3. QED
      BY <3>1, <3>2, ConstantsType DEF FramingInv, Buffers, FramingTypeOK
  <2>3. QED
    BY <2>1, <2>2
<1>5. FramingTypeOK'
  BY <1>1 DEF FramingInv, FramingTypeOK
<1>6. \A e \in End : Buffers(e)'
  BY <1>1, <1>3, <1>4, EmptySeq, Rigid DEF Buffers, Window, Whole
<1>7. Counts'
  BY <1>1, <1>3 DEF FramingInv, Counts
<1>8. CoordinatorSide'
  BY <1>1, <1>2, <1>3, <1>4, EmptySeq, Rigid DEF CoordinatorSide, AtFrame, Gapless
<1>9. WorkerSide'
  BY <1>1, <1>2, <1>3, <1>4, EmptySeq DEF WorkerSide, AtFrame
<1>10. RepliesAdvance' /\ RepliesMatch'
  BY <1>1, <1>4, EmptySeq DEF RepliesAdvance, RepliesMatch
<1>11. QED
  BY <1>5, <1>6, <1>7, <1>8, <1>9, <1>10 DEF FramingInv

LEMMA StepCrash ==
  ASSUME FramingInv, Crash
  PROVE  FramingInv'
<1>1. /\ open["worker"] /\ open' = [open EXCEPT !["worker"] = FALSE] /\ waiting' = FALSE
      /\ UNCHANGED <<stream, arrived, body, want, calls, handled, replies, cut, unsent>>
  BY DEF Crash, hist
<1>2. /\ "worker" \in End /\ "coordinator" \in End /\ open \in [End -> BOOLEAN]
      /\ \A e \in End : Peer(e) \in End
  BY DEF End, Peer, FramingInv, FramingTypeOK
<1>3. \A e \in End : Unread(e)' = Unread(e) /\ (open'[e] => open[e])
  BY <1>1, <1>2 DEF Unread
<1>4. ~open'["worker"] /\ (open'["coordinator"] <=> open["coordinator"])
  BY <1>1, <1>2
<1>5. FramingTypeOK'
  BY <1>1 DEF FramingInv, FramingTypeOK
<1>6. \A e \in End : Buffers(e)'
  BY <1>1, <1>2, <1>3, Rigid DEF FramingInv, Buffers
<1>7. Counts'
  BY <1>1, <1>3, <1>4 DEF FramingInv, Counts
<1>8. (open["coordinator"] => CoordinatorSide)'
  BY <1>1, <1>2, <1>3, <1>4, Rigid DEF FramingInv, CoordinatorSide, AtFrame
<1>9. RepliesAdvance' /\ RepliesMatch'
  BY <1>1, <1>4 DEF FramingInv, RepliesAdvance, RepliesMatch
<1>10. QED
  BY <1>4, <1>5, <1>6, <1>7, <1>8, <1>9 DEF FramingInv

\* What is sent to e comes after all that e has not dealt with.
LEMMA Sending ==
  ASSUME FramingTypeOK, NEW e \in End, NEW f \in Seq(Byte)
  PROVE  /\ stream[e] \o f \in Seq(Byte)
         /\ body[e] \o (arrived[e] \o (stream[e] \o f)) = Unread(e) \o f
<1> DEFINE b == body[e]
           a == arrived[e]
           s == stream[e]
<1>1. b \in Seq(Byte) /\ a \in Seq(Byte) /\ s \in Seq(Byte) /\ a \o s \in Seq(Byte)
  BY UnreadType
<1>2. Unread(e) = b \o (a \o s)
  BY DEF Unread
<1> HIDE DEF b, a, s
<1>3. s \o f \in Seq(Byte)
  BY <1>1, ConcatProperties
<1>4. a \o (s \o f) = (a \o s) \o f
  BY <1>1, ConcatAssociative
<1>5. b \o ((a \o s) \o f) = (b \o (a \o s)) \o f
  <2> DEFINE r == a \o s
  <2>1. b \in Seq(Byte) /\ r \in Seq(Byte) /\ f \in Seq(Byte)
    BY <1>1
  <2> HIDE DEF r
  <2>2. (b \o r) \o f = b \o (r \o f)
    BY ONLY <2>1, ConcatAssociative
  <2>3. QED
    BY <2>2 DEF r
<1>6. QED
  BY <1>2, <1>3, <1>4, <1>5 DEF b, a, s

LEMMA StepAsk ==
  ASSUME FramingInv, NEW size \in RequestSizes, Ask(size)
  PROVE  FramingInv'
<1> DEFINE k == calls + 1
           f == encode_frame(k, size)
           u == Unread("coordinator")
           v == u \o f
<1>1. /\ open["worker"] /\ ~waiting /\ calls' = calls + 1 /\ waiting' = TRUE
      /\ stream' = IF open["coordinator"]
                   THEN [stream EXCEPT !["coordinator"] = @ \o f] ELSE stream
      /\ UNCHANGED <<open, arrived, body, want, handled, replies, cut, unsent>>
  BY DEF Ask, Sent, Peer, hist
<1>2. /\ "worker" \in End /\ "coordinator" \in End /\ open \in [End -> BOOLEAN]
      /\ Peer("coordinator") = "worker" /\ \A e \in End : e = "worker" \/ e = "coordinator"
      /\ stream \in [End -> Seq(Byte)] /\ calls \in Nat
      /\ handled \in Seq(Nat) /\ replies \in Seq(Nat)
  BY DEF End, Peer, FramingInv, FramingTypeOK
<1>3. size \in 1 .. MaxPayload /\ k \in Nat /\ k > 0
  BY <1>2, ConstantsType
<1>4. f \in Seq(Byte)
  BY <1>3, EncodeFacts
<1>5. FramingTypeOK'
  BY <1>1, <1>2, <1>4, Sending DEF FramingInv, FramingTypeOK
<1>6. /\ Unread("worker")' = Unread("worker")
      /\ Unread("coordinator")' = IF open["coordinator"] THEN v ELSE u
  <2>1. body["coordinator"] \o (arrived["coordinator"] \o (stream["coordinator"] \o f)) = v
    BY <1>2, <1>4, Sending DEF FramingInv
  <2>2. QED
    BY <1>1, <1>2, <2>1 DEF Unread
<1> HIDE DEF k, f, u, v
<1>7. u \in Seq(Byte) /\ Window(u) /\ Whole(u)
  BY <1>1, <1>2, UnreadType DEF FramingInv, Buffers, u
<1>8. ASSUME open["coordinator"]
      PROVE  /\ Window(v) /\ Whole(v) /\ CoordinatorSide'
  <2>1. CoordinatorSide
    BY <1>8 DEF FramingInv
  <2>2. \A i \in 1 .. Len(u) : u[i].frame < k /\ u[i].frame \in Nat
    <3>1. \A i \in 1 .. Len(u) : u[i] \in Byte /\ u[i].frame <= calls
      BY <1>7, <2>1 DEF CoordinatorSide, u
    <3>2. QED
      BY <1>2, <3>1 DEF Byte, k
  <2>3. Added(u, v, k)
    BY <1>3, <1>7, <2>2, WindowAdd DEF v, f
  <2>4. Gapless(v)
    BY <1>1, <2>1, <2>3 DEF CoordinatorSide, Added, u, k
  <2>5. v[1].pos = 1 /\ v[1].frame = Len(handled) + 1
    <3>1. CASE u = << >>
      BY <1>1, <2>1, <2>3, <3>1 DEF CoordinatorSide, Added, u, k
    <3>2. CASE u # << >>
      <4>1. 1 \in 1 .. Len(u)
        BY <1>7, <3>2, EmptySeq
      <4>2. QED
        BY <2>1, <2>3, <3>2, <4>1 DEF CoordinatorSide, AtFrame, Added, u
    <3>3. QED
      BY <3>1, <3>2
  <2>6. (want["coordinator"] # 0 => want["coordinator"] = Size(body["coordinator"][1]))'
    BY <1>1, <2>1, Rigid DEF CoordinatorSide, AtFrame
  <2>7. Unread("coordinator")' = v /\ calls' = k
    BY <1>1, <1>6, <1>8 DEF k
  <2>8. QED
    BY <1>1, <2>3, <2>4, <2>5, <2>6, <2>7, Rigid DEF CoordinatorSide, AtFrame, Added
<1>9. \A e \in End : Buffers(e)'
  <2>1. Buffers("worker")'
    BY <1>1, <1>2, <1>6, Rigid DEF FramingInv, Buffers
  <2>2. Buffers("coordinator")'
    BY <1>1, <1>2, <1>6, <1>7, <1>8, Rigid DEF FramingInv, Buffers
  <2>3. QED
    BY <1>2, <2>1, <2>2
<1>10. Counts'
  BY <1>1, <1>2 DEF FramingInv, Counts
<1>11. WorkerSide'
  BY <1>1, <1>2, <1>6, Rigid DEF FramingInv, WorkerSide, AtFrame
<1>12. RepliesAdvance' /\ RepliesMatch'
  BY <1>1 DEF FramingInv, RepliesAdvance, RepliesMatch
<1>13. QED
  BY <1>1, <1>5, <1>8, <1>9, <1>10, <1>11, <1>12 DEF FramingInv

-----------------------------------------------------------------------------
(* The receive loops                                                       *)

\* e takes p, the beginning of what it has not dealt with, and leaves r.
Takes(e, p, r) ==
  /\ p \in Seq(Byte) /\ r \in Seq(Byte) /\ Unread(e) = p \o r
  /\ arrived' \in [End -> Seq(Byte)] /\ arrived'[e] \o stream[e] = r
  /\ \A d \in End : d # e => arrived'[d] = arrived[d]

\* p is one frame, the one with number k.
IsFrame(p, k) == p # << >> /\ p[1].pos = 1 /\ Len(p) = Size(p[1]) /\ k = p[1].frame

LEMMA Ends ==
  /\ "worker" \in End /\ "coordinator" \in End
  /\ \A e \in End : e = "worker" \/ e = "coordinator"
  /\ Peer("worker") = "coordinator" /\ Peer("coordinator") = "worker"
BY DEF End, Peer

\* The coordinator gives up and closes its socket.
LEMMA ReturnLeave ==
  ASSUME FramingInv, NEW p, NEW r, Takes("coordinator", p, r), open["coordinator"],
         Return("coordinator", None), cut' = cut
  PROVE  FramingInv'
<1>1. /\ body' = [body EXCEPT !["coordinator"] = << >>]
      /\ want' = [want EXCEPT !["coordinator"] = 0]
      /\ open' = [open EXCEPT !["coordinator"] = FALSE]
      /\ UNCHANGED <<calls, stream, handled, unsent, waiting, replies>>
  BY DEF Return, CoordinatorLeaves
<1>2. FramingTypeOK'
  BY <1>1, EmptySeq DEF FramingInv, FramingTypeOK, Takes
<1>3. /\ ~open'["coordinator"] /\ (open'["worker"] <=> open["worker"])
      /\ Unread("worker")' = Unread("worker")
      /\ body'["worker"] = body["worker"] /\ want'["worker"] = want["worker"]
      /\ body'["coordinator"] = << >> /\ want'["coordinator"] = 0
  BY <1>1, Ends DEF FramingInv, FramingTypeOK, Unread, Takes
<1>4. Unread("coordinator")' = r
  <2>1. << >> \o r = r
    BY ConcatEmptySeq DEF Takes
  <2>2. QED
    BY <1>1, <1>3, <2>1, Ends DEF Unread, Takes
<1>5. /\ p \in Seq(Byte) /\ r \in Seq(Byte) /\ Window(p \o r)
      /\ open["worker"] => Whole(p \o r)
  BY Ends DEF FramingInv, Buffers, Takes
<1>6. Window(r) /\ (open["worker"] => Whole(r))
  BY <1>5, WindowRest
<1>7. \A e \in End : Buffers(e)'
  <2>1. Buffers("coordinator")'
    BY <1>3, <1>4, <1>6, Ends, Rigid DEF Buffers
  <2>2. Buffers("worker")'
    BY <1>3, Ends, Rigid DEF FramingInv, Buffers
  <2>3. QED
    BY <2>1, <2>2, Ends
<1>8. Counts'
  <2>1. p \o r = << >> => r = << >>
    BY <1>5, ConcatEqualIffEmpty
  <2>2. QED
    BY <1>1, <1>3, <1>4, <2>1, Ends DEF FramingInv, Counts, Takes
<1>9. (open["worker"] => WorkerSide)'
  BY <1>1, <1>3, Rigid DEF FramingInv, WorkerSide, AtFrame
<1>10. RepliesAdvance' /\ RepliesMatch'
  BY <1>1, <1>3 DEF FramingInv, RepliesAdvance, RepliesMatch
<1>11. QED
  BY <1>2, <1>3, <1>7, <1>8, <1>9, <1>10 DEF FramingInv

\* The coordinator takes a request, which is the next one, and answers it.
LEMMA ReturnAnswer ==
  ASSUME FramingInv, NEW p, NEW r, Takes("coordinator", p, r), open["coordinator"],
         NEW k \in Nat, k # None, IsFrame(p, k), Return("coordinator", k), cut' = cut
  PROVE  FramingInv' /\ k = Len(handled) + 1 /\ Len(handled) < calls
<1> DEFINE u == Unread("coordinator")
           w == Unread("worker")
<1>1. PICK size \in ReplySizes :
        /\ handled' = Append(handled, k)
        /\ stream' = Sent("coordinator", encode_frame(k, size))
        /\ unsent' = (unsent \/ size > MaxPayload)
        /\ UNCHANGED <<open, calls, waiting, replies>>
        /\ body' = [body EXCEPT !["coordinator"] = << >>]
        /\ want' = [want EXCEPT !["coordinator"] = 0]
  BY Ends DEF Return, CoordinatorAnswers
<1> DEFINE f == encode_frame(k, size)
           v == w \o f
<1>2. /\ p \in Seq(Byte) /\ r \in Seq(Byte) /\ u = p \o r /\ u \in Seq(Byte) /\ w \in Seq(Byte)
      /\ Window(u) /\ (open["worker"] => Whole(u)) /\ Window(w) /\ Whole(w)
      /\ CoordinatorSide
  BY Ends, UnreadType DEF FramingInv, Buffers, Takes
<1>3. /\ calls \in Nat /\ handled \in Seq(Nat) /\ Len(handled) \in Nat
      /\ replies \in Seq(Nat) /\ Len(replies) \in Nat /\ size \in Nat /\ size > 0
  BY ConstantsType DEF FramingInv, FramingTypeOK
<1> HIDE DEF u, w, f, v
<1>4. /\ u # << >> /\ u[1] = p[1] /\ FrameEnd(u, 1) = Len(p) /\ 1 \in 1 .. Len(u)
      /\ \A i \in 1 .. Len(r) : r[i].frame > p[1].frame
      /\ r # << >> => r[1].pos = 1
      /\ r # << >> /\ Gapless(u) => r[1].frame = p[1].frame + 1
  <2>1. /\ p \o r # << >> /\ (p \o r)[1] = p[1] /\ FrameEnd(p \o r, 1) = Len(p)
        /\ \A i \in 1 .. Len(r) : r[i].frame > p[1].frame
        /\ r # << >> => r[1].pos = 1
        /\ r # << >> /\ Gapless(p \o r) => r[1].frame = p[1].frame + 1
    BY <1>2, WholeRead DEF IsFrame
  <2>2. 1 \in 1 .. Len(u)
    BY <1>2, <2>1, EmptySeq
  <2>3. QED
    BY <1>2, <2>1, <2>2
<1>5. k = Len(handled) + 1 /\ k <= calls /\ Len(handled) < calls
  <2>1. k = Len(handled) + 1 /\ k <= calls
    BY <1>2, <1>4 DEF CoordinatorSide, IsFrame, u
  <2>2. QED
    BY <1>3, <2>1
<1>6. /\ handled' \in Seq(Nat) /\ Len(handled') = k
  BY <1>1, <1>3, <1>5, AppendProperties
<1>7. /\ \A i \in 1 .. Len(r) : /\ Len(p) + i \in 1 .. Len(u) /\ r[i] = u[Len(p) + i]
                                /\ FrameEnd(u, Len(p) + i) = Len(p) + FrameEnd(r, i)
      /\ Len(u) = Len(p) + Len(r)
      /\ Window(r) /\ (Whole(u) => Whole(r)) /\ (Gapless(u) => Gapless(r))
  BY <1>2, WindowRest
\* The frame goes behind what the worker has not read, or nowhere.
<1>8. /\ encode_frame(k, size) = << >> \/ size \in 1 .. MaxPayload
      /\ f \in Seq(Byte)
  <2>1. CASE size > MaxPayload
    BY <2>1, EmptySeq DEF encode_frame, f
  <2>2. CASE ~(size > MaxPayload)
    <3>1. size \in 1 .. MaxPayload
      BY <1>3, <2>2, ConstantsType
    <3>2. QED
      BY <3>1, EncodeFacts DEF f
  <2>3. QED
    BY <2>1, <2>2
<1>9. stream' = IF open["worker"] THEN [stream EXCEPT !["worker"] = @ \o f] ELSE stream
  BY <1>1, Ends DEF Sent, f
<1>10. FramingTypeOK'
  <2>1. stream["worker"] \o f \in Seq(Byte)
    BY <1>8, Ends, Sending DEF FramingInv
  <2>2. stream' \in [End -> Seq(Byte)]
    BY <1>9, <2>1 DEF FramingInv, FramingTypeOK
  <2>3. unsent' \in BOOLEAN
    BY <1>1
  <2>4. /\ body' \in [End -> Seq(Byte)] /\ want' \in [End -> Nat]
        /\ open' \in [End -> BOOLEAN]
    BY <1>1, EmptySeq DEF FramingInv, FramingTypeOK
  <2>5. /\ calls' \in Nat /\ waiting' \in BOOLEAN /\ replies' \in Seq(Nat)
        /\ cut' \in BOOLEAN /\ arrived' \in [End -> Seq(Byte)]
    BY <1>1 DEF FramingInv, FramingTypeOK, Takes
  <2>6. QED
    BY <1>6, <2>2, <2>3, <2>4, <2>5 DEF FramingTypeOK
<1>11. /\ body'["worker"] = body["worker"] /\ want'["worker"] = want["worker"]
       /\ body'["coordinator"] = << >> /\ want'["coordinator"] = 0
       /\ stream'["coordinator"] = stream["coordinator"]
       /\ arrived'["worker"] = arrived["worker"]
  BY <1>1, <1>9, Ends DEF FramingInv, FramingTypeOK, Takes
<1>12. Unread("coordinator")' = r
  <2>1. << >> \o r = r
    BY <1>2, ConcatEmptySeq
  <2>2. QED
    BY <1>11, <2>1 DEF Unread, Takes
<1>13. Unread("worker")' = IF open["worker"] THEN v ELSE w
  <2>1. body["worker"] \o (arrived["worker"] \o (stream["worker"] \o f)) = v
    BY <1>8, Ends, Sending DEF FramingInv, v, w
  <2>2. QED
    BY <1>9, <1>11, <2>1, Ends DEF FramingInv, FramingTypeOK, Unread, w
<1>14. CoordinatorSide'
  <2>1. AtFrame("coordinator")'
    BY <1>4, <1>11, <1>12 DEF AtFrame
  <2>2. Gapless(r) /\ (r # << >> => r[1].frame = k + 1)
    BY <1>2, <1>4, <1>7 DEF CoordinatorSide, IsFrame, u
  <2>3. \A i \in 1 .. Len(r) : r[i].frame <= calls
    BY <1>2, <1>7 DEF CoordinatorSide, u
  <2>4. ASSUME open["worker"], r = << >> PROVE k = calls
    <3>1. Len(r) = 0 /\ Len(p) \in Nat
      BY <1>2, <2>4, EmptySeq
    <3>2. FrameEnd(u, 1) = Len(u)
      BY <1>4, <1>7, <3>1
    <3>3. QED
      BY <1>2, <1>4, <2>4, <3>2 DEF CoordinatorSide, IsFrame, u
  <2>5. ASSUME open["worker"], NEW i \in 1 .. Len(r), FrameEnd(r, i) = Len(r)
        PROVE  r[i].frame = calls
    <3>1. /\ Len(p) + i \in 1 .. Len(u) /\ r[i] = u[Len(p) + i]
          /\ FrameEnd(u, Len(p) + i) = Len(u)
      BY <1>7, <2>5
    <3>2. \A n \in 1 .. Len(u) : FrameEnd(u, n) = Len(u) => u[n].frame = calls
      BY <1>2, <2>5 DEF CoordinatorSide, u
    <3>3. QED
      BY <3>1, <3>2
  <2>6. QED
    BY <1>1, <1>6, <1>12, <2>1, <2>2, <2>3, <2>4, <2>5, Rigid DEF CoordinatorSide
<1>15. ASSUME open["worker"]
       PROVE  Window(v) /\ Whole(v) /\ WorkerSide'
  <2>1. WorkerSide
    BY <1>15 DEF FramingInv
  <2>2. \A i \in 1 .. Len(w) : w[i].frame < k /\ w[i].frame \in Nat
    <3>1. \A i \in 1 .. Len(w) : w[i] \in Byte /\ w[i].frame <= Len(handled)
      BY <1>2, <2>1 DEF WorkerSide, w
    <3>2. QED
      BY <1>3, <1>5, <3>1 DEF Byte
  <2>3. \A j \in 1 .. Len(replies) : replies[j] \in Nat /\ replies[j] < k
    <3>1. \A j \in 1 .. Len(replies) : replies[j] \in Nat /\ replies[j] <= Len(handled)
      BY <1>3, <2>1 DEF WorkerSide
    <3>2. QED
      BY <1>3, <1>5, <3>1
  <2>4. Unread("worker")' = v
    BY <1>13, <1>15
  <2>5. CASE encode_frame(k, size) = << >>
    <3>1. v = w
      BY <1>2, <2>5, ConcatEmptySeq DEF v, f
    <3>2. \A i \in 1 .. Len(w) : w[i].frame <= k
      BY <2>2
    <3>3. QED
      BY <1>1, <1>2, <1>6, <1>11, <2>1, <2>3, <2>4, <3>1, <3>2, Rigid DEF WorkerSide, AtFrame, w
  <2>6. CASE size \in 1 .. MaxPayload
    <3>1. Added(w, v, k)
      <4>1. k > 0
        BY <1>3, <1>5
      <4>2. \A i \in 1 .. Len(w) : w[i].frame < k
        BY <2>2
      <4>3. QED
        BY <1>2, <2>6, <4>1, <4>2, WindowAdd DEF v, f
    <3>2. \A i \in 1 .. Len(v) : /\ v[i].frame <= k
                                 /\ \A j \in 1 .. Len(replies) : replies[j] < v[i].frame
      <4>1. \A i \in 1 .. Len(w) : \A j \in 1 .. Len(replies) : replies[j] < w[i].frame
        BY <2>1 DEF WorkerSide, w
      <4>2. QED
        BY <2>3, <3>1, <4>1 DEF Added
    <3>3. ASSUME ~cut PROVE /\ v[1].pos = 1 /\ \A j \in 1 .. Len(replies) : replies[j] = j
      <4>1. CASE w = << >>
        <5>1. \A j \in 1 .. Len(replies) : replies[j] = j
          BY <1>3, <3>3 DEF FramingInv, RepliesMatch
        <5>2. QED
          BY <3>1, <4>1, <5>1 DEF Added
      <4>2. CASE w # << >>
        <5>1. 1 \in 1 .. Len(w)
          BY <1>2, <4>2, EmptySeq
        <5>2. w[1].pos = 1 /\ \A j \in 1 .. Len(replies) : replies[j] = j
          BY <2>1, <3>3, <4>2 DEF WorkerSide, AtFrame, w
        <5>3. QED
          BY <3>1, <5>1, <5>2 DEF Added
      <4>3. QED
        BY <4>1, <4>2
    <3>4. ~cut => (want["worker"] # 0 => want["worker"] = Size(body["worker"][1]))
      BY <2>1 DEF WorkerSide, AtFrame
    <3>5. \A j \in 1 .. Len(replies) : replies[j] <= k
      BY <2>3
    <3>6. WorkerSide'
      BY <1>1, <1>6, <1>11, <2>4, <3>2, <3>3, <3>4, <3>5, Rigid DEF WorkerSide, AtFrame
    <3>7. QED
      BY <3>1, <3>6 DEF Added
  <2>7. QED
    BY <1>8, <2>5, <2>6
<1>16. \A e \in End : Buffers(e)'
  <2>1. Buffers("coordinator")'
    BY <1>1, <1>2, <1>7, <1>11, <1>12, Ends, Rigid DEF Buffers
  <2>2. Buffers("worker")'
    <3>1. Window(Unread("worker")') /\ Whole(Unread("worker")')
      BY <1>2, <1>13, <1>15
    <3>2. QED
      BY <1>11, <3>1, Ends, Rigid DEF FramingInv, Buffers
  <2>3. QED
    BY <2>1, <2>2, Ends
<1>17. Counts'
  BY <1>1, <1>3, <1>5, <1>6 DEF FramingInv, Counts
<1>18. RepliesAdvance' /\ RepliesMatch'
  BY <1>1 DEF FramingInv, RepliesAdvance, RepliesMatch
<1>19. QED
  BY <1>1, <1>5, <1>10, <1>14, <1>15, <1>16, <1>17, <1>18 DEF FramingInv

\* The worker takes a reply, or None; it never stands before what it took, and
\* while it has its place the reply is the one it waits for.
LEMMA ReturnReply ==
  ASSUME FramingInv, NEW p, NEW r, Takes("worker", p, r), open["worker"], waiting,
         NEW k \in Nat, k # None => IsFrame(p, k), Return("worker", k),
         cut' \in BOOLEAN, cut => cut',
         ~cut' /\ k = None => r = << >> /\ ~open["coordinator"]
  PROVE  FramingInv'
<1> DEFINE u == Unread("worker")
           n == Len(replies) + 1
<1>1. /\ body' = [body EXCEPT !["worker"] = << >>]
      /\ want' = [want EXCEPT !["worker"] = 0]
      /\ waiting' = FALSE /\ replies' = Append(replies, k)
      /\ UNCHANGED <<open, calls, stream, handled, unsent>>
  BY Ends DEF Return
<1>2. /\ p \in Seq(Byte) /\ r \in Seq(Byte) /\ u = p \o r /\ u \in Seq(Byte)
      /\ Window(u) /\ (open["coordinator"] => Whole(u)) /\ WorkerSide
  BY Ends, UnreadType DEF FramingInv, Buffers, Takes
<1>3. /\ calls \in Nat /\ Len(handled) \in Nat /\ replies \in Seq(Nat) /\ Len(replies) \in Nat
      /\ Len(handled) <= calls /\ calls = n
      /\ \A j \in 1 .. Len(replies) : replies[j] \in Nat
  BY DEF FramingInv, FramingTypeOK, Counts
<1>4. /\ replies' \in Seq(Nat) /\ Len(replies') = n /\ replies'[n] = k
      /\ \A j \in 1 .. Len(replies) : replies'[j] = replies[j]
  BY <1>1, <1>3, AppendProperties
<1>5. \A j \in 1 .. n : j = n \/ j \in 1 .. Len(replies)
  BY <1>3
<1> HIDE DEF u, n
<1>6. FramingTypeOK'
  <2>1. body' \in [End -> Seq(Byte)] /\ want' \in [End -> Nat]
    BY <1>1, EmptySeq DEF FramingInv, FramingTypeOK
  <2>2. QED
    BY <1>1, <1>4, <2>1 DEF FramingInv, FramingTypeOK, Takes
<1>7. /\ body'["coordinator"] = body["coordinator"] /\ want'["coordinator"] = want["coordinator"]
      /\ body'["worker"] = << >> /\ want'["worker"] = 0
      /\ Unread("coordinator")' = Unread("coordinator")
  BY <1>1, Ends DEF FramingInv, FramingTypeOK, Takes, Unread
<1>8. Unread("worker")' = r
  <2>1. << >> \o r = r
    BY <1>2, ConcatEmptySeq
  <2>2. QED
    BY <1>1, <1>7, <2>1 DEF Unread, Takes
<1>9. /\ \A i \in 1 .. Len(r) : Len(p) + i \in 1 .. Len(u) /\ r[i] = u[Len(p) + i]
      /\ Window(r) /\ (Whole(u) => Whole(r))
  BY <1>2, WindowRest
<1>10. r # << >> => u # << >>
  BY <1>2, ConcatEqualIffEmpty
<1>11. ASSUME k # None
       PROVE  /\ u # << >> /\ 1 \in 1 .. Len(u) /\ u[1].frame = k
              /\ \A i \in 1 .. Len(r) : r[i].frame > k
              /\ r # << >> => r[1].pos = 1
  <2>1. /\ p \o r # << >> /\ (p \o r)[1] = p[1] /\ k = p[1].frame
        /\ \A i \in 1 .. Len(r) : r[i].frame > p[1].frame
        /\ r # << >> => r[1].pos = 1
    BY <1>2, <1>11, WholeRead DEF IsFrame
  <2>2. 1 \in 1 .. Len(u)
    BY <1>2, <2>1, EmptySeq
  <2>3. QED
    BY <1>2, <2>1, <2>2
\* The reply is newer than the ones before and no newer than the request.
<1>12. ASSUME k # None
       PROVE  k <= Len(handled) /\ k <= n /\ \A j \in 1 .. Len(replies) : replies[j] < k
  <2>1. k <= Len(handled) /\ \A j \in 1 .. Len(replies) : replies[j] < k
    BY <1>2, <1>11, <1>12 DEF WorkerSide, u
  <2>2. QED
    BY <1>3, <2>1
<1>13. ASSUME ~cut', u # << >> PROVE \A j \in 1 .. Len(replies) : replies[j] = j
  BY <1>2, <1>13 DEF WorkerSide, u
<1>14. ASSUME ~cut', k # None PROVE k = n
  <2>1. CASE Len(replies) = 0
    BY <1>3, <1>12, <1>14, <2>1 DEF n, None
  <2>2. CASE Len(replies) # 0
    <3>1. Len(replies) \in 1 .. Len(replies)
      BY <1>3, <2>2
    <3>2. replies[Len(replies)] = Len(replies)
      BY <1>11, <1>13, <1>14, <3>1
    <3>3. Len(replies) < k
      BY <1>12, <1>14, <3>1, <3>2
    <3>4. QED
      BY <1>3, <1>12, <1>14, <3>3 DEF n
  <2>3. QED
    BY <2>1, <2>2
<1>15. \A e \in End : Buffers(e)'
  <2>1. Buffers("coordinator")'
    BY <1>1, <1>7, Ends, Rigid DEF FramingInv, Buffers
  <2>2. Buffers("worker")'
    BY <1>1, <1>2, <1>7, <1>8, <1>9, Ends, Rigid DEF Buffers
  <2>3. QED
    BY <2>1, <2>2, Ends
<1>16. Counts'
  BY <1>1, <1>3, <1>4 DEF Counts, n
<1>17. (open["coordinator"] => CoordinatorSide)'
  BY <1>1, <1>7, Rigid DEF FramingInv, CoordinatorSide, AtFrame
<1>18. WorkerSide'
  <2>1. \A i \in 1 .. Len(r) : r[i].frame <= Len(handled)
    BY <1>2, <1>9 DEF WorkerSide, u
  <2>2. \A i \in 1 .. Len(r) : \A j \in 1 .. n : replies'[j] < r[i].frame
    <3>1. \A i \in 1 .. Len(r) : \A j \in 1 .. Len(replies) : replies'[j] < r[i].frame
      BY <1>2, <1>4, <1>9 DEF WorkerSide, u
    <3>2. ASSUME NEW i \in 1 .. Len(r) PROVE k < r[i].frame
      <4>1. r[i].frame \in Nat /\ r[i].frame > 0
        <5>1. r[i] \in Byte
          BY <1>2
        <5>2. QED
          BY <1>9, <5>1 DEF Window, Byte
      <4>2. QED
        BY <1>11, <4>1 DEF None
    <3>3. QED
      BY <1>4, <1>5, <3>1, <3>2
  <2>3. \A j \in 1 .. n : replies'[j] <= Len(handled)
    <3>1. \A j \in 1 .. Len(replies) : replies'[j] <= Len(handled)
      BY <1>2, <1>4 DEF WorkerSide
    <3>2. k <= Len(handled)
      BY <1>3, <1>12 DEF None
    <3>3. QED
      BY <1>4, <1>5, <3>1, <3>2
  <2>4. ASSUME ~cut', r # << >>
        PROVE  r[1].pos = 1 /\ \A j \in 1 .. n : replies'[j] = j
    <3>1. k # None
      BY <2>4
    <3>2. r[1].pos = 1 /\ k = n /\ \A j \in 1 .. Len(replies) : replies[j] = j
      BY <1>10, <1>11, <1>13, <1>14, <2>4, <3>1
    <3>3. QED
      BY <1>4, <1>5, <3>2
  <2>5. QED
    BY <1>1, <1>4, <1>7, <1>8, <2>1, <2>2, <2>3, <2>4 DEF WorkerSide, AtFrame
<1>19. RepliesAdvance'
  <2> SUFFICES ASSUME NEW i \in 1 .. n, replies'[i] # None
               PROVE  /\ replies'[i] <= i
                      /\ \A j \in 1 .. i - 1 : replies'[j] < replies'[i]
    BY <1>4 DEF RepliesAdvance
  <2>1. CASE i = n
    <3>1. \A j \in 1 .. i - 1 : j \in 1 .. Len(replies)
      BY <1>3, <2>1 DEF n
    <3>2. QED
      BY <1>4, <1>12, <2>1, <3>1
  <2>2. CASE i \in 1 .. Len(replies)
    <3>1. \A j \in 1 .. i - 1 : j \in 1 .. Len(replies)
      BY <1>3, <2>2
    <3>2. replies[i] <= i /\ \A j \in 1 .. i - 1 : replies[j] < replies[i]
      BY <1>3, <1>4, <2>2 DEF FramingInv, RepliesAdvance
    <3>3. QED
      BY <1>4, <2>2, <3>1, <3>2
  <2>3. QED
    BY <1>5, <2>1, <2>2
<1>20. RepliesMatch'
  <2> SUFFICES ASSUME ~cut', NEW i \in 1 .. n
               PROVE  \/ replies'[i] = i
                      \/ replies'[i] = None /\ ~open'["coordinator"]
    BY <1>4 DEF RepliesMatch
  <2>1. CASE i = n
    BY <1>1, <1>4, <1>14, <2>1
  <2>2. CASE i \in 1 .. Len(replies)
    BY <1>1, <1>3, <1>4, <2>2 DEF FramingInv, RepliesMatch
  <2>3. QED
    BY <1>5, <2>1, <2>2
<1>21. QED
  BY <1>6, <1>15, <1>16, <1>17, <1>18, <1>19, <1>20, <1>1, <1>2 DEF FramingInv

-----------------------------------------------------------------------------
(* recv                                                                    *)

LEMMA MinPair ==
  ASSUME NEW a \in Nat, NEW b \in Nat
  PROVE  /\ Min({a, b}) \in Nat /\ Min({a, b}) <= a /\ Min({a, b}) <= b
         /\ Min({a, b}) = a \/ Min({a, b}) = b
<1>1. \E x \in {a, b} : \A y \in {a, b} : x <= y
  OBVIOUS
<1>2. Min({a, b}) \in {a, b} /\ \A y \in {a, b} : Min({a, b}) <= y
  BY <1>1 DEF Min
<1>3. QED
  BY <1>2

\* part is the beginning of what has arrived at e, rest what is left of it.
Split(e, size, part, rest) ==
  /\ part \in Seq(Byte) /\ rest \in Seq(Byte) /\ Len(part) <= size
  /\ body[e] \o part \in Seq(Byte) /\ rest \o stream[e] \in Seq(Byte)
  /\ Unread(e) = (body[e] \o part) \o (rest \o stream[e])

LEMMA ReceivedSplits ==
  ASSUME FramingTypeOK, NEW e \in End, NEW size \in Nat
  PROVE  LET part == Received(e, size)
         IN  Split(e, size, part, SubSeq(arrived[e], Len(part) + 1, Len(arrived[e])))
<1> DEFINE b == body[e]
           a == arrived[e]
           s == stream[e]
           n == Min({size, Len(a)})
           x == SubSeq(a, 1, n)
           y == SubSeq(a, n + 1, Len(a))
<1>1. b \in Seq(Byte) /\ a \in Seq(Byte) /\ s \in Seq(Byte) /\ Len(a) \in Nat
  BY UnreadType
<1>2. Received(e, size) = x
  BY DEF Received
<1>3. Unread(e) = b \o (a \o s)
  BY DEF Unread
<1> HIDE DEF b, a, s
<1>4. n \in 0 .. Len(a) /\ n <= size
  BY <1>1, MinPair
<1> HIDE DEF n
<1>5. Moving(Byte, b, a, n)
  BY <1>1, <1>4, Moved
<1>6. x \in Seq(Byte) /\ Len(x) = n /\ y \in Seq(Byte) /\ a = x \o y
  BY <1>5 DEF Moving
<1> HIDE DEF x, y
<1>7. b \o x \in Seq(Byte) /\ y \o s \in Seq(Byte)
  BY <1>1, <1>6, ConcatProperties
<1>8. b \o ((x \o y) \o s) = (b \o x) \o (y \o s)
  <2>1. /\ b \in Seq(Byte) /\ x \in Seq(Byte) /\ y \in Seq(Byte) /\ s \in Seq(Byte)
        /\ y \o s \in Seq(Byte)
    BY <1>1, <1>6, <1>7
  <2>2. (x \o y) \o s = x \o (y \o s)
    BY ONLY <2>1, ConcatAssociative
  <2> DEFINE z == y \o s
  <2>3. z \in Seq(Byte)
    BY <2>1
  <2> HIDE DEF z
  <2>4. (b \o x) \o z = b \o (x \o z)
    BY ONLY <2>1, <2>3, ConcatAssociative
  <2>5. QED
    BY <2>2, <2>4 DEF z
<1>9. Split(e, size, x, y)
  BY <1>1, <1>3, <1>4, <1>6, <1>7, <1>8 DEF Split, b, a, s
<1>10. SubSeq(a, Len(x) + 1, Len(a)) = y
  BY <1>6 DEF y
<1>11. QED
  BY <1>2, <1>9, <1>10 DEF a

\* A recv of at most size bytes takes what it returns.
LEMMA ReceivedTaken ==
  ASSUME FramingTypeOK, NEW e \in End, NEW size \in Nat, Remove(e, Received(e, size))
  PROVE  \E r : /\ Takes(e, body[e] \o Received(e, size), r)
                /\ Received(e, size) \in Seq(Byte) /\ Len(Received(e, size)) <= size
<1> DEFINE part == Received(e, size)
           rest == SubSeq(arrived[e], Len(part) + 1, Len(arrived[e]))
<1>1. Split(e, size, part, rest)
  BY ReceivedSplits
<1>2. arrived' = [arrived EXCEPT ![e] = rest]
  BY DEF Remove
<1> HIDE DEF part, rest
<1>3. arrived' \in [End -> Seq(Byte)] /\ arrived'[e] = rest
      /\ \A d \in End : d # e => arrived'[d] = arrived[d]
  BY <1>1, <1>2 DEF FramingTypeOK, Split
<1>4. Takes(e, body[e] \o part, rest \o stream[e])
  BY <1>1, <1>3 DEF Split, Takes
<1>5. part \in Seq(Byte) /\ Len(part) <= size
  BY <1>1 DEF Split
<1>6. QED
  BY <1>4, <1>5 DEF part

\* e has read more of a frame, and not all of it.
LEMMA KeepReading ==
  ASSUME FramingInv, NEW e \in End, NEW got, NEW r, Takes(e, got, r), NEW size \in Nat,
         Len(got) \in HeaderSize .. size - 1,
         AtFrame(e) /\ got[1].pos = 1 => size = Size(got[1]),
         body' = [body EXCEPT ![e] = got], want' = [want EXCEPT ![e] = size],
         UNCHANGED <<open, stream, calls, waiting, handled, replies, cut, unsent>>
  PROVE  FramingInv'
<1>1. /\ got \in Seq(Byte) /\ r \in Seq(Byte) /\ Unread(e) = got \o r
      /\ arrived' \in [End -> Seq(Byte)] /\ arrived'[e] \o stream[e] = r
      /\ \A d \in End : d # e => arrived'[d] = arrived[d]
  BY DEF Takes
<1>2. /\ body'[e] = got /\ want'[e] = size
      /\ \A d \in End : d # e => body'[d] = body[d] /\ want'[d] = want[d]
  BY DEF FramingInv, FramingTypeOK
<1>3. FramingTypeOK'
  <2>1. body' \in [End -> Seq(Byte)] /\ want' \in [End -> Nat]
    BY <1>1 DEF FramingInv, FramingTypeOK
  <2>2. QED
    BY <1>1, <2>1 DEF FramingInv, FramingTypeOK
<1>4. \A d \in End : Unread(d)' = Unread(d)
  <2>1. Unread(e)' = Unread(e)
    BY <1>1, <1>2 DEF Unread
  <2>2. ASSUME NEW d \in End, d # e PROVE Unread(d)' = Unread(d)
    BY <1>1, <1>2, <2>2 DEF Unread
  <2>3. QED
    BY <2>1, <2>2
<1>5. size # 0 /\ got # << >> /\ Unread(e) # << >> /\ Unread(e)[1] = got[1]
  <2>1. Len(got) \in Nat /\ Len(got) > 0 /\ size # 0
    BY <1>1, ConstantsType
  <2>2. got # << >>
    BY <2>1, EmptySeq
  <2>3. got \o r # << >>
    BY <1>1, <2>2, ConcatEqualIffEmpty
  <2>4. (got \o r)[1] = got[1]
    BY <1>1, <2>1, ConcatProperties
  <2>5. QED
    BY <1>1, <2>1, <2>2, <2>3, <2>4
<1>6. \A d \in End : AtFrame(d) => AtFrame(d)'
  <2>1. AtFrame(e) => AtFrame(e)'
    BY <1>2, <1>4, <1>5, Rigid DEF AtFrame
  <2>2. ASSUME NEW d \in End, d # e, AtFrame(d) PROVE AtFrame(d)'
    BY <1>2, <1>4, <2>2, Rigid DEF AtFrame
  <2>3. QED
    BY <2>1, <2>2
<1>7. \A d \in End : Buffers(d)'
  <2>1. \A d \in End : Peer(d) \in End
    BY Ends
  <2>2. Buffers(e)'
    BY <1>2, <1>4, <1>5, Rigid DEF FramingInv, Buffers
  <2>3. ASSUME NEW d \in End, d # e PROVE Buffers(d)'
    BY <1>2, <1>4, <2>3, Rigid DEF FramingInv, Buffers
  <2>4. QED
    BY <2>2, <2>3
<1>8. Counts'
  BY <1>4 DEF FramingInv, Counts
<1>9. (open["coordinator"] => CoordinatorSide)'
  BY <1>4, <1>6, Ends, Rigid DEF FramingInv, CoordinatorSide
<1>10. (open["worker"] => WorkerSide)'
  BY <1>4, <1>6, Ends DEF FramingInv, WorkerSide
<1>11. RepliesAdvance' /\ RepliesMatch'
  BY DEF FramingInv, RepliesAdvance, RepliesMatch
<1>12. QED
  BY <1>3, <1>7, <1>8, <1>9, <1>10, <1>11 DEF FramingInv

\* What a step of a receive loop may do to the requests taken.
TakesNext ==
  /\ calls' = calls
  /\ \/ handled' = handled
     \/ handled' = Append(handled, Len(handled) + 1) /\ Len(handled) < calls

\* A receive loop returns a frame, or None for a reason the code gives.
LEMMA StepReturn ==
  ASSUME FramingInv, NEW e \in End, Reading(e), NEW p, NEW r, Takes(e, p, r),
         NEW k \in Nat, k # None => IsFrame(p, k), Return(e, k),
         cut' \in BOOLEAN, cut => cut', e = "coordinator" => cut' = cut,
         e = "worker" /\ ~cut' /\ k = None => r = << >> /\ ~open["coordinator"]
  PROVE  FramingInv' /\ TakesNext
<1>1. open[e] /\ calls' = calls
  BY DEF Reading, Return
<1>2. CASE e = "worker"
  <2>1. waiting /\ handled' = handled
    BY <1>2, Ends DEF Reading, Return
  <2>2. QED
    BY <1>1, <1>2, <2>1, ReturnReply DEF TakesNext
<1>3. CASE e = "coordinator" /\ k = None
  <2>1. handled' = handled
    BY <1>3 DEF Return, CoordinatorLeaves
  <2>2. QED
    BY <1>1, <1>3, <2>1, ReturnLeave DEF TakesNext
<1>4. CASE e = "coordinator" /\ k # None
  <2>1. handled' = Append(handled, k)
    BY <1>4 DEF Return, CoordinatorAnswers
  <2>2. QED
    BY <1>1, <1>4, <2>1, ReturnAnswer DEF TakesNext
<1>5. QED
  BY <1>2, <1>3, <1>4, Ends

\* The first byte of what e takes, when it takes any.
LEMMA FirstByte ==
  ASSUME FramingInv, NEW e \in End, NEW p, NEW r, Takes(e, p, r), Len(p) > 0
  PROVE  /\ p[1] \in Byte /\ p # << >> /\ Unread(e) # << >> /\ Unread(e)[1] = p[1]
         /\ p[1].len <= MaxPayload /\ p[1].frame > 0
<1>1. /\ p \in Seq(Byte) /\ r \in Seq(Byte) /\ Unread(e) = p \o r /\ Len(p) \in Nat
      /\ Window(p \o r)
  <2>1. p \in Seq(Byte) /\ r \in Seq(Byte) /\ Unread(e) = p \o r
    BY DEF Takes
  <2>2. Window(Unread(e))
    BY DEF FramingInv, Buffers
  <2>3. QED
    BY <2>1, <2>2
<1>2. 1 \in 1 .. Len(p) /\ p # << >>
  BY <1>1, EmptySeq
<1>3. p[1] \in Byte
  BY <1>1, <1>2
<1>4. p[1] = (p \o r)[1] /\ Window(p)
  BY <1>1, <1>2, WindowFirst
<1>5. p \o r # << >>
  BY <1>1, <1>2, ConcatEqualIffEmpty
<1>6. QED
  BY <1>1, <1>2, <1>3, <1>4, <1>5 DEF Window

LEMMA StepReadHeader ==
  ASSUME FramingInv, NEW e \in End, ReadHeader(e)
  PROVE  FramingInv' /\ TakesNext
<1> DEFINE hdr == Received(e, HeaderSize)
<1>1. /\ Reading(e) /\ want[e] = 0 /\ Remove(e, hdr)
      /\ \/ /\ Len(hdr) < HeaderSize
            /\ cut' = (cut \/ e = "worker")
            /\ Return(e, None)
         \/ /\ Len(hdr) = HeaderSize /\ UNCHANGED cut
            /\ \E len \in header_len(hdr) :
                 \/ len > MaxPayload /\ Return(e, None)
                 \/ /\ len <= MaxPayload
                    /\ body' = [body EXCEPT ![e] = hdr]
                    /\ want' = [want EXCEPT ![e] = HeaderSize + len + TrailerSize]
                    /\ UNCHANGED <<open, stream, calls, waiting, handled, replies, unsent>>
  BY DEF ReadHeader
<1>2. FramingTypeOK /\ cut \in BOOLEAN /\ None \in Nat
  BY DEF FramingInv, FramingTypeOK, None
<1>3. PICK r : /\ Takes(e, body[e] \o hdr, r)
               /\ hdr \in Seq(Byte) /\ Len(hdr) <= HeaderSize
  BY <1>1, <1>2, ConstantsType, ReceivedTaken
<1> HIDE DEF hdr
<1>4. body[e] \o hdr = hdr
  <2>1. body[e] = << >>
    BY <1>1 DEF FramingInv, Buffers
  <2>2. QED
    BY <1>3, <2>1, ConcatEmptySeq
<1>5. Takes(e, hdr, r)
  BY <1>3, <1>4
<1>6. CASE Len(hdr) < HeaderSize /\ cut' = (cut \/ e = "worker") /\ Return(e, None)
  <2>1. /\ cut' \in BOOLEAN /\ (cut => cut') /\ (e = "worker" => cut')
        /\ e = "coordinator" => cut' = cut
    BY <1>2, <1>6
  <2>2. QED
    BY <1>1, <1>2, <1>5, <1>6, <2>1, StepReturn
<1>7. ASSUME Len(hdr) = HeaderSize, UNCHANGED cut, NEW len \in header_len(hdr)
      PROVE  /\ len > MaxPayload /\ Return(e, None) => FramingInv' /\ TakesNext
             /\ /\ len <= MaxPayload
                /\ body' = [body EXCEPT ![e] = hdr]
                /\ want' = [want EXCEPT ![e] = HeaderSize + len + TrailerSize]
                /\ UNCHANGED <<open, stream, calls, waiting, handled, replies, unsent>>
                => FramingInv' /\ TakesNext
  <2>1. /\ hdr[1] \in Byte /\ Unread(e) # << >> /\ Unread(e)[1] = hdr[1]
        /\ hdr[1].len <= MaxPayload
    BY <1>5, <1>7, ConstantsType, FirstByte
  <2>2. len \in Nat /\ (hdr[1].pos = 1 => len = hdr[1].len)
    <3>1. hdr[1].len \in Nat
      BY <2>1 DEF Byte
    <3>2. QED
      BY <1>7, <3>1, ConstantsType DEF header_len
  <2>3. ASSUME len > MaxPayload, Return(e, None) PROVE FramingInv' /\ TakesNext
    \* A worker that has its place never reads a header like that.
    <3>1. ~AtFrame(e)
      <4>1. hdr[1].pos # 1
        BY <2>1, <2>2, <2>3, ConstantsType DEF Byte
      <4>2. QED
        BY <2>1, <4>1 DEF AtFrame
    <3>2. e = "worker" => cut
      BY <1>1, <3>1 DEF FramingInv, WorkerSide, Reading
    <3>3. QED
      BY <1>1, <1>2, <1>5, <1>7, <2>3, <3>2, StepReturn
  <2>4. ASSUME /\ len <= MaxPayload
               /\ body' = [body EXCEPT ![e] = hdr]
               /\ want' = [want EXCEPT ![e] = HeaderSize + len + TrailerSize]
               /\ UNCHANGED <<open, stream, calls, waiting, handled, replies, unsent>>
        PROVE  FramingInv' /\ TakesNext
    <3> DEFINE size == HeaderSize + len + TrailerSize
    <3>1. size \in Nat /\ Len(hdr) \in HeaderSize .. size - 1
      BY <1>7, <2>2, ConstantsType
    <3>2. hdr[1].pos = 1 => size = Size(hdr[1])
      BY <2>2 DEF Size
    <3>3. want' = [want EXCEPT ![e] = size]
      BY <2>4
    <3> HIDE DEF size
    <3>4. FramingInv'
      BY <1>5, <1>7, <2>4, <3>1, <3>2, <3>3, KeepReading
    <3>5. QED
      BY <2>4, <3>4 DEF TakesNext
  <2>5. QED
    BY <2>3, <2>4
<1>8. QED
  BY <1>1, <1>6, <1>7

LEMMA StepReadBody ==
  ASSUME FramingInv, NEW e \in End, ReadBody(e)
  PROVE  FramingInv' /\ TakesNext
<1> DEFINE part == Received(e, want[e] - Len(body[e]))
           got == body[e] \o part
<1>1. /\ Reading(e) /\ want[e] # 0 /\ Remove(e, part) /\ UNCHANGED cut
      /\ \/ Len(got) = want[e] /\ Return(e, decode_frame(got))
         \/ /\ Len(got) < want[e]
            /\ body' = [body EXCEPT ![e] = got]
            /\ UNCHANGED <<open, stream, want, calls, waiting, handled, replies, unsent>>
  BY DEF ReadBody
<1>2. /\ FramingTypeOK /\ cut \in BOOLEAN /\ want[e] \in Nat /\ body[e] \in Seq(Byte)
      /\ Len(body[e]) \in HeaderSize .. want[e] - 1 /\ Len(body[e]) \in Nat
  BY <1>1 DEF FramingInv, FramingTypeOK, Buffers
<1>3. want[e] - Len(body[e]) \in Nat
  BY <1>2, ConstantsType
<1>4. PICK r : Takes(e, got, r) /\ part \in Seq(Byte)
  BY <1>1, <1>2, <1>3, ReceivedTaken
<1>5. /\ Len(got) \in Nat /\ Len(got) >= Len(body[e]) /\ Len(body[e]) > 0
      /\ got[1] = body[e][1]
  <2>1. Len(body[e]) > 0
    BY <1>2, ConstantsType
  <2> HIDE DEF part
  <2>2. part \in Seq(Byte)
    BY <1>4
  <2>3. /\ Len(got) = Len(body[e]) + Len(part)
        /\ \A i \in 1 .. Len(body[e]) + Len(part) :
             got[i] = IF i <= Len(body[e]) THEN body[e][i] ELSE part[i - Len(body[e])]
    BY <1>2, <2>2, ConcatProperties
  <2>4. Len(part) \in Nat
    BY <2>2
  <2> HIDE DEF got
  <2>5. 1 \in 1 .. Len(body[e]) + Len(part) /\ 1 <= Len(body[e])
    BY <1>2, <2>1, <2>4
  <2>6. got[1] = body[e][1]
    BY <2>3, <2>5
  <2>7. QED
    BY <1>2, <2>1, <2>3, <2>4, <2>6
<1> HIDE DEF part, got
<1>6. /\ got[1] \in Byte /\ got # << >> /\ Unread(e) # << >> /\ Unread(e)[1] = got[1]
      /\ got[1].frame \in Nat /\ got[1].frame > 0
  <2>1. Len(got) > 0
    BY <1>5, <1>2
  <2>2. QED
    BY <1>4, <2>1, FirstByte DEF Byte
<1>7. AtFrame(e) => got[1].pos = 1 /\ want[e] = Size(got[1])
  BY <1>1, <1>5, <1>6 DEF AtFrame
<1>8. CASE Len(got) = want[e] /\ Return(e, decode_frame(got))
  <2> DEFINE k == decode_frame(got)
  <2>1. k \in Nat /\ (k # None => IsFrame(got, k))
    BY <1>6 DEF decode_frame, IsFrame, Size, None
  <2>2. AtFrame(e) => k # None
    BY <1>6, <1>7, <1>8 DEF decode_frame, Size, None
  <2>3. Return(e, k)
    BY <1>8
  <2> HIDE DEF k
  <2>4. e = "worker" /\ ~cut => k # None
    BY <1>1, <2>2 DEF FramingInv, WorkerSide, Reading
  <2>5. QED
    BY <1>1, <1>2, <1>4, <2>1, <2>3, <2>4, StepReturn
<1>9. CASE /\ Len(got) < want[e]
           /\ body' = [body EXCEPT ![e] = got]
           /\ UNCHANGED <<open, stream, want, calls, waiting, handled, replies, unsent>>
  <2>1. Len(got) \in HeaderSize .. want[e] - 1
    BY <1>2, <1>5, <1>9, ConstantsType
  <2>2. want' = [want EXCEPT ![e] = want[e]]
    BY <1>2, <1>9 DEF FramingTypeOK
  <2>3. FramingInv'
    BY <1>1, <1>2, <1>4, <1>7, <1>9, <2>1, <2>2, KeepReading
  <2>4. QED
    BY <1>9, <2>3 DEF TakesNext
<1>10. QED
  BY <1>1, <1>8, <1>9

LEMMA StepReadEnd ==
  ASSUME FramingInv, NEW e \in End, ReadEnd(e)
  PROVE  FramingInv' /\ TakesNext
<1>1. /\ Reading(e) /\ ~open[Peer(e)] /\ stream[e] = << >> /\ arrived[e] = << >>
      /\ Return(e, None) /\ arrived' = arrived /\ cut' = cut
  BY DEF ReadEnd, EndOfStream
<1>2. /\ FramingTypeOK /\ cut \in BOOLEAN /\ None \in Nat /\ body[e] \in Seq(Byte)
      /\ arrived \in [End -> Seq(Byte)] /\ << >> \in Seq(Byte)
  BY EmptySeq DEF FramingInv, FramingTypeOK, None
<1>3. arrived[e] \o stream[e] = << >>
  BY <1>1, <1>2, ConcatEmptySeq
<1>4. Takes(e, body[e], << >>)
  BY <1>1, <1>2, <1>3 DEF Takes, Unread
<1>5. QED
  BY <1>1, <1>2, <1>4, Ends, StepReturn

-----------------------------------------------------------------------------
(* The theorems                                                            *)

LEMMA StepReceive ==
  ASSUME FramingInv, NEW e \in End, Receive(e)
  PROVE  FramingInv' /\ TakesNext
BY StepReadHeader, StepReadBody, StepReadEnd DEF Receive

LEMMA FramingStep == FramingInv /\ [FramingNext]_vars => FramingInv'
<1> SUFFICES ASSUME FramingInv, [FramingNext]_vars PROVE FramingInv'
  OBVIOUS
<1>1. CASE Connect
  BY <1>1, StepConnect
<1>2. ASSUME NEW size \in RequestSizes, Ask(size) PROVE FramingInv'
  BY <1>2, StepAsk
<1>3. ASSUME NEW e \in End, Receive(e) PROVE FramingInv'
  BY <1>3, StepReceive
<1>4. ASSUME NEW e \in End, Reset(e) PROVE FramingInv'
  BY <1>4, StepReset
<1>5. ASSUME NEW e \in End, NEW n \in 1 .. Len(stream[e]), Arrive(e, n) PROVE FramingInv'
  BY <1>5, StepArrive
<1>6. CASE Crash
  BY <1>6, StepCrash
<1>7. CASE UNCHANGED vars
  <2>1. UNCHANGED <<open, stream, arrived, body, want, calls, waiting, handled, replies, cut, unsent>>
    BY <1>7 DEF vars, net, hist
  <2>2. FramingTypeOK' /\ \A e \in End : Unread(e)' = Unread(e)
    BY <2>1 DEF FramingInv, FramingTypeOK, Unread
  <2>3. QED
    BY <2>1, <2>2, SameUnread
<1>8. QED
  BY <1>1, <1>2, <1>3, <1>4, <1>5, <1>6, <1>7 DEF FramingNext

\* In every reachable state what an end has not dealt with is a window of
\* frames, the coordinator's starts with the request it takes next, and the
\* worker's holds replies newer than all it took (recv_one, recv_line).
THEOREM FramingInvariant == FramingSpec => []FramingInv
<1>1. FramingInv /\ [FramingNext]_vars => FramingInv'
  BY FramingStep
<1>2. QED
  BY FramingInitial, <1>1, PTL DEF FramingSpec

\* Even a worker that reads on after half a header never gets a reply twice, an
\* older one after a newer one, or one to a request it has not made (recv_line).
THEOREM RepliesInOrder == FramingSpec => []RepliesAdvance
<1>1. FramingInv => RepliesAdvance
  BY DEF FramingInv
<1>2. QED
  BY <1>1, FramingInvariant, PTL

\* While no header reached the worker in two pieces, a reply is the reply to its
\* request, and there is none only because the coordinator ended the
\* connection (recv_line, handle_connection).
THEOREM RepliesCorrect == FramingSpec => []RepliesMatch
<1>1. FramingInv => RepliesMatch
  BY DEF FramingInv
<1>2. QED
  BY <1>1, FramingInvariant, PTL

\* The coordinator takes whole requests in the order they were sent and none
\* after one it did not get, whatever pieces the bytes come in: the connection
\* is the channel that the Coordinator module takes it for (recv_one).
THEOREM ChannelCorrect == FramingSpec => ImplementsChannel
<1>1. FramingInit => Requests!Init
  BY DEF FramingInit, Requests!Init
<1>2. FramingInv /\ [FramingNext]_vars
        => [Requests!Send \/ Requests!Take]_<<calls, handled>>
  <2> SUFFICES ASSUME FramingInv, [FramingNext]_vars
               PROVE  Requests!Send \/ Requests!Take \/ UNCHANGED <<calls, handled>>
    OBVIOUS
  <2>1. CASE Connect
    BY <2>1 DEF Connect, hist
  <2>2. ASSUME NEW size \in RequestSizes, Ask(size) PROVE Requests!Send
    BY <2>2 DEF Ask, hist, Requests!Send
  <2>3. ASSUME NEW e \in End, Receive(e)
        PROVE  Requests!Take \/ UNCHANGED <<calls, handled>>
    BY <2>3, StepReceive DEF TakesNext, Requests!Take
  <2>4. ASSUME NEW e \in End, Reset(e) PROVE UNCHANGED <<calls, handled>>
    BY <2>4 DEF Reset, hist
  <2>5. ASSUME NEW e \in End, NEW n \in 1 .. Len(stream[e]), Arrive(e, n)
        PROVE  UNCHANGED <<calls, handled>>
    BY <2>5 DEF Arrive, hist
  <2>6. CASE Crash
    BY <2>6 DEF Crash, hist
  <2>7. CASE UNCHANGED vars
    BY <2>7 DEF vars, hist
  <2>8. QED
    BY <2>1, <2>2, <2>3, <2>4, <2>5, <2>6, <2>7 DEF FramingNext
<1>3. QED
  BY <1>1, <1>2, FramingInvariant, PTL DEF FramingSpec, ImplementsChannel, Requests!Spec
=============================================================================
