---------------------------- MODULE BufferProofs ----------------------------
(***************************************************************************)
(* Theorems about Buffer, for every prepend, initial, extrabuf and append  *)
(* size and any number of bytes: the indices stay in order, memory follows *)
(* the load, and the buffer implements a queue of bytes.                   *)
(***************************************************************************)
EXTENDS Buffer, SequenceTheorems, TLAPS

Content(b) == Peek(b, ReadableBytes(b))

Bytes(k, n) == [i \in 1..n |-> k + i]

\* How the vector may grow when it must take len bytes more.
SizeWithin(m, b, len) ==
    m.size = b.size \/ m.size <= kCheapPrepend + 2 * (ReadableBytes(b) + len)

\* m is b with the n bytes after byte number k appended.
Appended(m, b, k, n) ==
    /\ IndexesInOrder(m)
    /\ ReadableBytes(m) = ReadableBytes(b) + n
    /\ Content(m) = Content(b) \o Bytes(k, n)

\* The indices and the counts of bytes as numbers.
Numbers(b) ==
    /\ b.size \in Nat /\ b.readerIndex_ \in Nat /\ b.writerIndex_ \in Nat
    /\ kCheapPrepend \in Nat /\ kInitialSize \in Nat /\ ExtraBuf \in Nat
    /\ kCheapPrepend <= b.readerIndex_
    /\ b.readerIndex_ <= b.writerIndex_ /\ b.writerIndex_ <= b.size
    /\ ReadableBytes(b) \in Nat
    /\ ReadableBytes(b) = b.writerIndex_ - b.readerIndex_
    /\ WritableBytes(b) \in Nat
    /\ WritableBytes(b) = b.size - b.writerIndex_
    /\ PrependableBytes(b) = b.readerIndex_

\* Ordered indices are numbers, and so are the counts made from them.
LEMMA Counts == ASSUME NEW b, IndexesInOrder(b) PROVE Numbers(b)
BY BufferAssumption
   DEF Numbers, IndexesInOrder, ReadableBytes, WritableBytes, PrependableBytes

\* The bytes of the vector.
LEMMA Elements ==
  ASSUME NEW b, IndexesInOrder(b), NEW i \in 0..(b.size - 1)
  PROVE  b.buffer_[i] \in Nat
BY DEF IndexesInOrder

\* What Resize makes.
LEMMA ResizeIs ==
  ASSUME NEW b, NEW n \in Nat, NEW m, m = Resize(b, n)
  PROVE  /\ m.size = n
         /\ m.readerIndex_ = b.readerIndex_
         /\ m.writerIndex_ = b.writerIndex_
         /\ m.buffer_ = [i \in 0..(n - 1) |-> m.buffer_[i]]
         /\ \A i \in 0..(n - 1) :
              m.buffer_[i] = IF i < b.size THEN b.buffer_[i] ELSE 0
BY DEF Resize

\* What MoveToFront makes.
LEMMA MoveToFrontIs ==
  ASSUME NEW b
  PROVE  LET m == MoveToFront(b)
         IN  /\ m.size = b.size
             /\ m.readerIndex_ = kCheapPrepend
             /\ m.writerIndex_ = kCheapPrepend + ReadableBytes(b)
             /\ m.buffer_ = [i \in 0..(b.size - 1) |-> m.buffer_[i]]
             /\ \A i \in 0..(b.size - 1) :
                  m.buffer_[i] =
                    IF kCheapPrepend <= i /\ i < kCheapPrepend + ReadableBytes(b)
                    THEN b.buffer_[b.readerIndex_ + i - kCheapPrepend]
                    ELSE b.buffer_[i]
BY DEF MoveToFront

\* What WriteHere makes.
LEMMA WriteHereIs ==
  ASSUME NEW b, NEW k, NEW n
  PROVE  LET m == WriteHere(b, k, n)
         IN  /\ m.size = b.size
             /\ m.readerIndex_ = b.readerIndex_
             /\ m.writerIndex_ = b.writerIndex_ + n
             /\ m.buffer_ = [i \in 0..(b.size - 1) |-> m.buffer_[i]]
             /\ \A i \in 0..(b.size - 1) :
                  m.buffer_[i] =
                    IF b.writerIndex_ <= i /\ i < b.writerIndex_ + n
                    THEN k + 1 + i - b.writerIndex_
                    ELSE b.buffer_[i]
BY DEF WriteHere

\* Two buffers with as many readable bytes, equal one by one, have the same
\* content.
LEMMA SameContent ==
  ASSUME NEW b, NEW m, ReadableBytes(m) = ReadableBytes(b),
         \A i \in 1..ReadableBytes(b) :
           m.buffer_[m.readerIndex_ + i - 1] = b.buffer_[b.readerIndex_ + i - 1]
  PROVE  Content(m) = Content(b)
BY DEF Content, Peek

\* resize keeps the content and makes room for len bytes.
LEMMA ResizeKeeps ==
  ASSUME NEW b, IndexesInOrder(b), NEW len \in Nat, WritableBytes(b) < len,
         NEW n, n = b.writerIndex_ + len, NEW m, m = Resize(b, n)
  PROVE  /\ IndexesInOrder(m)
         /\ m.size = n
         /\ WritableBytes(m) = len
         /\ ReadableBytes(m) = ReadableBytes(b)
         /\ Content(m) = Content(b)
<1>0. Numbers(b)
  BY Counts
<1>1. Numbers(b) /\ n \in Nat /\ b.size < n
  BY <1>0 DEF Numbers
<1>2. /\ m.size = n
      /\ m.readerIndex_ = b.readerIndex_ /\ m.writerIndex_ = b.writerIndex_
  BY DEF Resize
<1>3. /\ m.buffer_ = [i \in 0..(n - 1) |-> m.buffer_[i]]
      /\ \A i \in 0..(n - 1) :
           m.buffer_[i] = IF i < b.size THEN b.buffer_[i] ELSE 0
  BY <1>1, ResizeIs
<1>4. \A i \in 0..(n - 1) : m.buffer_[i] \in Nat
  <2> TAKE i \in 0..(n - 1)
  <2>1. m.buffer_[i] = IF i < b.size THEN b.buffer_[i] ELSE 0
    BY <1>3
  <2>2. CASE i < b.size
    <3>1. i \in 0..(b.size - 1)
      BY <1>1, <2>2 DEF Numbers
    <3> QED
      BY <2>1, <2>2, <3>1, Elements
  <2>3. CASE ~(i < b.size)
    BY <2>1, <2>3
  <2> QED
    BY <2>2, <2>3
<1>5. m.buffer_ \in [0..(n - 1) -> Nat]
  BY <1>3, <1>4
<1>6. /\ kCheapPrepend <= m.readerIndex_ /\ m.readerIndex_ <= m.writerIndex_
      /\ m.writerIndex_ <= n
      /\ m.readerIndex_ \in Nat /\ m.writerIndex_ \in Nat
  BY <1>1, <1>2 DEF Numbers
<1>7. IndexesInOrder(m)
  BY <1>1, <1>2, <1>5, <1>6 DEF IndexesInOrder
<1>8. ReadableBytes(m) = ReadableBytes(b) /\ WritableBytes(m) = len
  BY <1>1, <1>2 DEF Numbers, ReadableBytes, WritableBytes
<1>9. ASSUME NEW i \in 1..ReadableBytes(b)
      PROVE  m.buffer_[m.readerIndex_ + i - 1] = b.buffer_[b.readerIndex_ + i - 1]
  <2>1. /\ b.readerIndex_ + i - 1 \in 0..(n - 1)
        /\ b.readerIndex_ + i - 1 < b.size
    BY <1>1 DEF Numbers
  <2> QED
    BY <1>2, <1>3, <2>1
<1> QED
  BY <1>2, <1>7, <1>8, <1>9, SameContent

\* Moving the content down keeps it, and makes room when there is enough in
\* front.
LEMMA MoveToFrontKeeps ==
  ASSUME NEW b, IndexesInOrder(b), NEW m, m = MoveToFront(b)
  PROVE  /\ IndexesInOrder(m)
         /\ m.size = b.size
         /\ WritableBytes(m)
              = WritableBytes(b) + PrependableBytes(b) - kCheapPrepend
         /\ ReadableBytes(m) = ReadableBytes(b)
         /\ Content(m) = Content(b)
<1>0. Numbers(b)
  BY Counts
<1>1. /\ m.size = b.size
      /\ m.readerIndex_ = kCheapPrepend
      /\ m.writerIndex_ = kCheapPrepend + ReadableBytes(b)
      /\ m.buffer_ = [i \in 0..(b.size - 1) |-> m.buffer_[i]]
      /\ \A i \in 0..(b.size - 1) :
           m.buffer_[i] =
             IF kCheapPrepend <= i /\ i < kCheapPrepend + ReadableBytes(b)
             THEN b.buffer_[b.readerIndex_ + i - kCheapPrepend]
             ELSE b.buffer_[i]
  BY MoveToFrontIs
<1>2. \A i \in 0..(b.size - 1) : m.buffer_[i] \in Nat
  <2>1. TAKE i \in 0..(b.size - 1)
  <2>2. CASE kCheapPrepend <= i /\ i < kCheapPrepend + ReadableBytes(b)
    <3>1. b.readerIndex_ + i - kCheapPrepend \in 0..(b.size - 1)
      BY <2>2, <1>0 DEF Numbers
    <3> QED
      BY <1>1, <2>2, <3>1, Elements
  <2>3. CASE ~(kCheapPrepend <= i /\ i < kCheapPrepend + ReadableBytes(b))
    BY <1>1, <2>3, Elements
  <2> QED
    BY <2>2, <2>3
<1>3. m.buffer_ \in [0..(m.size - 1) -> Nat]
  BY <1>1, <1>2
<1>4. IndexesInOrder(m)
  BY <1>1, <1>3, <1>0, SMTT(30) DEF Numbers, IndexesInOrder
<1>5. /\ ReadableBytes(m) = ReadableBytes(b)
      /\ WritableBytes(m)
           = WritableBytes(b) + PrependableBytes(b) - kCheapPrepend
  <2>1. ReadableBytes(m) = m.writerIndex_ - m.readerIndex_
    BY DEF ReadableBytes
  <2>2. WritableBytes(m) = m.size - m.writerIndex_
    BY DEF WritableBytes
  <2> QED
    BY <1>1, <2>1, <2>2, <1>0, SMTT(30) DEF Numbers
<1>6. ASSUME NEW i \in 1..ReadableBytes(b)
      PROVE  m.buffer_[m.readerIndex_ + i - 1] = b.buffer_[b.readerIndex_ + i - 1]
  <2> DEFINE j == kCheapPrepend + i - 1
  <2>1. /\ j \in 0..(b.size - 1)
        /\ kCheapPrepend <= j /\ j < kCheapPrepend + ReadableBytes(b)
        /\ b.readerIndex_ + j - kCheapPrepend = b.readerIndex_ + i - 1
    BY <1>0 DEF Numbers
  <2>2. m.buffer_[j] = b.buffer_[b.readerIndex_ + j - kCheapPrepend]
    BY <1>1, <2>1
  <2> QED
    BY <1>1, <2>1, <2>2
<1> QED
  BY <1>1, <1>4, <1>5, <1>6, SameContent

\* ensureWritableBytes and makeSpace make room, keep the content, and let the
\* vector grow no further than SizeWithin says.
LEMMA EnsureWritableKeeps ==
  ASSUME NEW b, IndexesInOrder(b), NEW len \in Nat,
         NEW m, m = EnsureWritableBytes(b, len)
  PROVE  /\ IndexesInOrder(m)
         /\ WritableBytes(m) >= len
         /\ ReadableBytes(m) = ReadableBytes(b)
         /\ Content(m) = Content(b)
         /\ SizeWithin(m, b, len)
<1>0. Numbers(b)
  BY Counts
<1>1. CASE ~(WritableBytes(b) < len)
  <2>1. m = b
    BY <1>1 DEF EnsureWritableBytes
  <2> QED
    BY <1>1, <2>1, <1>0 DEF Numbers, SizeWithin
<1>2. CASE /\ WritableBytes(b) < len
           /\ WritableBytes(b) + PrependableBytes(b) < len + kCheapPrepend
  <2> DEFINE n == b.writerIndex_ + len
  <2>1. m = Resize(b, n)
    BY <1>2 DEF EnsureWritableBytes, MakeSpace
  <2>2. n <= kCheapPrepend + 2 * (ReadableBytes(b) + len)
    BY <1>0, <1>2 DEF Numbers
  <2> HIDE DEF n
  <2>3. n = b.writerIndex_ + len
    BY DEF n
  <2>4. /\ IndexesInOrder(m) /\ m.size = n /\ WritableBytes(m) = len
        /\ ReadableBytes(m) = ReadableBytes(b) /\ Content(m) = Content(b)
    BY <1>2, <2>1, <2>3, ResizeKeeps
  <2> QED
    BY <2>2, <2>4 DEF SizeWithin
<1>3. CASE /\ WritableBytes(b) < len
           /\ ~(WritableBytes(b) + PrependableBytes(b) < len + kCheapPrepend)
  <2>1. m = MoveToFront(b)
    BY <1>3 DEF EnsureWritableBytes, MakeSpace
  <2>2. WritableBytes(b) + PrependableBytes(b) - kCheapPrepend >= len
    BY <1>3, <1>0 DEF Numbers
  <2> QED
    BY <2>1, <2>2, MoveToFrontKeeps DEF SizeWithin
<1> QED
  BY <1>1, <1>2, <1>3
----------------------------------------------------------------------------
(* The content as a sequence.                                              *)

\* peek() points to the first readable bytes.
LEMMA PeekProperties ==
  ASSUME NEW b, IndexesInOrder(b), NEW n \in 0..ReadableBytes(b)
  PROVE  /\ Peek(b, n) \in Seq(Nat)
         /\ Len(Peek(b, n)) = n
         /\ \A i \in 1..n : Peek(b, n)[i] = b.buffer_[b.readerIndex_ + i - 1]
<1>1. Numbers(b)
  BY Counts
<1>2. n \in Nat
  BY <1>1 DEF Numbers
<1>3. \A i \in 1..n : b.buffer_[b.readerIndex_ + i - 1] \in Nat
  <2> TAKE i \in 1..n
  <2>1. b.readerIndex_ + i - 1 \in 0..(b.size - 1)
    BY <1>1, <1>2 DEF Numbers
  <2> QED
    BY <2>1, Elements
<1> QED
  BY <1>2, <1>3 DEF Peek

\* The content is a sequence of all the readable bytes.
LEMMA ContentProperties ==
  ASSUME NEW b, IndexesInOrder(b)
  PROVE  /\ Content(b) \in Seq(Nat)
         /\ Len(Content(b)) = ReadableBytes(b)
         /\ \A i \in 1..ReadableBytes(b) :
              Content(b)[i] = b.buffer_[b.readerIndex_ + i - 1]
<1>1. ReadableBytes(b) \in 0..ReadableBytes(b)
  BY Counts DEF Numbers
<1> QED
  BY <1>1, PeekProperties DEF Content

\* The bytes put in are a sequence.
LEMMA BytesProperties ==
  ASSUME NEW k \in Nat, NEW n \in Nat
  PROVE  /\ Bytes(k, n) \in Seq(Nat)
         /\ Len(Bytes(k, n)) = n
         /\ \A i \in 1..n : Bytes(k, n)[i] = k + i
BY DEF Bytes

\* Bytes put in one after the other.
LEMMA BytesConcat ==
  ASSUME NEW k \in Nat, NEW n \in Nat, NEW p \in Nat
  PROVE  Bytes(k, n) \o Bytes(k + n, p) = Bytes(k, n + p)
<1> DEFINE s == Bytes(k, n)
           t == Bytes(k + n, p)
           u == Bytes(k, n + p)
<1>1. /\ s \in Seq(Nat) /\ Len(s) = n /\ \A i \in 1..n : s[i] = k + i
      /\ t \in Seq(Nat) /\ Len(t) = p /\ \A i \in 1..p : t[i] = k + n + i
      /\ u \in Seq(Nat) /\ Len(u) = n + p
      /\ \A i \in 1..(n + p) : u[i] = k + i
  <2>1. k + n \in Nat /\ n + p \in Nat
    OBVIOUS
  <2>2. s \in Seq(Nat) /\ Len(s) = n /\ \A i \in 1..n : s[i] = k + i
    BY BytesProperties, Zenon
  <2>3. t \in Seq(Nat) /\ Len(t) = p /\ \A i \in 1..p : t[i] = k + n + i
    BY <2>1, BytesProperties, Zenon
  <2>4. u \in Seq(Nat) /\ Len(u) = n + p /\ \A i \in 1..(n + p) : u[i] = k + i
    BY <2>1, BytesProperties, Zenon
  <2> QED
    BY <2>2, <2>3, <2>4, Zenon
<1> HIDE DEF s, t, u
<1>2. /\ s \o t \in Seq(Nat)
      /\ Len(s \o t) = n + p
      /\ \A i \in 1..(n + p) :
           (s \o t)[i] = IF i <= n THEN s[i] ELSE t[i - n]
  BY <1>1, ConcatProperties, ZenonT(40)
<1>3. ASSUME NEW i \in 1..(n + p) PROVE (s \o t)[i] = u[i]
  <2>1. CASE i <= n
    BY <1>1, <1>2, <2>1
  <2>2. CASE i > n
    <3>1. i - n \in 1..p
      BY <2>2
    <3>2. t[i - n] = k + n + (i - n)
      BY <1>1, <3>1
    <3> QED
      BY <1>1, <1>2, <2>2, <3>2, SMTT(30)
  <2>3. i <= n \/ i > n
    OBVIOUS
  <2> QED
    BY <2>1, <2>2, <2>3, Zenon
<1>4. s \o t = u
  BY <1>1, <1>2, <1>3, SeqEqual
<1> QED
  BY <1>4 DEF s, t, u
----------------------------------------------------------------------------
(* What the operations do.                                                 *)

\* Writing at beginWrite() appends to the content.
LEMMA WriteHereAppends ==
  ASSUME NEW b, IndexesInOrder(b), NEW k \in Nat, NEW n \in Nat,
         n <= WritableBytes(b)
  PROVE  /\ WriteHere(b, k, n).size = b.size
         /\ Appended(WriteHere(b, k, n), b, k, n)
<1> DEFINE m == WriteHere(b, k, n)
<1> m = WriteHere(b, k, n)
  OBVIOUS
<1> HIDE DEF m
<1>0. Numbers(b)
  BY Counts
<1>1. /\ m.size = b.size
      /\ m.readerIndex_ = b.readerIndex_
      /\ m.writerIndex_ = b.writerIndex_ + n
  BY DEF WriteHere
<1>2. /\ m.buffer_ = [i \in 0..(b.size - 1) |-> m.buffer_[i]]
      /\ \A i \in 0..(b.size - 1) :
           m.buffer_[i] = IF b.writerIndex_ <= i /\ i < b.writerIndex_ + n
                          THEN k + 1 + i - b.writerIndex_
                          ELSE b.buffer_[i]
  BY WriteHereIs
<1>3. \A i \in 0..(b.size - 1) : m.buffer_[i] \in Nat
  <2> TAKE i \in 0..(b.size - 1)
  <2>1. CASE b.writerIndex_ <= i /\ i < b.writerIndex_ + n
    <3>1. m.buffer_[i] = k + 1 + i - b.writerIndex_
      BY <1>2, <2>1
    <3>2. k + 1 + i - b.writerIndex_ \in Nat
      BY <1>0, <2>1 DEF Numbers
    <3> QED
      BY <3>1, <3>2
  <2>2. CASE ~(b.writerIndex_ <= i /\ i < b.writerIndex_ + n)
    BY <1>2, <2>2, Elements
  <2> QED
    BY <2>1, <2>2
<1>4. m.buffer_ \in [0..(b.size - 1) -> Nat]
  BY <1>2, <1>3
<1>5. /\ kCheapPrepend <= m.readerIndex_ /\ m.readerIndex_ <= m.writerIndex_
      /\ m.writerIndex_ <= m.size
      /\ m.readerIndex_ \in Nat /\ m.writerIndex_ \in Nat /\ m.size \in Nat
  BY <1>0, <1>1 DEF Numbers
<1>6. IndexesInOrder(m)
  BY <1>1, <1>4, <1>5 DEF IndexesInOrder
<1>7. ReadableBytes(m) = ReadableBytes(b) + n
  <2>1. ReadableBytes(m) = m.writerIndex_ - m.readerIndex_
    BY DEF ReadableBytes
  <2> QED
    BY <2>1, <1>0, <1>1 DEF Numbers
<1> DEFINE s == Content(b)
           t == Bytes(k, n)
           u == Content(m)
           r == ReadableBytes(b)
<1>8. /\ s \in Seq(Nat) /\ Len(s) = r
      /\ \A i \in 1..r : s[i] = b.buffer_[b.readerIndex_ + i - 1]
  BY ContentProperties
<1>9. /\ u \in Seq(Nat) /\ Len(u) = r + n
      /\ \A i \in 1..(r + n) : u[i] = m.buffer_[b.readerIndex_ + i - 1]
  <2>1. /\ u \in Seq(Nat) /\ Len(u) = ReadableBytes(m)
        /\ \A i \in 1..ReadableBytes(m) :
             u[i] = m.buffer_[m.readerIndex_ + i - 1]
    BY <1>6, ContentProperties
  <2> QED
    BY <2>1, <1>1, <1>7
<1>10. t \in Seq(Nat) /\ Len(t) = n /\ \A i \in 1..n : t[i] = k + i
  BY BytesProperties
<1>11. r \in Nat /\ b.writerIndex_ = b.readerIndex_ + r
  BY <1>0 DEF Numbers
<1> HIDE DEF s, t, u, r
<1>12. /\ s \o t \in Seq(Nat)
       /\ Len(s \o t) = r + n
       /\ \A i \in 1..(r + n) :
            (s \o t)[i] = IF i <= r THEN s[i] ELSE t[i - r]
  BY <1>8, <1>10, ConcatProperties, ZenonT(40)
<1>13. ASSUME NEW i \in 1..(r + n) PROVE (s \o t)[i] = u[i]
  <2>1. b.readerIndex_ + i - 1 \in 0..(b.size - 1)
    BY <1>0, <1>11 DEF Numbers
  <2>2. u[i] = m.buffer_[b.readerIndex_ + i - 1]
    BY <1>9
  <2>3. CASE i <= r
    <3>1. ~(b.writerIndex_ <= b.readerIndex_ + i - 1)
      BY <1>0, <1>11, <2>3 DEF Numbers
    <3>2. m.buffer_[b.readerIndex_ + i - 1] = b.buffer_[b.readerIndex_ + i - 1]
      BY <1>2, <2>1, <3>1
    <3>3. i \in 1..r
      BY <1>11, <2>3
    <3> QED
      BY <1>8, <1>12, <2>2, <2>3, <3>2, <3>3
  <2>4. CASE i > r
    <3>1. /\ b.writerIndex_ <= b.readerIndex_ + i - 1
          /\ b.readerIndex_ + i - 1 < b.writerIndex_ + n
          /\ k + 1 + (b.readerIndex_ + i - 1) - b.writerIndex_ = k + (i - r)
          /\ i - r \in 1..n
      BY <1>0, <1>11, <2>4 DEF Numbers
    <3>2. m.buffer_[b.readerIndex_ + i - 1] = k + (i - r)
      BY <1>2, <2>1, <3>1
    <3>3. t[i - r] = k + (i - r)
      BY <1>10, <3>1
    <3>4. (s \o t)[i] = t[i - r]
      BY <1>11, <1>12, <2>4
    <3> QED
      BY <2>2, <3>2, <3>3, <3>4
  <2>5. i <= r \/ i > r
    BY <1>11
  <2> QED
    BY <2>3, <2>4, <2>5, Zenon
<1>14. u = s \o t
  BY <1>9, <1>12, <1>13, SeqEqual
<1>15. Appended(m, b, k, n)
  BY <1>6, <1>7, <1>14 DEF s, t, u, Appended
<1> QED
  BY <1>1, <1>15

\* append() appends to the content and grows the vector within SizeWithin.
LEMMA AppendAppends ==
  ASSUME NEW b, IndexesInOrder(b), NEW k \in Nat, NEW n \in Nat
  PROVE  /\ Appended(AppendBytes(b, k, n), b, k, n)
         /\ SizeWithin(AppendBytes(b, k, n), b, n)
<1> DEFINE e == EnsureWritableBytes(b, n)
           m == WriteHere(e, k, n)
<1>1. AppendBytes(b, k, n) = m
  BY DEF AppendBytes
<1>2. /\ IndexesInOrder(e) /\ WritableBytes(e) >= n
      /\ ReadableBytes(e) = ReadableBytes(b) /\ Content(e) = Content(b)
      /\ SizeWithin(e, b, n)
  BY EnsureWritableKeeps
<1> HIDE DEF e
<1>3. n <= WritableBytes(e)
  BY <1>2
<1>4. m.size = e.size /\ Appended(m, e, k, n)
  BY <1>2, <1>3, WriteHereAppends
<1> HIDE DEF m
<1>5. Appended(m, b, k, n)
  BY <1>2, <1>4 DEF Appended
<1>6. SizeWithin(m, b, n)
  BY <1>2, <1>4 DEF SizeWithin
<1> QED
  BY <1>1, <1>5, <1>6

\* readFd appends what it read, also when it goes past the end of the vector into
\* extrabuf.
LEMMA ReadAppends ==
  ASSUME NEW b, IndexesInOrder(b), NEW k \in Nat, NEW n \in Nat
  PROVE  /\ Appended(ReadBytes(b, k, n), b, k, n)
         /\ SizeWithin(ReadBytes(b, k, n), b, n)
<1>0. Numbers(b)
  BY Counts
<1>1. CASE n <= WritableBytes(b)
  <2>1. ReadBytes(b, k, n) = WriteHere(b, k, n)
    BY <1>1 DEF ReadBytes
  <2>2. /\ WriteHere(b, k, n).size = b.size
        /\ Appended(WriteHere(b, k, n), b, k, n)
    BY <1>1, WriteHereAppends
  <2> QED
    BY <2>1, <2>2 DEF SizeWithin
<1>2. CASE ~(n <= WritableBytes(b))
  <2> DEFINE w == WritableBytes(b)
             p == n - w
             f == WriteHere(b, k, w)
             m == AppendBytes(f, k + w, p)
  <2>1. ReadBytes(b, k, n) = m
    BY <1>2 DEF ReadBytes
  <2>2. w \in Nat /\ p \in Nat /\ n = w + p /\ k + w \in Nat /\ w <= w
    BY <1>0, <1>2 DEF Numbers
  <2>3. f.size = b.size /\ Appended(f, b, k, w)
    BY <2>2, WriteHereAppends
  <2> HIDE DEF w, p, f
  <2>4. Appended(m, f, k + w, p) /\ SizeWithin(m, f, p)
    <3>1. IndexesInOrder(f)
      BY <2>3 DEF Appended
    <3> QED
      BY <2>2, <3>1, AppendAppends
  <2> HIDE DEF m
  <2>5. Content(m) = Content(b) \o Bytes(k, n)
    <3>1. /\ Content(b) \in Seq(Nat) /\ Bytes(k, w) \in Seq(Nat)
          /\ Bytes(k + w, p) \in Seq(Nat)
      BY <2>2, ContentProperties, BytesProperties, Zenon
    <3>2. Content(m) = (Content(b) \o Bytes(k, w)) \o Bytes(k + w, p)
      BY <2>3, <2>4 DEF Appended
    <3>3. (Content(b) \o Bytes(k, w)) \o Bytes(k + w, p)
            = Content(b) \o (Bytes(k, w) \o Bytes(k + w, p))
      BY <3>1, ConcatAssociative
    <3>4. Bytes(k, w) \o Bytes(k + w, p) = Bytes(k, w + p)
      BY <2>2, BytesConcat, ZenonT(40)
    <3> QED
      BY <2>2, <3>2, <3>3, <3>4
  <2>6. ReadableBytes(m) = ReadableBytes(b) + n
    <3>1. /\ ReadableBytes(m) = ReadableBytes(f) + p
          /\ ReadableBytes(f) = ReadableBytes(b) + w
      BY <2>3, <2>4 DEF Appended
    <3> QED
      BY <1>0, <2>2, <3>1 DEF Numbers
  <2>7. SizeWithin(m, b, n)
    <3>1. ReadableBytes(f) + p = ReadableBytes(b) + n
      <4>1. ReadableBytes(f) = ReadableBytes(b) + w
        BY <2>3 DEF Appended
      <4> QED
        BY <1>0, <2>2, <4>1 DEF Numbers
    <3> QED
      BY <2>3, <2>4, <3>1 DEF SizeWithin
  <2>8. IndexesInOrder(m)
    BY <2>4 DEF Appended
  <2> QED
    BY <2>1, <2>5, <2>6, <2>7, <2>8 DEF Appended
<1> QED
  BY <1>1, <1>2

\* retrieve(len) takes the first len bytes of the content, or all there are.
LEMMA RetrieveTakes ==
  ASSUME NEW b, IndexesInOrder(b), NEW len \in Nat,
         NEW n \in 0..ReadableBytes(b),
         len = n \/ (len > n /\ n = ReadableBytes(b)),
         NEW m, m = RetrieveBytes(b, len)
  PROVE  /\ IndexesInOrder(m)
         /\ m.size = b.size
         /\ ReadableBytes(m) = ReadableBytes(b) - n
         /\ Content(m) = SubSeq(Content(b), n + 1, Len(Content(b)))
         /\ Peek(b, n) = SubSeq(Content(b), 1, n)
<1>0. Numbers(b)
  BY Counts
<1>1. /\ m.size = b.size /\ m.buffer_ = b.buffer_
      /\ m.writerIndex_ - m.readerIndex_ = ReadableBytes(b) - n
      /\ n < ReadableBytes(b) => m.readerIndex_ = b.readerIndex_ + n
      /\ m.readerIndex_ \in Nat /\ m.writerIndex_ \in Nat
      /\ kCheapPrepend <= m.readerIndex_ /\ m.readerIndex_ <= m.writerIndex_
      /\ m.writerIndex_ <= m.size
  <2>1. CASE len < ReadableBytes(b)
    <3>1. /\ m.size = b.size /\ m.buffer_ = b.buffer_
          /\ m.readerIndex_ = b.readerIndex_ + len
          /\ m.writerIndex_ = b.writerIndex_
      BY <2>1 DEF RetrieveBytes
    <3>2. len = n
      BY <1>0, <2>1 DEF Numbers
    <3> QED
      BY <1>0, <2>1, <3>1, <3>2 DEF Numbers
  <2>2. CASE ~(len < ReadableBytes(b))
    <3>1. /\ m.size = b.size /\ m.buffer_ = b.buffer_
          /\ m.readerIndex_ = kCheapPrepend /\ m.writerIndex_ = kCheapPrepend
      BY <2>2 DEF RetrieveBytes, RetrieveAllBytes
    <3>2. n = ReadableBytes(b)
      BY <1>0, <2>2 DEF Numbers
    <3> QED
      BY <1>0, <3>1, <3>2 DEF Numbers
  <2> QED
    BY <2>1, <2>2
<1>2. IndexesInOrder(m)
  <2>1. m.size \in Nat /\ m.buffer_ \in [0..(m.size - 1) -> Nat]
    BY <1>1 DEF IndexesInOrder
  <2> QED
    BY <1>1, <2>1 DEF IndexesInOrder
<1> DEFINE r == ReadableBytes(b)
           s == Content(b)
           u == Content(m)
           q == Peek(b, n)
<1>3. ReadableBytes(m) = r - n
  BY <1>1 DEF ReadableBytes
<1>4. /\ s \in Seq(Nat) /\ Len(s) = r
      /\ \A i \in 1..r : s[i] = b.buffer_[b.readerIndex_ + i - 1]
  BY ContentProperties
<1>5. /\ q \in Seq(Nat) /\ Len(q) = n
      /\ \A i \in 1..n : q[i] = b.buffer_[b.readerIndex_ + i - 1]
  BY PeekProperties
<1>6. /\ u \in Seq(Nat) /\ Len(u) = r - n
      /\ \A i \in 1..(r - n) : u[i] = b.buffer_[m.readerIndex_ + i - 1]
  <2>1. /\ u \in Seq(Nat) /\ Len(u) = ReadableBytes(m)
        /\ \A i \in 1..ReadableBytes(m) :
             u[i] = m.buffer_[m.readerIndex_ + i - 1]
    BY <1>2, ContentProperties
  <2> QED
    BY <2>1, <1>1, <1>3
<1>7. r \in Nat /\ n \in Nat /\ n <= r /\ b.readerIndex_ \in Nat
  BY <1>0 DEF Numbers
<1> HIDE DEF r, s, u, q
<1>8. \A i \in 1..r : s[i] \in Nat
  BY <1>4, ElementOfSeq
<1>9. q = SubSeq(s, 1, n)
  <2>1. \A i \in 1..n : s[i] \in Nat
    BY <1>7, <1>8
  <2>2. /\ SubSeq(s, 1, n) \in Seq(Nat) /\ Len(SubSeq(s, 1, n)) = n
        /\ \A i \in 1..n : SubSeq(s, 1, n)[i] = s[i]
    BY <1>7, <2>1, SubSeqProperties
  <2>3. ASSUME NEW i \in 1..n PROVE q[i] = SubSeq(s, 1, n)[i]
    <3>1. i \in 1..r
      BY <1>7
    <3> QED
      BY <1>4, <1>5, <2>2, <3>1
  <2> QED
    BY <1>5, <2>2, <2>3, SeqEqual
<1>10. u = SubSeq(s, n + 1, r)
  <2>1. \A i \in (n + 1)..r : s[i] \in Nat
    BY <1>7, <1>8
  <2>2. /\ SubSeq(s, n + 1, r) \in Seq(Nat)
        /\ Len(SubSeq(s, n + 1, r)) = r - n
        /\ \A i \in 1..(r - n) : SubSeq(s, n + 1, r)[i] = s[n + i]
    BY <1>7, <2>1, SubSeqProperties
  <2>3. ASSUME NEW i \in 1..(r - n)
        PROVE  u[i] = SubSeq(s, n + 1, r)[i]
    <3>1. n + i \in 1..r /\ n < r
      BY <1>7
    <3>2. s[n + i] = b.buffer_[b.readerIndex_ + (n + i) - 1]
      BY <1>4, <3>1
    <3>3. m.readerIndex_ = b.readerIndex_ + n
      BY <1>1, <3>1 DEF r
    <3>4. b.readerIndex_ + (n + i) - 1 = m.readerIndex_ + i - 1
      BY <1>7, <3>3
    <3>5. u[i] = b.buffer_[m.readerIndex_ + i - 1]
      BY <1>6
    <3> QED
      BY <2>2, <3>2, <3>4, <3>5
  <2> QED
    BY <1>6, <2>2, <2>3, SeqEqual
<1> QED
  BY <1>1, <1>2, <1>3, <1>4, <1>9, <1>10 DEF r, s, u, q
----------------------------------------------------------------------------
(* What the steps do.                                                      *)

PutStep(n) ==
    /\ fed' = fed + n
    /\ Appended(buf', buf, fed, n)
    /\ SizeWithin(buf', buf, n)
    /\ peak' = IF ReadableBytes(buf') > peak THEN ReadableBytes(buf') ELSE peak
    /\ delivered' = delivered

TakeStep(n) ==
    /\ IndexesInOrder(buf') /\ buf'.size = buf.size
    /\ ReadableBytes(buf') = ReadableBytes(buf) - n
    /\ Content(buf') = SubSeq(Content(buf), n + 1, Len(Content(buf)))
    /\ delivered' = delivered \o SubSeq(Content(buf), 1, n)
    /\ Peek(buf, n) = SubSeq(Content(buf), 1, n)
    /\ fed' = fed /\ peak' = peak

\* A TakeOut of retrieve(len) is a TakeStep.
LEMMA TakesOut ==
  ASSUME IndexesInOrder(buf), NEW len \in Nat, NEW n \in 0..ReadableBytes(buf),
         len = n \/ (len > n /\ n = ReadableBytes(buf)),
         TakeOut(RetrieveBytes(buf, len), n)
  PROVE  TakeStep(n)
<1>1. /\ buf' = RetrieveBytes(buf, len)
      /\ delivered' = delivered \o Peek(buf, n)
      /\ fed' = fed /\ peak' = peak
  BY DEF TakeOut
<1> DEFINE m == buf'
<1>2. m = RetrieveBytes(buf, len)
  BY <1>1
<1> HIDE DEF m
<1>3. /\ IndexesInOrder(m)
      /\ m.size = buf.size
      /\ ReadableBytes(m) = ReadableBytes(buf) - n
      /\ Content(m) = SubSeq(Content(buf), n + 1, Len(Content(buf)))
      /\ Peek(buf, n) = SubSeq(Content(buf), 1, n)
  BY <1>2, RetrieveTakes
<1> QED
  BY <1>1, <1>3 DEF m, TakeStep

\* Every step puts bytes in or takes bytes out.
LEMMA Steps ==
  ASSUME BTypeOK, BNext
  PROVE  \/ \E n \in Nat : PutStep(n)
         \/ \E n \in 0..ReadableBytes(buf) : TakeStep(n)
<1>1. IndexesInOrder(buf) /\ fed \in Nat /\ Numbers(buf)
  BY Counts DEF BTypeOK
<1>2. ReadableBytes(buf) \in Nat /\ WritableBytes(buf) \in Nat
  BY <1>1 DEF Numbers
<1>3. CASE AppendData
  <2>1. PICK len \in 0..MaxAppend : PutIn(AppendBytes(buf, fed, len), len)
    BY <1>3 DEF AppendData
  <2>2. len \in Nat
    BY <2>1
  <2>3. PutStep(len)
    BY <1>1, <2>1, <2>2, AppendAppends DEF PutIn, PutStep
  <2> QED
    BY <2>2, <2>3
<1>4. CASE ReadFd
  <2>1. PICK n \in 0..ReadvLimit(buf) : PutIn(ReadBytes(buf, fed, n), n)
    BY <1>4 DEF ReadFd
  <2>2. n \in Nat
    BY <2>1
  <2>3. PutStep(n)
    BY <1>1, <2>1, <2>2, ReadAppends DEF PutIn, PutStep
  <2> QED
    BY <2>2, <2>3
<1>5. CASE Retrieve
  <2>1. CASE \E len \in 0..ReadableBytes(buf) :
               TakeOut(RetrieveBytes(buf, len), len)
    <3>1. PICK len \in 0..ReadableBytes(buf) :
                 TakeOut(RetrieveBytes(buf, len), len)
      BY <2>1
    <3> QED
      BY <1>1, <3>1, TakesOut
  <2>2. CASE TakeOut(RetrieveBytes(buf, ReadableBytes(buf) + 1),
                     ReadableBytes(buf))
    <3> DEFINE r == ReadableBytes(buf)
    <3>1. r + 1 \in Nat /\ r \in 0..r /\ r + 1 > r
      BY <1>2
    <3> QED
      BY <1>1, <2>2, <3>1, TakesOut
  <2> QED
    BY <1>5, <2>1, <2>2 DEF Retrieve
<1>6. CASE RetrieveAllAsString
  <2>1. ReadableBytes(buf) \in 0..ReadableBytes(buf)
    BY <1>2
  <2> QED
    BY <1>1, <1>2, <1>6, <2>1, TakesOut DEF RetrieveAllAsString
<1>7. CASE WriteFd
  <2>1. PICK n \in 1..ReadableBytes(buf) : TakeOut(RetrieveBytes(buf, n), n)
    BY <1>7 DEF WriteFd
  <2>2. n \in 0..ReadableBytes(buf) /\ n \in Nat
    BY <1>2, <2>1
  <2> QED
    BY <1>1, <2>1, <2>2, TakesOut
<1> QED
  BY <1>3, <1>4, <1>5, <1>6, <1>7 DEF BNext
----------------------------------------------------------------------------
(* The theorems.                                                           *)

\* Inductive: memory follows the load because no more bytes are in the buffer
\* than peak says.
BInv ==
    /\ BTypeOK
    /\ ReadableBytes(buf) <= peak
    /\ MemoryBounded

\* A new vector's elements.
LEMMA Zeros ==
  ASSUME NEW n, NEW v, v = [i \in 0..n |-> 0] PROVE v \in [0..n -> Nat]
OBVIOUS

\* The constructor establishes the invariant.
LEMMA BInvInit == ASSUME BInit PROVE BInv
<1>1. buf = NewBuffer /\ fed = 0 /\ delivered = <<>> /\ peak = 0
  BY DEF BInit
<1>2. /\ buf.size = kCheapPrepend + kInitialSize
      /\ buf.readerIndex_ = kCheapPrepend /\ buf.writerIndex_ = kCheapPrepend
  BY <1>1 DEF NewBuffer
<1>3. IndexesInOrder(buf)
  <2>1. buf.buffer_ = [i \in 0..(kCheapPrepend + kInitialSize - 1) |-> 0]
    BY <1>1 DEF NewBuffer
  <2>2. buf.buffer_ \in [0..(kCheapPrepend + kInitialSize - 1) -> Nat]
    BY <2>1, Zeros
  <2> QED
    BY <1>2, <2>2, BufferAssumption DEF IndexesInOrder
<1>4. ReadableBytes(buf) <= peak
  BY <1>1, <1>2, BufferAssumption DEF ReadableBytes
<1>5. MemoryBounded
  BY <1>2, BufferAssumption DEF MemoryBounded
<1> QED
  BY <1>1, <1>3, <1>4, <1>5 DEF BInv, BTypeOK

\* Every step keeps it.
LEMMA BInvNext == ASSUME BInv, [BNext]_bVars PROVE BInv'
<1>1. CASE UNCHANGED bVars
  BY <1>1 DEF bVars, BInv, BTypeOK, MemoryBounded, IndexesInOrder, ReadableBytes
<1>2. CASE BNext
  <2>0. /\ Numbers(buf) /\ fed \in Nat /\ peak \in Nat /\ delivered \in Seq(Nat)
        /\ Content(buf) \in Seq(Nat) /\ IndexesInOrder(buf)
        /\ ReadableBytes(buf) <= peak
    BY Counts, ContentProperties DEF BInv, BTypeOK
  <2>1. CASE \E n \in Nat : PutStep(n)
    <3>1. PICK n \in Nat : PutStep(n)
      BY <2>1
    <3> DEFINE r == ReadableBytes(buf)
               q == ReadableBytes(buf')
    <3>2. /\ IndexesInOrder(buf') /\ q = r + n
          /\ fed' = fed + n /\ delivered' = delivered
          /\ peak' = IF q > peak THEN q ELSE peak
          /\ buf'.size = buf.size \/ buf'.size <= kCheapPrepend + 2 * (r + n)
      BY <3>1 DEF PutStep, Appended, SizeWithin
    <3>3. /\ r \in Nat /\ r <= peak /\ peak \in Nat /\ buf.size \in Nat
          /\ kCheapPrepend \in Nat /\ kInitialSize \in Nat
      BY <2>0 DEF Numbers
    <3>4. buf'.size \in Nat
      BY <3>2 DEF IndexesInOrder
    <3> HIDE DEF r, q
    <3>5. peak' \in Nat /\ q <= peak' /\ peak <= peak' /\ fed' \in Nat
      BY <2>0, <3>2, <3>3
    <3>6. MemoryBounded'
      <4>1. CASE buf'.size = buf.size
        <5>1. \/ buf.size <= kCheapPrepend + kInitialSize
              \/ buf.size <= kCheapPrepend + 2 * peak
          BY DEF BInv, MemoryBounded
        <5> QED
          BY <3>3, <3>5, <4>1, <5>1 DEF MemoryBounded
      <4>2. CASE buf'.size <= kCheapPrepend + 2 * (r + n)
        BY <3>2, <3>3, <3>4, <3>5, <4>2 DEF MemoryBounded
      <4> QED
        BY <3>2, <4>1, <4>2
    <3>7. (ReadableBytes(buf) <= peak)'
      BY <3>5 DEF q
    <3>8. BTypeOK'
      BY <2>0, <3>2, <3>5 DEF BTypeOK
    <3> QED
      BY <3>6, <3>7, <3>8 DEF BInv
  <2>2. CASE \E n \in 0..ReadableBytes(buf) : TakeStep(n)
    <3>1. PICK n \in 0..ReadableBytes(buf) : TakeStep(n)
      BY <2>2
    <3>2. /\ IndexesInOrder(buf') /\ buf'.size = buf.size
          /\ ReadableBytes(buf') = ReadableBytes(buf) - n
          /\ delivered' = delivered \o SubSeq(Content(buf), 1, n)
          /\ fed' = fed /\ peak' = peak
      BY <3>1 DEF TakeStep
    <3>3. (ReadableBytes(buf) <= peak)'
      BY <2>0, <3>2 DEF Numbers
    <3>4. MemoryBounded'
      BY <3>2 DEF BInv, MemoryBounded
    <3>5. delivered' \in Seq(Nat)
      <4>1. Peek(buf, n) \in Seq(Nat)
        BY <2>0, PeekProperties
      <4>2. SubSeq(Content(buf), 1, n) = Peek(buf, n)
        BY <3>1 DEF TakeStep
      <4> QED
        BY <2>0, <3>2, <4>1, <4>2, ConcatProperties
    <3>6. BTypeOK'
      BY <2>0, <3>2, <3>5 DEF BTypeOK
    <3> QED
      BY <3>3, <3>4, <3>6 DEF BInv
  <2> QED
    BY <1>2, <2>1, <2>2, Steps DEF BInv
<1> QED
  BY <1>1, <1>2

\* Buffer.h's invariant 0 <= readerIndex <= writerIndex <= size, with kCheapPrepend
\* bytes free in front, holds whatever is appended, read, retrieved and written.
THEOREM IndexesStayInOrder == BSpec => []BTypeOK
<1>1. BInv => BTypeOK
  BY DEF BInv
<1> QED
  BY <1>1, BInvInit, BInvNext, PTL DEF BSpec

\* The vector never grows past twice the most bytes it had to hold (makeSpace).
THEOREM MemoryFollowsLoad == BSpec => []MemoryBounded
<1>1. BInv => MemoryBounded
  BY DEF BInv
<1> QED
  BY <1>1, BInvInit, BInvNext, PTL DEF BSpec

\* A Buffer is a queue of bytes: append and readFd put bytes at its end, retrieve,
\* retrieveAllAsString and writeFd take them from its front.
THEOREM BufferImplementsByteQueue == BSpec => ImplementsByteQueue
<1>1. BInit => BQ!BQInit
  <2> SUFFICES ASSUME BInit PROVE BQ!BQInit
    OBVIOUS
  <2>1. buf = NewBuffer /\ fed = 0 /\ delivered = <<>>
    BY DEF BInit
  <2>2. ReadableBytes(buf) = 0
    BY <2>1, BufferAssumption DEF NewBuffer, ReadableBytes
  <2>3. IndexesInOrder(buf)
    BY BInvInit DEF BInv, BTypeOK
  <2>4. Content(buf) \in Seq(Nat) /\ Len(Content(buf)) = 0
    BY <2>2, <2>3, ContentProperties
  <2>5. Content(buf) = <<>>
    BY <2>4
  <2> QED
    BY <2>1, <2>5 DEF BQ!BQInit, Content
<1>2. BInv /\ [BNext]_bVars => [BQ!BQNext]_(BQ!bqVars)
  <2> SUFFICES ASSUME BInv, [BNext]_bVars PROVE [BQ!BQNext]_(BQ!bqVars)
    OBVIOUS
  <2>0. fed \in Nat /\ IndexesInOrder(buf) /\ BTypeOK
    BY DEF BInv, BTypeOK
  <2>1. CASE UNCHANGED bVars
    BY <2>1 DEF bVars, BQ!bqVars, Peek, ReadableBytes
  <2>2. CASE \E n \in Nat : PutStep(n)
    <3>1. PICK n \in Nat : PutStep(n)
      BY <2>2
    <3>2. /\ fed' = fed + n /\ delivered' = delivered
          /\ Content(buf') = Content(buf) \o Bytes(fed, n)
      BY <3>1 DEF PutStep, Appended
    <3>3. fed' \in Nat /\ fed' >= fed /\ fed' - fed = n
      BY <2>0, <3>2
    <3>4. BQ!BytesAfter(fed, fed' - fed) = Bytes(fed, n)
      BY <3>3 DEF BQ!BytesAfter, Bytes
    <3>5. BQ!Put
      BY <3>2, <3>3, <3>4 DEF BQ!Put, Content
    <3> QED
      BY <3>5 DEF BQ!BQNext
  <2>3. CASE \E n \in 0..ReadableBytes(buf) : TakeStep(n)
    <3>1. PICK n \in 0..ReadableBytes(buf) : TakeStep(n)
      BY <2>3
    <3>2. n \in 0..Len(Content(buf))
      BY <2>0, ContentProperties
    <3>3. BQ!Get
      BY <3>1, <3>2 DEF TakeStep, BQ!Get, Content
    <3> QED
      BY <3>3 DEF BQ!BQNext
  <2> QED
    BY <2>0, <2>1, <2>2, <2>3, Steps
<1> QED
  BY <1>1, <1>2, BInvInit, BInvNext, PTL
  DEF BSpec, ImplementsByteQueue, BQ!BQSpec
=============================================================================
