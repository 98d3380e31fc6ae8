------------------------------- MODULE Buffer -------------------------------
(***************************************************************************)
(* A Buffer (Buffer.h, Buffer.cc): a vector of bytes with two indices,     *)
(*     0 <= readerIndex_ <= writerIndex_ <= buffer_.size(),                *)
(* the bytes in between being the content.  A buffer is a record:          *)
(*   buffer_        the vector, a function on 0..size-1                    *)
(*   size           buffer_.size()                                         *)
(*   readerIndex_, writerIndex_                                            *)
(* It belongs to one connection and only its loop's thread touches it, so  *)
(* each operation is a step.  A byte is its number among those ever put    *)
(* in; 0 is what a vector's new elements hold.                             *)
(***************************************************************************)
EXTENDS Integers, Sequences

CONSTANTS
    kCheapPrepend,
    kInitialSize,
    ExtraBuf,       \* sizeof extrabuf in readFd
    MaxAppend,      \* the most bytes one append() is given
    MaxBytes        \* how many bytes are put in altogether

ASSUME BufferAssumption ==
    /\ kCheapPrepend \in Nat /\ kInitialSize \in Nat /\ ExtraBuf \in Nat
    /\ MaxAppend \in Nat /\ MaxBytes \in Nat

VARIABLES
    buf,            \* the Buffer
    fed,            \* history: how many bytes have been put in
    delivered,      \* history: the bytes taken out, in order
    peak            \* history: the most bytes the buffer has held

bVars == <<buf, fed, delivered, peak>>

ReadableBytes(b)    == b.writerIndex_ - b.readerIndex_
WritableBytes(b)    == b.size - b.writerIndex_
PrependableBytes(b) == b.readerIndex_

\* What peek() points to: n bytes from readerIndex_ on.
Peek(b, n) == [i \in 1..n |-> b.buffer_[b.readerIndex_ + i - 1]]

NewBuffer ==
    [buffer_ |-> [i \in 0..(kCheapPrepend + kInitialSize - 1) |-> 0],
     size |-> kCheapPrepend + kInitialSize,
     readerIndex_ |-> kCheapPrepend, writerIndex_ |-> kCheapPrepend]

\* buffer_.resize(n), n > size: the new elements are 0.
Resize(b, n) ==
    [buffer_ |-> [i \in 0..(n - 1) |-> IF i < b.size THEN b.buffer_[i] ELSE 0],
     size |-> n,
     readerIndex_ |-> b.readerIndex_, writerIndex_ |-> b.writerIndex_]

\* Mutant: the indices move down, the bytes do not.
MoveWithoutCopy(b) ==
    [buffer_ |-> b.buffer_, size |-> b.size,
     readerIndex_ |-> kCheapPrepend,
     writerIndex_ |-> kCheapPrepend + ReadableBytes(b)]

\* makeSpace's second half: the content moves down to kCheapPrepend.
MoveToFront(b) ==
    [buffer_ |-> [i \in 0..(b.size - 1) |->
                    IF kCheapPrepend <= i /\ i < kCheapPrepend + ReadableBytes(b)
                    THEN b.buffer_[b.readerIndex_ + i - kCheapPrepend]
                    ELSE b.buffer_[i]],
     size |-> b.size,
     readerIndex_ |-> kCheapPrepend,
     writerIndex_ |-> kCheapPrepend + ReadableBytes(b)]

\* Mutant: space in front of the content is never used again.
MakeSpaceResizes(b, len) == Resize(b, b.writerIndex_ + len)

MakeSpace(b, len) ==
    IF WritableBytes(b) + PrependableBytes(b) < len + kCheapPrepend
    THEN Resize(b, b.writerIndex_ + len)
    ELSE MoveToFront(b)

EnsureWritableBytes(b, len) ==
    IF WritableBytes(b) < len THEN MakeSpace(b, len) ELSE b

\* n bytes, those after byte number k, are written at beginWrite(), followed by
\* hasWritten(n).
WriteHere(b, k, n) ==
    [buffer_ |-> [i \in 0..(b.size - 1) |->
                    IF b.writerIndex_ <= i /\ i < b.writerIndex_ + n
                    THEN k + 1 + i - b.writerIndex_
                    ELSE b.buffer_[i]],
     size |-> b.size,
     readerIndex_ |-> b.readerIndex_, writerIndex_ |-> b.writerIndex_ + n]

AppendBytes(b, k, len) == WriteHere(EnsureWritableBytes(b, len), k, len)

\* How many bytes readv may read: extrabuf is offered only when there are fewer
\* writable bytes than it holds.
ReadvLimit(b) ==
    WritableBytes(b) + IF WritableBytes(b) < ExtraBuf THEN ExtraBuf ELSE 0

\* Mutant: what went to extrabuf is forgotten.
ReadBytesNoExtra(b, k, n) == WriteHere(b, k, n)

\* readFd with n >= 0 bytes read.
ReadBytes(b, k, n) ==
    IF n <= WritableBytes(b)
    THEN WriteHere(b, k, n)
    ELSE AppendBytes(WriteHere(b, k, WritableBytes(b)),
                     k + WritableBytes(b), n - WritableBytes(b))

RetrieveAllBytes(b) ==
    [buffer_ |-> b.buffer_, size |-> b.size,
     readerIndex_ |-> kCheapPrepend, writerIndex_ |-> kCheapPrepend]

RetrieveBytes(b, len) ==
    IF len < ReadableBytes(b)
    THEN [buffer_ |-> b.buffer_, size |-> b.size,
          readerIndex_ |-> b.readerIndex_ + len,
          writerIndex_ |-> b.writerIndex_]
    ELSE RetrieveAllBytes(b)
----------------------------------------------------------------------------
BInit ==
    /\ buf = NewBuffer
    /\ fed = 0
    /\ delivered = <<>>
    /\ peak = 0

\* The buffer becomes b, with n bytes more; n is bounded by MaxBytes.
PutIn(b, n) ==
    /\ fed + n <= MaxBytes
    /\ buf' = b
    /\ fed' = fed + n
    /\ peak' = IF ReadableBytes(b) > peak THEN ReadableBytes(b) ELSE peak
    /\ UNCHANGED delivered

\* append(data, len), in sendInLoop.
AppendData ==
    \E len \in 0..MaxAppend : PutIn(AppendBytes(buf, fed, len), len)

\* readFd, in handleRead; when readv fails nothing changes.
ReadFd == \E n \in 0..ReadvLimit(buf) : PutIn(ReadBytes(buf, fed, n), n)

\* The reader takes n bytes at peek() and the buffer becomes b.
TakeOut(b, n) ==
    /\ buf' = b
    /\ delivered' = delivered \o Peek(buf, n)
    /\ UNCHANGED <<fed, peak>>

\* A message callback looks at peek() and calls retrieve(len); more than there is
\* takes all there is.
Retrieve ==
    \/ \E len \in 0..ReadableBytes(buf) : TakeOut(RetrieveBytes(buf, len), len)
    \/ TakeOut(RetrieveBytes(buf, ReadableBytes(buf) + 1), ReadableBytes(buf))

\* retrieveAllAsString: retrieveAsString(readableBytes()).
RetrieveAllAsString ==
    TakeOut(RetrieveBytes(buf, ReadableBytes(buf)), ReadableBytes(buf))

\* writeFd: write takes n > 0 of the readable bytes; otherwise nothing changes.
WriteFd == \E n \in 1..ReadableBytes(buf) : TakeOut(RetrieveBytes(buf, n), n)

BNext == AppendData \/ ReadFd \/ Retrieve \/ RetrieveAllAsString \/ WriteFd

BSpec == BInit /\ [][BNext]_bVars
----------------------------------------------------------------------------
(* Properties.                                                             *)

\* The indices stay in order, so that no subtraction of size_t wraps around and
\* no byte outside the vector is touched, and kCheapPrepend bytes stay free in
\* front (the picture in Buffer.h; the assert of ensureWritableBytes).
IndexesInOrder(b) ==
    /\ b.size \in Nat
    /\ b.buffer_ \in [0..(b.size - 1) -> Nat]
    /\ b.readerIndex_ \in Nat /\ b.writerIndex_ \in Nat
    /\ kCheapPrepend <= b.readerIndex_
    /\ b.readerIndex_ <= b.writerIndex_
    /\ b.writerIndex_ <= b.size

\* Type invariant: the buffer's indices are in order; the histories are numbers
\* and bytes.
BTypeOK ==
    /\ IndexesInOrder(buf)
    /\ fed \in Nat /\ peak \in Nat
    /\ delivered \in Seq(Nat)

\* Memory follows the load: the vector is never longer than twice the most bytes
\* it has had to hold, plus the part kept free, because makeSpace moves the
\* content down before it grows the vector (Buffer::makeSpace).
MemoryBounded ==
    \/ buf.size <= kCheapPrepend + kInitialSize
    \/ buf.size <= kCheapPrepend + 2 * peak

\* The bytes come out as they went in: none lost, repeated or moved when the
\* content is copied down, the vector grows, or readFd splits what it reads between
\* the vector and extrabuf (Buffer::makeSpace, readFd, retrieve).
BQ == INSTANCE ByteQueue WITH content <- Peek(buf, ReadableBytes(buf))
ImplementsByteQueue == BQ!BQSpec
============================================================================
