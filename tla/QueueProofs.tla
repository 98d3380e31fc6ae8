----------------------------- MODULE QueueProofs -----------------------------
(***************************************************************************)
(* Lemmas about queues of functors, such as a loop's pendingFunctors_ and  *)
(* the batch that is swapped out of it: what Append and Tail do to the set *)
(* of the waiting functors, to their being different and to their order.   *)
(***************************************************************************)
EXTENDS SequencesExt, SequenceTheorems, TLAPS

\* No functor is in the queue twice.
NoDup(q) == \A a, b \in DOMAIN q : q[a] = q[b] => a = b

\* f never stands behind g.
Before(q, f, g) == \A a, b \in DOMAIN q : q[a] = f /\ q[b] = g => a < b

\* f waits in q at most once.
Once(q, f) == \A a, b \in DOMAIN q : q[a] = f /\ q[b] = f => a = b

\* The functors of an empty queue (std::vector::swap with a fresh vector).
LEMMA EmptyQueue ==
  /\ ToSet(<<>>) = {} /\ NoDup(<<>>)
  /\ \A f, g : Before(<<>>, f, g) /\ Once(<<>>, f)
BY DEF ToSet, NoDup, Before, Once

\* Which functors wait after push_back (EventLoop::queueInLoop).
LEMMA AppendToSet ==
  ASSUME NEW S, NEW q \in Seq(S), NEW h \in S
  PROVE  /\ Append(q, h) \in Seq(S)
         /\ ToSet(Append(q, h)) = ToSet(q) \cup {h}
<1>1. /\ Append(q, h) \in Seq(S) /\ Len(Append(q, h)) = Len(q) + 1
      /\ \A k \in 1..Len(q) : Append(q, h)[k] = q[k]
      /\ Append(q, h)[Len(q) + 1] = h
  BY AppendProperties
<1>2. Len(q) \in Nat /\ DOMAIN q = 1..Len(q) /\ DOMAIN Append(q, h) = 1..(Len(q) + 1)
  BY <1>1, LenProperties
<1>3. ASSUME NEW f \in ToSet(Append(q, h)) PROVE f \in ToSet(q) \cup {h}
  <2>1. PICK k \in 1..(Len(q) + 1) : f = Append(q, h)[k]
    BY <1>2, <1>3 DEF ToSet
  <2> QED
    BY <1>1, <1>2, <2>1 DEF ToSet
<1>4. ASSUME NEW f \in ToSet(q) PROVE f \in ToSet(Append(q, h))
  <2>1. PICK k \in 1..Len(q) : f = q[k]
    BY <1>2, <1>4 DEF ToSet
  <2>2. k \in 1..(Len(q) + 1) /\ f = Append(q, h)[k]
    BY <1>1, <1>2, <2>1
  <2> QED
    BY <1>2, <2>2 DEF ToSet
<1>5. h \in ToSet(Append(q, h))
  BY <1>1, <1>2 DEF ToSet
<1> QED
  BY <1>1, <1>3, <1>4, <1>5

\* push_back of a functor that does not wait yet.
LEMMA AppendNoDup ==
  ASSUME NEW S, NEW q \in Seq(S), NEW h \in S, NoDup(q), h \notin ToSet(q)
  PROVE  NoDup(Append(q, h))
<1>1. /\ Len(Append(q, h)) = Len(q) + 1
      /\ \A k \in 1..Len(q) : Append(q, h)[k] = q[k]
      /\ Append(q, h)[Len(q) + 1] = h
  BY AppendProperties
<1>2. Len(q) \in Nat /\ DOMAIN q = 1..Len(q) /\ DOMAIN Append(q, h) = 1..(Len(q) + 1)
  BY <1>1, AppendToSet, LenProperties
<1>3. \A k \in 1..Len(q) : q[k] # h
  BY <1>2 DEF ToSet
<1> QED
  BY <1>1, <1>2, <1>3 DEF NoDup

\* push_back keeps the order, unless it puts f behind g.
LEMMA AppendBefore ==
  ASSUME NEW S, NEW q \in Seq(S), NEW h \in S, NEW f, NEW g,
         Before(q, f, g), h # f \/ g \notin ToSet(q), f # g
  PROVE  Before(Append(q, h), f, g)
<1>1. /\ Len(Append(q, h)) = Len(q) + 1
      /\ \A k \in 1..Len(q) : Append(q, h)[k] = q[k]
      /\ Append(q, h)[Len(q) + 1] = h
  BY AppendProperties
<1>2. Len(q) \in Nat /\ DOMAIN q = 1..Len(q) /\ DOMAIN Append(q, h) = 1..(Len(q) + 1)
  BY <1>1, AppendToSet, LenProperties
<1>3. h = f => \A k \in 1..Len(q) : q[k] # g
  BY <1>2 DEF ToSet
<1> QED
  BY <1>1, <1>2, <1>3 DEF Before

\* The oldest functor runs and the others wait on (EventLoop::doPendingFunctors).
LEMMA TailQueue ==
  ASSUME NEW S, NEW q \in Seq(S), q # <<>>, NoDup(q)
  PROVE  /\ Head(q) \in ToSet(q) /\ Head(q) \in S /\ Tail(q) \in Seq(S)
         /\ ToSet(Tail(q)) = ToSet(q) \ {Head(q)}
         /\ NoDup(Tail(q))
         /\ \A f, g : Before(q, f, g) => Before(Tail(q), f, g)
<1>1. /\ Head(q) \in S /\ Tail(q) \in Seq(S) /\ Len(Tail(q)) = Len(q) - 1
      /\ \A k \in 1..Len(Tail(q)) : Tail(q)[k] = q[k + 1]
  BY HeadTailProperties
<1>2. /\ Len(q) \in Nat \ {0} /\ DOMAIN q = 1..Len(q)
      /\ DOMAIN Tail(q) = 1..(Len(q) - 1) /\ Head(q) = q[1]
  BY <1>1, LenProperties, EmptySeq
<1>3. \A k \in 1..(Len(q) - 1) : Tail(q)[k] = q[k + 1] /\ k + 1 \in 1..Len(q)
  BY <1>1, <1>2
<1>4. Head(q) \in ToSet(q)
  BY <1>2 DEF ToSet
<1>5. ASSUME NEW f \in ToSet(Tail(q)) PROVE f \in ToSet(q) \ {Head(q)}
  <2>1. PICK k \in 1..(Len(q) - 1) : f = q[k + 1]
    BY <1>2, <1>3, <1>5 DEF ToSet
  <2>2. k + 1 \in DOMAIN q /\ 1 \in DOMAIN q /\ k + 1 # 1
    BY <1>2, <1>3
  <2> QED
    BY <1>2, <2>1, <2>2 DEF ToSet, NoDup
<1>6. ASSUME NEW f \in ToSet(q) \ {Head(q)} PROVE f \in ToSet(Tail(q))
  <2>1. PICK k \in 1..Len(q) : f = q[k]
    BY <1>2, <1>6 DEF ToSet
  <2>2. k # 1
    BY <1>2, <1>6, <2>1
  <2>3. k - 1 \in 1..(Len(q) - 1) /\ f = Tail(q)[k - 1]
    BY <1>2, <1>3, <2>1, <2>2
  <2> QED
    BY <1>2, <2>3 DEF ToSet
<1>7. NoDup(Tail(q))
  BY <1>2, <1>3 DEF NoDup
<1>8. ASSUME NEW f, NEW g, Before(q, f, g) PROVE Before(Tail(q), f, g)
  BY <1>2, <1>3, <1>8 DEF Before
<1> QED
  BY <1>1, <1>4, <1>5, <1>6, <1>7, <1>8

\* When g is the oldest functor, f does not wait.
LEMMA HeadBefore ==
  ASSUME NEW S, NEW q \in Seq(S), q # <<>>, NEW f, NEW g, f # g,
         Before(q, f, g), Head(q) = g
  PROVE  f \notin ToSet(q)
<1>1. Len(q) \in Nat \ {0} /\ DOMAIN q = 1..Len(q) /\ Head(q) = q[1]
  BY LenProperties, EmptySeq
<1> QED
  BY <1>1 DEF ToSet, Before

\* A batch followed by what was queued since is one queue.
LEMMA TwoQueues ==
  ASSUME NEW S, NEW p \in Seq(S), NEW q \in Seq(S)
  PROVE  p \o q \in Seq(S) /\ <<>> \o q = q /\ p \o <<>> = p
BY ConcatProperties, ConcatEmptySeq

\* It grows at the end.
LEMMA TwoQueuesAppend ==
  ASSUME NEW S, NEW p \in Seq(S), NEW q \in Seq(S), NEW h \in S
  PROVE  p \o Append(q, h) = Append(p \o q, h)
<1>1. <<h>> \in Seq(S) /\ p \o q \in Seq(S)
  BY TwoQueues
<1>2. Append(q, h) = q \o <<h>> /\ Append(p \o q, h) = (p \o q) \o <<h>>
  BY <1>1, AppendIsConcat
<1> QED
  BY <1>1, <1>2, ConcatAssociative

\* It is run from the head of the batch.
LEMMA TwoQueuesRun ==
  ASSUME NEW S, NEW p \in Seq(S), NEW q \in Seq(S), p # <<>>
  PROVE  p \o q # <<>> /\ Head(p \o q) = Head(p) /\ Tail(p \o q) = Tail(p) \o q
<1>1. /\ Len(p) \in Nat \ {0} /\ Len(q) \in Nat /\ Len(p \o q) = Len(p) + Len(q)
      /\ \A k \in 1..(Len(p) + Len(q)) :
            (p \o q)[k] = IF k <= Len(p) THEN p[k] ELSE q[k - Len(p)]
  BY ConcatProperties, EmptySeq, LenProperties
<1>2. p \o q \in Seq(S) /\ p \o q # <<>>
  BY <1>1, TwoQueues, EmptySeq
<1>3. Head(p \o q) = Head(p)
  BY <1>1
<1>4. /\ Tail(p) \in Seq(S) /\ Len(Tail(p)) = Len(p) - 1
      /\ \A k \in 1..(Len(p) - 1) : Tail(p)[k] = p[k + 1]
  BY HeadTailProperties
<1>5. /\ Tail(p \o q) \in Seq(S) /\ Len(Tail(p \o q)) = Len(p) + Len(q) - 1
      /\ \A k \in 1..(Len(p) + Len(q) - 1) : Tail(p \o q)[k] = (p \o q)[k + 1]
  BY <1>1, <1>2, HeadTailProperties
<1>6. /\ Tail(p) \o q \in Seq(S) /\ Len(Tail(p) \o q) = Len(p) + Len(q) - 1
      /\ \A k \in 1..(Len(p) + Len(q) - 1) :
            (Tail(p) \o q)[k] = IF k <= Len(p) - 1 THEN Tail(p)[k] ELSE q[k - (Len(p) - 1)]
  BY <1>1, <1>4, ConcatProperties
<1>7. \A k \in 1..(Len(p) + Len(q) - 1) : Tail(p \o q)[k] = (Tail(p) \o q)[k]
  BY <1>1, <1>4, <1>5, <1>6
<1> QED
  BY <1>2, <1>3, <1>5, <1>6, <1>7, SeqEqual

\* Which functors wait when the oldest has been taken to run.
LEMMA TailToSet ==
  ASSUME NEW S, NEW q \in Seq(S), q # <<>>
  PROVE  /\ Head(q) \in S /\ Tail(q) \in Seq(S)
         /\ ToSet(q) = ToSet(Tail(q)) \cup {Head(q)}
<1>1. /\ Head(q) \in S /\ Tail(q) \in Seq(S) /\ Len(Tail(q)) = Len(q) - 1
      /\ \A k \in 1..Len(Tail(q)) : Tail(q)[k] = q[k + 1]
  BY HeadTailProperties
<1>2. /\ Len(q) \in Nat \ {0} /\ DOMAIN q = 1..Len(q)
      /\ DOMAIN Tail(q) = 1..(Len(q) - 1) /\ Head(q) = q[1]
  BY <1>1, LenProperties, EmptySeq
<1>3. \A k \in 1..(Len(q) - 1) : Tail(q)[k] = q[k + 1] /\ k + 1 \in 1..Len(q)
  BY <1>1, <1>2
<1>4. ASSUME NEW f \in ToSet(Tail(q)) PROVE f \in ToSet(q)
  BY <1>2, <1>3 DEF ToSet
<1>5. ASSUME NEW f \in ToSet(q) PROVE f \in ToSet(Tail(q)) \cup {Head(q)}
  <2>1. PICK k \in 1..Len(q) : f = q[k]
    BY <1>2, <1>5 DEF ToSet
  <2>2. k # 1 => k - 1 \in 1..(Len(q) - 1) /\ f = Tail(q)[k - 1]
    BY <1>2, <1>3, <2>1
  <2> QED
    BY <1>2, <2>1, <2>2 DEF ToSet
<1>6. Head(q) \in ToSet(q)
  BY <1>2 DEF ToSet
<1> QED
  BY <1>1, <1>4, <1>5, <1>6

\* The second functor is put behind the first.
LEMMA AppendSecond ==
  ASSUME NEW f, NEW g
  PROVE  Append(<<f>>, g) = <<f, g>>
<1> DEFINE S == {f, g}
           a == Append(<<f>>, g)
           b == <<f, g>>
<1>1. <<f>> \in Seq(S) /\ b \in Seq(S) /\ Len(b) = 2 /\ b[1] = f /\ b[2] = g
  OBVIOUS
<1>2. Len(<<f>>) = 1 /\ <<f>>[1] = f
  OBVIOUS
<1>3. a \in Seq(S) /\ Len(a) = 2 /\ a[1] = f /\ a[2] = g
  BY <1>1, <1>2, AppendProperties
<1> HIDE DEF S, a, b
<1>4. \A i \in 1..Len(a) : a[i] = b[i]
  BY <1>1, <1>3
<1> QED
  BY <1>1, <1>3, <1>4, SeqEqual DEF a, b

\* push_back of another functor, or of one that does not wait yet.
LEMMA AppendOnce ==
  ASSUME NEW S, NEW q \in Seq(S), NEW h \in S, NEW f,
         Once(q, f), h # f \/ f \notin ToSet(q)
  PROVE  Once(Append(q, h), f)
<1>1. /\ Len(Append(q, h)) = Len(q) + 1
      /\ \A k \in 1..Len(q) : Append(q, h)[k] = q[k]
      /\ Append(q, h)[Len(q) + 1] = h
  BY AppendProperties
<1>2. Len(q) \in Nat /\ DOMAIN q = 1..Len(q) /\ DOMAIN Append(q, h) = 1..(Len(q) + 1)
  BY <1>1, AppendToSet, LenProperties
<1>3. h = f => \A k \in 1..Len(q) : q[k] # f
  BY <1>2 DEF ToSet
<1> QED
  BY <1>1, <1>2, <1>3 DEF Once

\* The oldest functor has been taken: it waits no more if it waited once.
LEMMA TailOnce ==
  ASSUME NEW S, NEW q \in Seq(S), q # <<>>, NEW f, Once(q, f)
  PROVE  Once(Tail(q), f) /\ (Head(q) = f => f \notin ToSet(Tail(q)))
<1>1. /\ Tail(q) \in Seq(S) /\ Len(Tail(q)) = Len(q) - 1
      /\ \A k \in 1..Len(Tail(q)) : Tail(q)[k] = q[k + 1]
  BY HeadTailProperties
<1>2. /\ Len(q) \in Nat \ {0} /\ DOMAIN q = 1..Len(q)
      /\ DOMAIN Tail(q) = 1..(Len(q) - 1) /\ Head(q) = q[1]
  BY <1>1, LenProperties, EmptySeq
<1>3. \A k \in 1..(Len(q) - 1) : Tail(q)[k] = q[k + 1] /\ k + 1 \in 1..Len(q)
  BY <1>1, <1>2
<1>4. Once(Tail(q), f)
  BY <1>2, <1>3 DEF Once
<1>5. ASSUME Head(q) = f, f \in ToSet(Tail(q)) PROVE FALSE
  <2>1. PICK k \in 1..(Len(q) - 1) : f = q[k + 1]
    BY <1>2, <1>3, <1>5 DEF ToSet
  <2>2. 1 \in DOMAIN q /\ k + 1 \in DOMAIN q /\ k + 1 # 1
    BY <1>2
  <2> QED
    BY <1>2, <1>5, <2>1, <2>2 DEF Once
<1> QED
  BY <1>4, <1>5
=============================================================================
