------------------------- MODULE TcpConnectionProofs -------------------------
(***************************************************************************)
(* What is proved of TcpConnection.tla, for any number of users, messages  *)
(* and arrivals, any message sizes and any highWaterMark_.                 *)
(*                                                                         *)
(* ConnInv is the inductive invariant.  Its parts up to StreamInv hold     *)
(* whatever the users do.  CalmInv is about connections that no thread but *)
(* the I/O thread shuts down (Shutters = {}): a shutdown() on another      *)
(* thread may store kDisconnecting over kDisconnected, after which the     *)
(* channel can come back and connectDestroyed run twice.                   *)
(***************************************************************************)
EXTENDS TcpConnection, ChannelProofs, QueueProofs

Established == Bound("connectEstablished")
Destroyed   == Bound("connectDestroyed")

UserCallbacks == {Bound("writeComplete"), Bound("highWaterMark")}

\* The functors that are queued on the I/O loop.
Functors ==
    {Established, Destroyed, Bound("shutdownInLoop")} \cup UserCallbacks
        \cup {BoundSend(m) : m \in Messages}

\* The types of the variables.
ConnTypes ==
    /\ life \in {"none", "alive", "destroyed"} /\ state_ \in States
    /\ chan \in Channels /\ outputBuffer_ \in Seq(Messages \X Nat)

LoopTypes ==
    /\ lpc \in {"poll", "event", "run", "exited"}
    /\ pendingFunctors_ \in Seq(Functors) /\ functors \in Seq(Functors)
    /\ batchHolds \in BOOLEAN /\ todo \subseteq Calls /\ inCallback \in BOOLEAN

ServerTypes ==
    connections_ \in BOOLEAN /\ mainq \in Nat /\ server \in {"up", "down"}

SockTypes ==
    /\ peer \in {"open", "fin", "rst"} /\ soError \in BOOLEAN
    /\ arrivals \in 0..MaxArrivals /\ readable \in BOOLEAN /\ wrShut \in BOOLEAN
    /\ wire \in Seq(Messages \X Nat)

UserTypes ==
    /\ upc \in [Users -> UserPc] /\ buf \in [Users -> Messages \cup {""}]
    /\ sent \subseteq Messages

CallTypes == cbs \in Seq({"UP", "DOWN"}) /\ destroyedRuns \in Nat

TypesInv ==
    ConnTypes /\ LoopTypes /\ ServerTypes /\ SockTypes /\ UserTypes /\ CallTypes

\* Only what was passed to send() is on its way.
SentInv ==
    /\ accepted \in Seq(Messages) /\ ToSet(accepted) \subseteq sent
    /\ \A f \in ToSet(Queued) : f.fn = "sendInLoop" => f.msg \in sent
    /\ \A u \in Users : upc[u] = "sending" => buf[u] \in sent

\* Where the I/O thread is, and the end of its loop.
LoopInv ==
    /\ inCallback => lpc \in {"event", "run"}
    /\ todo # {} => lpc = "event"
    /\ functors # <<>> \/ batchHolds => lpc = "run"
    /\ lpc = "exited" => server = "down"
    /\ server = "down" => ServerDies

\* Until connectEstablished has run nothing has happened to the connection, and
\* connectEstablished is the functor to run next.
EarlyInv ==
    IF state_ = "kConnecting"
    THEN /\ chan = NewChannel /\ outputBuffer_ = <<>> /\ ~wrShut /\ ~inCallback
         /\ todo = {}
         /\ cbs = <<>> /\ destroyedRuns = 0 /\ mainq = 0
         /\ \A u \in Users : upc[u] = "none"
         /\ Queued \in {<<>>, <<Established>>, <<Established, Destroyed>>}
         /\ Queued = <<Established, Destroyed>> => server = "down"
         /\ Queued = <<>> => life = "none" \/ lpc = "exited"
         /\ life = "none" => Queued = <<>> /\ ~connections_
    ELSE life # "none" /\ Established \notin ToSet(Queued)

\* A freed connection is out of reach.
LifeInv == life = "destroyed" => ~Referenced /\ ~chan.reg

\* A functor that binds `this' is queued by another thread.
RawInv == \A f \in ToSet(Queued) : Raw(f) => Users # {}

\* While the connection is up, EPOLLOUT is asked for when bytes wait, and the
\* channel is in the epoll set.
OutputInv ==
    /\ ~Down => (IsWriting(chan) <=> outputBuffer_ # <<>>)
    /\ FinAfterData
    /\ state_ # "kConnecting" /\ ~Down /\ destroyedRuns = 0 =>
          /\ Consistent(chan) /\ ~chan.aborted /\ chan.index = "kAdded"
          /\ "R" \in chan.events
          /\ life = "alive" /\ lpc # "exited" =>
                chan.reg /\ chan.interest = chan.events

\* The epoll set goes with the loop.
ExitedInv == lpc = "exited" => ~chan.reg

\* f is the recursive function that FlattenSeq(s) defines.
Flattens(f, s) ==
    f = [i \in 1..Len(s) |-> IF i = 1 THEN s[i] ELSE f[i - 1] \o s[i]]

\* r is what every such function gives for the whole of s, and there is one.
Flat(s, r) ==
    /\ \E f : Flattens(f, s)
    /\ \A f : Flattens(f, s) => r = IF Len(s) = 0 THEN <<>> ELSE f[Len(s)]

\* What the kernel has taken followed by outputBuffer_ is the accepted messages.
StreamInv ==
    Flat([i \in 1..Len(accepted) |-> Bytes(accepted[i])], wire \o outputBuffer_)

\* state_ goes with the calls of connectionCallback_.
ReportedInv ==
    /\ \A u \in Users : upc[u] \notin {"shutLoaded", "shutStored"}
    /\ cbs = CASE state_ = "kConnecting" -> <<>>
               [] state_ \in {"kConnected", "kDisconnecting"} -> <<"UP">>
               [] state_ = "kDisconnected" -> <<"UP", "DOWN">>

\* A closed channel does not come back.
ClosedInv ==
    /\ Consistent(chan) /\ ~chan.aborted
    /\ Down \/ destroyedRuns = 1 =>
          /\ ~chan.reg
          /\ chan.index = IF destroyedRuns = 1 THEN "kNew" ELSE "kDeleted"
    /\ Down => ~IsWriting(chan)

\* A round of events closes it once, and none comes after connectDestroyed.
RoundInv ==
    /\ ~({"handleClose", "handleRead"} \subseteq todo)
    /\ Down => todo \cap {"handleClose", "handleRead"} = {}
    /\ destroyedRuns = 1 => todo = {} /\ state_ \in {"kDisconnecting", "kDisconnected"}

\* The connection is in the map, or connectDestroyed is queued, or it has run.
LeavesInv ==
    /\ destroyedRuns <= 1 /\ mainq <= 1 /\ Once(Queued, Destroyed)
    /\ connections_ => destroyedRuns = 0 /\ Destroyed \notin ToSet(Queued)
    /\ Destroyed \in ToSet(Queued) => destroyedRuns = 0
    /\ life # "none" /\ lpc # "exited" =>
          connections_ \/ Destroyed \in ToSet(Queued) \/ destroyedRuns = 1
    /\ mainq = 1 => Down
    /\ server = "down" => ~connections_
    /\ server = "up" /\ life # "none" => (connections_ <=> (Down => mainq = 1))

CalmInv == ReportedInv /\ ClosedInv /\ RoundInv /\ LeavesInv

ConnInv ==
    /\ TypesInv /\ SentInv /\ LoopInv /\ EarlyInv /\ LifeInv /\ RawInv
    /\ OutputInv /\ ExitedInv /\ StreamInv
    /\ Shutters = {} => CalmInv
----------------------------------------------------------------------------
(* The functors and the two vectors they wait in.                          *)

\* What std::bind makes for the loop, and which of it binds `this' only.
LEMMA FunctorKinds ==
  /\ \A f \in Functors :
        /\ f.fn = "connectEstablished" <=> f = Established
        /\ f.fn = "connectDestroyed" <=> f = Destroyed
        /\ f.fn = "sendInLoop" => f.msg \in Messages
        /\ f.fn \in {"writeComplete", "highWaterMark"} <=> f \in UserCallbacks
  /\ UserCallbacks \subseteq Functors
  /\ Established \in Functors /\ Destroyed \in Functors
  /\ Bound("shutdownInLoop") \in Functors
  /\ Raw(Bound("shutdownInLoop")) /\ Bound("shutdownInLoop").fn # "sendInLoop"
  /\ \A m \in Messages :
        /\ BoundSend(m) \in Functors /\ Raw(BoundSend(m))
        /\ BoundSend(m).fn = "sendInLoop" /\ BoundSend(m).msg = m
  /\ Established # Destroyed
  /\ Established.fn = "connectEstablished" /\ Destroyed.fn = "connectDestroyed"
  /\ ~Raw(Established) /\ ~Raw(Destroyed)
  /\ \A f \in UserCallbacks :
        /\ ~Raw(f) /\ f.fn # "sendInLoop" /\ f # Established /\ f # Destroyed
<1>1. /\ \A fn : Bound(fn).fn = fn
      /\ \A m : BoundSend(m).fn = "sendInLoop" /\ BoundSend(m).msg = m
  BY DEF Bound, BoundSend
<1>2. ASSUME NEW f \in Functors
      PROVE  /\ f.fn = "connectEstablished" <=> f = Established
             /\ f.fn = "connectDestroyed" <=> f = Destroyed
             /\ f.fn = "sendInLoop" => f.msg \in Messages
             /\ f.fn \in {"writeComplete", "highWaterMark"} <=> f \in UserCallbacks
  <2>1. \/ f = Bound("connectEstablished") \/ f = Bound("connectDestroyed")
        \/ f = Bound("shutdownInLoop") \/ f = Bound("writeComplete")
        \/ f = Bound("highWaterMark") \/ \E m \in Messages : f = BoundSend(m)
    BY DEF Functors, UserCallbacks, Established, Destroyed
  <2> QED
    BY <1>1, <2>1 DEF UserCallbacks, Established, Destroyed
<1>3. /\ UserCallbacks \subseteq Functors
      /\ Established \in Functors /\ Destroyed \in Functors
      /\ Bound("shutdownInLoop") \in Functors
      /\ \A m \in Messages : BoundSend(m) \in Functors
  BY DEF Functors
<1>4. /\ Raw(Bound("shutdownInLoop")) /\ Bound("shutdownInLoop").fn # "sendInLoop"
      /\ \A m \in Messages : Raw(BoundSend(m))
  BY <1>1 DEF Raw
<1>5. /\ Established # Destroyed
      /\ Established.fn = "connectEstablished" /\ Destroyed.fn = "connectDestroyed"
      /\ ~Raw(Established) /\ ~Raw(Destroyed)
  BY <1>1 DEF Established, Destroyed, Raw
<1>6. \A f \in UserCallbacks :
        ~Raw(f) /\ f.fn # "sendInLoop" /\ f # Established /\ f # Destroyed
  BY <1>1 DEF UserCallbacks, Established, Destroyed, Raw
<1> QED
  BY <1>1, <1>2, <1>3, <1>4, <1>5, <1>6

\* queueInLoop: the functor is the last of all that wait.
LEMMA Queues ==
  ASSUME TypesInv, NEW h \in Functors, functors' = functors,
         pendingFunctors_' = Append(pendingFunctors_, h)
  PROVE  /\ pendingFunctors_' \in Seq(Functors)
         /\ Queued' = Append(Queued, h) /\ Queued \in Seq(Functors)
         /\ ToSet(Queued') = ToSet(Queued) \cup {h}
<1>1. functors \in Seq(Functors) /\ pendingFunctors_ \in Seq(Functors)
  BY DEF TypesInv, ConnTypes, LoopTypes, SockTypes
<1>2. Queued \in Seq(Functors)
  BY <1>1, TwoQueues DEF Queued
<1>3. Queued' = Append(Queued, h)
  BY <1>1, TwoQueuesAppend DEF Queued
<1> QED
  BY <1>1, <1>2, <1>3, AppendToSet

\* doPendingFunctors takes the oldest of all that wait.
LEMMA Runs ==
  ASSUME TypesInv, functors # <<>>, functors' = Tail(functors),
         UNCHANGED pendingFunctors_
  PROVE  /\ functors' \in Seq(Functors) /\ Head(functors) \in Functors
         /\ Queued # <<>> /\ Head(Queued) = Head(functors)
         /\ Queued \in Seq(Functors) /\ Queued' = Tail(Queued)
         /\ ToSet(Queued) = ToSet(Queued') \cup {Head(functors)}
<1>1. functors \in Seq(Functors) /\ pendingFunctors_ \in Seq(Functors)
  BY DEF TypesInv, ConnTypes, LoopTypes, SockTypes
<1>2. Queued \in Seq(Functors)
  BY <1>1, TwoQueues DEF Queued
<1>3. /\ Queued # <<>> /\ Head(Queued) = Head(functors)
      /\ Queued' = Tail(Queued)
  BY <1>1, TwoQueuesRun DEF Queued
<1> QED
  BY <1>1, <1>2, <1>3, TailToSet

\* The oldest functor runs and may queue another.
LEMMA RunsAndQueues ==
  ASSUME TypesInv, functors # <<>>, functors' = Tail(functors),
         NEW h \in Functors, pendingFunctors_' = Append(pendingFunctors_, h)
  PROVE  /\ functors' \in Seq(Functors) /\ pendingFunctors_' \in Seq(Functors)
         /\ Head(functors) \in Functors /\ Queued # <<>>
         /\ Head(Queued) = Head(functors) /\ Queued \in Seq(Functors)
         /\ Tail(Queued) \in Seq(Functors) /\ Queued' = Append(Tail(Queued), h)
         /\ ToSet(Queued) = ToSet(Tail(Queued)) \cup {Head(functors)}
         /\ ToSet(Queued') = ToSet(Tail(Queued)) \cup {h}
<1>1. functors \in Seq(Functors) /\ pendingFunctors_ \in Seq(Functors)
  BY DEF TypesInv, ConnTypes, LoopTypes, SockTypes
<1>2. Queued \in Seq(Functors)
  BY <1>1, TwoQueues DEF Queued
<1>3. /\ Queued # <<>> /\ Head(Queued) = Head(functors)
      /\ Tail(Queued) = Tail(functors) \o pendingFunctors_
  BY <1>1, TwoQueuesRun DEF Queued
<1>4. Head(functors) \in Functors /\ Tail(functors) \in Seq(Functors)
  BY <1>1, TailToSet
<1>5. Queued' = Append(Tail(Queued), h)
  <2>1. Tail(functors) \o Append(pendingFunctors_, h)
          = Append(Tail(functors) \o pendingFunctors_, h)
    BY <1>1, <1>4, TwoQueuesAppend
  <2> QED
    BY <1>3, <2>1 DEF Queued
<1>6. pendingFunctors_' \in Seq(Functors)
  BY <1>1, AppendToSet
<1>7. /\ Tail(Queued) \in Seq(Functors)
      /\ ToSet(Queued) = ToSet(Tail(Queued)) \cup {Head(functors)}
  BY <1>2, <1>3, TailToSet
<1>8. ToSet(Append(Tail(Queued), h)) = ToSet(Tail(Queued)) \cup {h}
  <2>1. \A q \in Seq(Functors) : ToSet(Append(q, h)) = ToSet(q) \cup {h}
    BY AppendToSet
  <2> QED
    BY <1>7, <2>1
<1> QED
  BY <1>2, <1>3, <1>4, <1>5, <1>6, <1>7, <1>8

\* The swap of doPendingFunctors changes nothing about what waits.
LEMMA Swaps ==
  ASSUME TypesInv, functors = <<>>, functors' = pendingFunctors_,
         pendingFunctors_' = <<>>
  PROVE  Queued' = Queued /\ functors' \in Seq(Functors)
                          /\ pendingFunctors_' \in Seq(Functors)
<1>1. pendingFunctors_ \in Seq(Functors)
  BY DEF TypesInv, ConnTypes, LoopTypes, SockTypes
<1>2. <<>> \in Seq(Functors)
  BY EmptySeq
<1> QED
  BY <1>1, <1>2, TwoQueues DEF Queued
----------------------------------------------------------------------------
(* sendInLoop and handleWrite.                                             *)

\* A message is a sequence of bytes, and so is what is left when a part of it
\* has been written.
LEMMA Parts ==
  ASSUME NEW S, NEW b \in Seq(S), NEW n \in 0..Len(b)
  PROVE  /\ SubSeq(b, 1, n) \in Seq(S) /\ SubSeq(b, n + 1, Len(b)) \in Seq(S)
         /\ SubSeq(b, 1, n) \o SubSeq(b, n + 1, Len(b)) = b
         /\ SubSeq(b, 1, n) = <<>> <=> n = 0
         /\ SubSeq(b, n + 1, Len(b)) = <<>> <=> n = Len(b)
<1>1. Len(b) \in Nat /\ n \in Nat /\ n <= Len(b)
  BY LenProperties
<1>2. \A i \in 1..Len(b) : b[i] \in S
  BY ElementOfSeq
<1>3. /\ SubSeq(b, 1, n) \in Seq(S) /\ Len(SubSeq(b, 1, n)) = n
      /\ \A i \in 1..n : SubSeq(b, 1, n)[i] = b[i]
  <2>1. \A i \in 1..n : b[i] \in S
    BY <1>1, <1>2
  <2>2. /\ SubSeq(b, 1, n) \in Seq(S)
        /\ Len(SubSeq(b, 1, n)) = IF 1 <= n THEN n - 1 + 1 ELSE 0
        /\ \A i \in 1..(n - 1 + 1) : SubSeq(b, 1, n)[i] = b[1 + i - 1]
    BY <1>1, <2>1, SubSeqProperties
  <2> QED
    BY <1>1, <2>2
<1>4. /\ SubSeq(b, n + 1, Len(b)) \in Seq(S)
      /\ Len(SubSeq(b, n + 1, Len(b))) = Len(b) - n
      /\ \A i \in 1..(Len(b) - n) : SubSeq(b, n + 1, Len(b))[i] = b[n + i]
  <2>1. \A i \in (n + 1)..Len(b) : b[i] \in S
    BY <1>1, <1>2
  <2>2. /\ SubSeq(b, n + 1, Len(b)) \in Seq(S)
        /\ Len(SubSeq(b, n + 1, Len(b)))
             = IF n + 1 <= Len(b) THEN Len(b) - (n + 1) + 1 ELSE 0
        /\ \A i \in 1..(Len(b) - (n + 1) + 1) :
              SubSeq(b, n + 1, Len(b))[i] = b[(n + 1) + i - 1]
    BY <1>1, <2>1, SubSeqProperties
  <2> QED
    BY <1>1, <2>2
<1> DEFINE p == SubSeq(b, 1, n)
           q == SubSeq(b, n + 1, Len(b))
<1>5. /\ p \in Seq(S) /\ Len(p) = n /\ \A i \in 1..n : p[i] = b[i]
      /\ q \in Seq(S) /\ Len(q) = Len(b) - n
      /\ \A i \in 1..(Len(b) - n) : q[i] = b[n + i]
  BY <1>3, <1>4
<1> HIDE DEF p, q
<1>6. p \o q = b
  <2>1. /\ p \o q \in Seq(S) /\ Len(p \o q) = Len(p) + Len(q)
        /\ \A i \in 1..(Len(p) + Len(q)) :
              (p \o q)[i] = IF i <= Len(p) THEN p[i] ELSE q[i - Len(p)]
    BY <1>5, ConcatProperties
  <2>2. Len(p \o q) = Len(b) /\ \A i \in 1..Len(b) : (p \o q)[i] = b[i]
    <3>1. Len(p) + Len(q) = Len(b)
      BY <1>1, <1>5
    <3>2. ASSUME NEW i \in 1..Len(b) PROVE (p \o q)[i] = b[i]
      <4>1. CASE i <= n
        BY <1>1, <1>5, <2>1, <3>1, <4>1
      <4>2. CASE i > n
        <5>1. i - n \in 1..(Len(b) - n) /\ n + (i - n) = i
          BY <1>1, <4>2
        <5> QED
          BY <1>1, <1>5, <2>1, <3>1, <4>2, <5>1
      <4>3. i <= n \/ i > n
        BY <1>1, <3>2
      <4> QED
        BY <4>1, <4>2, <4>3
    <3> QED
      BY <2>1, <3>1, <3>2
  <2> QED
    BY <2>1, <2>2, SeqEqual
<1>7. (p = <<>> <=> n = 0) /\ (q = <<>> <=> n = Len(b))
  <2>1. \A t \in Seq(S) : t = <<>> <=> Len(t) = 0
    BY EmptySeq
  <2> QED
    BY <1>1, <1>5, <2>1
<1> QED
  BY <1>3, <1>4, <1>6, <1>7 DEF p, q

\* The bytes of a message.
LEMMA MessageBytes ==
  ASSUME NEW m \in Messages
  PROVE  /\ Bytes(m) \in Seq(Messages \X Nat) /\ Len(Bytes(m)) = Size[m]
         /\ Size[m] \in Nat \ {0}
<1>1. Size[m] \in Nat \ {0}
  BY TcpConnectionAssumption
<1>2. \A i \in 1..Size[m] : <<m, i>> \in Messages \X Nat
  BY <1>1
<1>3. Bytes(m) \in [1..Size[m] -> Messages \X Nat]
  BY <1>2 DEF Bytes
<1>4. Bytes(m) \in Seq(Messages \X Nat)
  BY <1>1, <1>3, IsASeq
<1> QED
  BY <1>1, <1>3, <1>4, LenProperties

\* write() of n bytes fails or writes at most n of them.
LEMMA Written ==
  ASSUME NEW n \in Nat, NEW k \in WriteResults(n)
  PROVE  k = Fault \/ (k \in 0..n /\ ~wrShut /\ peer # "rst")
BY DEF WriteResults, Fault

\* The user's callbacks that sendInLoop and handleWrite queue: at most one.
LEMMA QueuesCallback ==
  ASSUME TypesInv, NEW n, pendingFunctors_' = pendingFunctors_ \o SendCallbacks(n)
  PROVE  \/ UNCHANGED pendingFunctors_
         \/ \E h \in UserCallbacks : pendingFunctors_' = Append(pendingFunctors_, h)
<1>1. pendingFunctors_ \in Seq(Functors)
  BY DEF TypesInv, ConnTypes, LoopTypes, SockTypes
<1>2. SendCallbacks(n) = <<>> \/ \E h \in UserCallbacks : SendCallbacks(n) = <<h>>
  BY DEF SendCallbacks, UserCallbacks
<1>3. pendingFunctors_ \o <<>> = pendingFunctors_
  BY <1>1, ConcatEmptySeq
<1>4. \A h \in UserCallbacks : pendingFunctors_ \o <<h>> = Append(pendingFunctors_, h)
  BY <1>1, FunctorKinds, AppendIsConcat
<1> QED
  BY <1>2, <1>3, <1>4

\* Asking for EPOLLOUT, and no longer asking for it.
LEMMA WriteInterestSet ==
  ASSUME NEW ch \in Channels
  PROVE  /\ IsWriting(EnableWriting(ch)) /\ ~IsWriting(DisableWriting(ch))
         /\ EnableWriting(ch).events = ch.events \cup {"W"}
         /\ DisableWriting(ch).events = ch.events \ {"W"}
         /\ DisableAll(ch).events = {} /\ ~IsWriting(DisableAll(ch))
         /\ RemoveChannel(ch).events = ch.events
         /\ EnableReading(ch).events = ch.events \cup {"R"}
<1>1. ASSUME NEW x \in Channels PROVE UpdateChannel(x).events = x.events
  BY DEF UpdateChannel, EpollAdd, EpollMod, EpollDel, Channels
<1>2. /\ [ch EXCEPT !.events = @ \cup {"R"}] \in Channels
      /\ [ch EXCEPT !.events = @ \cup {"W"}] \in Channels
      /\ [ch EXCEPT !.events = @ \ {"W"}] \in Channels
      /\ [ch EXCEPT !.events = {}] \in Channels
      /\ [ch EXCEPT !.events = @ \cup {"R"}].events = ch.events \cup {"R"}
      /\ [ch EXCEPT !.events = @ \cup {"W"}].events = ch.events \cup {"W"}
      /\ [ch EXCEPT !.events = @ \ {"W"}].events = ch.events \ {"W"}
      /\ [ch EXCEPT !.events = {}].events = {}
  BY DEF Channels
<1>3. RemoveChannel(ch).events = ch.events
  BY DEF RemoveChannel, EpollDel, Channels
<1> QED
  BY <1>1, <1>2, <1>3
     DEF EnableReading, EnableWriting, DisableWriting, DisableAll, IsWriting

\* sendInLoop: what it does to the bytes, to the channel and to the loop's queue.
LEMMA Sends ==
  ASSUME TypesInv, NEW m \in Messages, SendInLoop(m)
  PROVE  /\ outputBuffer_' \in Seq(Messages \X Nat)
         /\ wire' \in Seq(Messages \X Nat) /\ soError' \in BOOLEAN
         /\ \/ UNCHANGED <<accepted, wire, outputBuffer_>>
            \/ /\ accepted' = Append(accepted, m)
               /\ wire' \o outputBuffer_' = (wire \o outputBuffer_) \o Bytes(m)
         /\ \/ chan' = chan
            \/ ~IsWriting(chan) /\ chan' = EnableWriting(chan)
         /\ (IsWriting(chan) <=> outputBuffer_ # <<>>)
              => (IsWriting(chan') <=> outputBuffer_' # <<>>)
         /\ wrShut /\ ~IsWriting(chan) /\ outputBuffer_ = <<>>
              => outputBuffer_' = <<>>
         /\ \/ UNCHANGED pendingFunctors_
            \/ \E h \in UserCallbacks : pendingFunctors_' = Append(pendingFunctors_, h)
         /\ state_ = "kDisconnected" =>
              UNCHANGED <<outputBuffer_, chan, pendingFunctors_>>
<1> DEFINE Out == Messages \X Nat
           all == Bytes(m)
<1>1. outputBuffer_ \in Seq(Out) /\ wire \in Seq(Out) /\ soError \in BOOLEAN
      /\ chan \in Channels
  BY DEF TypesInv, ConnTypes, LoopTypes, SockTypes
<1>2. all \in Seq(Out) /\ Len(all) = Size[m] /\ Size[m] \in Nat \ {0}
  BY MessageBytes
<1>3. CASE UNCHANGED <<outputBuffer_, chan, wire, soError, accepted, pendingFunctors_>>
  BY <1>1, <1>3
<1>4. CASE /\ soError' = FALSE
           /\ UNCHANGED <<outputBuffer_, chan, wire, accepted, pendingFunctors_>>
  BY <1>1, <1>4
<1>5. ASSUME NEW n \in IF WritesAtOnce THEN WriteResults(Size[m]) ELSE {0},
             n # Fault, state_ # "kDisconnected",
             wire' = wire \o SubSeq(all, 1, n),
             BufferRest(SubSeq(all, n + 1, Size[m])),
             accepted' = Append(accepted, m),
             pendingFunctors_' = pendingFunctors_ \o SendCallbacks(Size[m] - n),
             UNCHANGED soError
      PROVE  /\ outputBuffer_' \in Seq(Out)
             /\ wire' \in Seq(Out)
             /\ wire' \o outputBuffer_' = (wire \o outputBuffer_) \o all
             /\ \/ chan' = chan
                \/ ~IsWriting(chan) /\ chan' = EnableWriting(chan)
             /\ (IsWriting(chan) <=> outputBuffer_ # <<>>)
                  => (IsWriting(chan') <=> outputBuffer_' # <<>>)
             /\ ~(wrShut /\ ~IsWriting(chan) /\ outputBuffer_ = <<>>)
             /\ \/ UNCHANGED pendingFunctors_
                \/ \E h \in UserCallbacks :
                      pendingFunctors_' = Append(pendingFunctors_, h)
  <2>1. /\ n \in 0..Len(all) /\ (n # 0 => WritesAtOnce)
        /\ (WritesAtOnce => ~wrShut)
    <3>1. CASE WritesAtOnce
      <4>1. n \in WriteResults(Size[m]) /\ Size[m] \in Nat
        BY <1>2, <1>5, <3>1
      <4> QED
        BY <1>2, <1>5, <3>1, <4>1, Written
    <3>2. CASE ~WritesAtOnce
      BY <1>2, <1>5, <3>2
    <3> QED
      BY <3>1, <3>2
  <2> DEFINE first == SubSeq(all, 1, n)
             rest  == SubSeq(all, n + 1, Len(all))
  <2>2. /\ first \in Seq(Out) /\ rest \in Seq(Out) /\ first \o rest = all
        /\ (first = <<>> <=> n = 0) /\ (rest = <<>> <=> n = Len(all))
    BY <1>2, <2>1, Parts
  <2>3. /\ wire' = wire \o first /\ outputBuffer_' = outputBuffer_ \o rest
        /\ chan' = IF rest # <<>> /\ ~IsWriting(chan) THEN EnableWriting(chan) ELSE chan
    BY <1>2, <1>5 DEF BufferRest
  <2> HIDE DEF first, rest, all, Out
  <2>a. \A s, t \in Seq(Out) :
          /\ s \o t \in Seq(Out)
          /\ s \o <<>> = s /\ <<>> \o s = s
          /\ s \o t = <<>> <=> s = <<>> /\ t = <<>>
    BY ConcatProperties, ConcatEmptySeq, ConcatEqualIffEmpty
  <2>b. \A s, t, u \in Seq(Out) : (s \o t) \o u = s \o (t \o u)
    BY ConcatAssociative
  <2>4. n # 0 => outputBuffer_ = <<>>
    BY <2>1 DEF WritesAtOnce
  <2>5. wire' \in Seq(Out) /\ outputBuffer_' \in Seq(Out)
    BY <1>1, <2>2, <2>3, <2>a
  <2>6. wire' \o outputBuffer_' = (wire \o outputBuffer_) \o all
    <3>1. CASE n = 0
      <4>1. first = <<>> /\ rest = all
        BY <2>2, <2>a, <3>1
      <4>2. wire' = wire
        BY <1>1, <2>3, <2>a, <4>1
      <4>3. (wire \o outputBuffer_) \o rest = wire \o (outputBuffer_ \o rest)
        BY <1>1, <2>2, <2>b
      <4> QED
        BY <2>3, <4>1, <4>2, <4>3
    <3>2. CASE n # 0
      <4>1. outputBuffer_ = <<>> /\ outputBuffer_' = rest
        BY <2>2, <2>3, <2>4, <2>a, <3>2
      <4>2. wire \o outputBuffer_ = wire
        BY <1>1, <2>a, <4>1
      <4>3. (wire \o first) \o rest = wire \o (first \o rest)
        BY <1>1, <2>2, <2>b
      <4> QED
        BY <2>2, <2>3, <4>1, <4>2, <4>3
    <3> QED
      BY <3>1, <3>2
  <2>7. outputBuffer_' = <<>> <=> outputBuffer_ = <<>> /\ rest = <<>>
    BY <1>1, <2>2, <2>3, <2>a
  <2>8. chan' = chan \/ (~IsWriting(chan) /\ chan' = EnableWriting(chan))
    BY <2>3
  <2>9. (IsWriting(chan) <=> outputBuffer_ # <<>>)
          => (IsWriting(chan') <=> outputBuffer_' # <<>>)
    BY <1>1, <2>3, <2>7, WriteInterestSet
  <2>10. ~(wrShut /\ ~IsWriting(chan) /\ outputBuffer_ = <<>>)
    BY <2>1 DEF WritesAtOnce
  <2>11. \/ UNCHANGED pendingFunctors_
         \/ \E h \in UserCallbacks : pendingFunctors_' = Append(pendingFunctors_, h)
    BY <1>5, QueuesCallback
  <2> QED
    BY <2>5, <2>6, <2>8, <2>9, <2>10, <2>11
<1>6. CASE state_ # "kDisconnected" /\
           \E n \in IF WritesAtOnce THEN WriteResults(Size[m]) ELSE {0} :
             /\ n # Fault
             /\ wire' = wire \o SubSeq(all, 1, n)
             /\ BufferRest(SubSeq(all, n + 1, Size[m]))
             /\ accepted' = Append(accepted, m)
             /\ pendingFunctors_' = pendingFunctors_ \o SendCallbacks(Size[m] - n)
             /\ UNCHANGED soError
  BY <1>1, <1>5, <1>6
<1> QED
  BY <1>3, <1>4, <1>6 DEF SendInLoop

\* handleWrite: bytes go from the buffer to the kernel, and FIN only when none
\* is left.
LEMMA Drains ==
  ASSUME TypesInv, OnWrite
  PROVE  /\ outputBuffer_' \in Seq(Messages \X Nat)
         /\ wire' \in Seq(Messages \X Nat) /\ wrShut' \in BOOLEAN
         /\ wire' \o outputBuffer_' = wire \o outputBuffer_
         /\ chan' = IF outputBuffer_' = <<>> THEN DisableWriting(chan) ELSE chan
         /\ IsWriting(chan) /\ ~wrShut /\ outputBuffer_ # <<>>
         /\ wrShut' => outputBuffer_' = <<>>
         /\ \/ UNCHANGED pendingFunctors_
            \/ \E h \in UserCallbacks : pendingFunctors_' = Append(pendingFunctors_, h)
<1> DEFINE Out == Messages \X Nat
<1>1. outputBuffer_ \in Seq(Out) /\ wire \in Seq(Out) /\ wrShut \in BOOLEAN
  BY DEF TypesInv, ConnTypes, LoopTypes, SockTypes
<1>2. PICK n \in WriteResults(Len(outputBuffer_)) \ {0, Fault} :
        /\ wire' = wire \o SubSeq(outputBuffer_, 1, n)
        /\ outputBuffer_' = SubSeq(outputBuffer_, n + 1, Len(outputBuffer_))
        /\ IF outputBuffer_' = <<>>
           THEN /\ chan' = DisableWriting(chan)
                /\ pendingFunctors_' = pendingFunctors_ \o SendCallbacks(0)
                /\ FinWhenDrained(chan')
           ELSE UNCHANGED <<chan, pendingFunctors_, wrShut>>
  BY DEF OnWrite, Retrieve
<1>3. Len(outputBuffer_) \in Nat
  BY <1>1, LenProperties
<1>4. n \in 1..Len(outputBuffer_) /\ ~wrShut
  BY <1>2, <1>3, Written
<1> DEFINE first == SubSeq(outputBuffer_, 1, n)
           rest  == SubSeq(outputBuffer_, n + 1, Len(outputBuffer_))
<1>5. first \in Seq(Out) /\ rest \in Seq(Out) /\ first \o rest = outputBuffer_
  <2>1. n \in 0..Len(outputBuffer_)
    BY <1>4
  <2> QED
    BY <1>1, <2>1, Parts
<1>6. outputBuffer_ # <<>>
  BY <1>4
<1>7. wire' = wire \o first /\ outputBuffer_' = rest
  BY <1>2
<1> HIDE DEF first, rest, Out
<1>8. wire' \o outputBuffer_' = wire \o outputBuffer_
  <2>1. \A s, t, u \in Seq(Out) : (s \o t) \o u = s \o (t \o u)
    BY ConcatAssociative
  <2>2. (wire \o first) \o rest = wire \o (first \o rest)
    BY <1>1, <1>5, <2>1
  <2> QED
    BY <1>5, <1>7, <2>2, SMTT(30)
<1>9. wire' \in Seq(Out) /\ outputBuffer_' \in Seq(Out)
  <2>1. \A s, t \in Seq(Out) : s \o t \in Seq(Out)
    BY ConcatProperties
  <2> QED
    BY <1>1, <1>5, <1>7, <2>1
<1>10. wrShut' \in BOOLEAN /\ (wrShut' => outputBuffer_' = <<>>)
  BY <1>1, <1>2, <1>4 DEF FinWhenDrained, ShutdownInLoop
<1>11. \/ UNCHANGED pendingFunctors_
       \/ \E h \in UserCallbacks : pendingFunctors_' = Append(pendingFunctors_, h)
  <2>1. CASE outputBuffer_' = <<>>
    BY <1>2, <2>1, QueuesCallback
  <2>2. CASE outputBuffer_' # <<>>
    BY <1>2, <2>2
  <2> QED
    BY <2>1, <2>2
<1>12. chan' = IF outputBuffer_' = <<>> THEN DisableWriting(chan) ELSE chan
  BY <1>2
<1>13. IsWriting(chan)
  BY DEF OnWrite
<1> QED
  BY <1>4, <1>6, <1>8, <1>9, <1>10, <1>11, <1>12, <1>13 DEF Out

\* The steps of the connection, one by one.
LEMMA StepKinds ==
  ASSUME [CNext]_cVars
  PROVE  \/ NewConnection \/ RemoveConnectionInLoop \/ DestroyServer
         \/ IoLoopExits \/ MainLoopDestroyed
         \/ DataArrives \/ PeerCloses \/ PeerResets
         \/ \E writable \in BOOLEAN : Event(writable)
         \/ OnClose \/ OnError \/ OnReadData \/ OnReadError \/ OnReadEof
         \/ OnWrite \/ OnWriteNothing \/ SwapFunctors \/ EndFunctors
         \/ ConnectEstablished \/ ConnectDestroyed \/ RunSendInLoop
         \/ RunShutdownInLoop \/ RunUserCallback \/ CallbackReturns
         \/ \E m \in Messages : CallbackSends(m)
         \/ CallbackShutsDown
         \/ \E u \in Users :
              \/ CallbackShares(u) \/ \E m \in Messages : SendTests(u, m)
              \/ ShutdownTests(u) \/ SendQueues(u) \/ ShutdownStores(u)
              \/ ShutdownQueues(u) \/ Releases(u)
         \/ Destroy \/ UNCHANGED cVars
BY DEF CNext, IoStep, UserStarts, UserGoesOn

\* Which steps change a variable.
LEMMA Writers ==
  ASSUME [CNext]_cVars
  PROVE  /\ \/ UNCHANGED life \/ NewConnection \/ Destroy
         /\ \/ UNCHANGED state_ \/ OnClose \/ OnReadEof
            \/ ConnectEstablished \/ ConnectDestroyed \/ CallbackShutsDown
            \/ \E u \in Users : ShutdownStores(u)
         /\ \/ UNCHANGED chan \/ IoLoopExits \/ OnClose \/ OnReadEof \/ OnWrite
            \/ ConnectEstablished \/ ConnectDestroyed \/ RunSendInLoop
            \/ (\E m \in Messages : CallbackSends(m)) \/ Destroy
         /\ \/ UNCHANGED <<outputBuffer_, wire, accepted>> \/ OnWrite \/ RunSendInLoop
            \/ \E m \in Messages : CallbackSends(m)
         /\ \/ UNCHANGED lpc \/ IoLoopExits \/ SwapFunctors \/ EndFunctors
            \/ \E writable \in BOOLEAN : Event(writable)
         /\ \/ UNCHANGED batchHolds \/ EndFunctors \/ ConnectEstablished
            \/ ConnectDestroyed \/ RunSendInLoop \/ RunShutdownInLoop \/ RunUserCallback
         /\ \/ UNCHANGED todo \/ OnClose \/ OnError \/ OnReadData \/ OnReadError
            \/ OnReadEof \/ OnWrite \/ OnWriteNothing
            \/ \E writable \in BOOLEAN : Event(writable)
         /\ \/ UNCHANGED inCallback \/ OnReadData \/ ConnectEstablished
            \/ RunUserCallback \/ CallbackReturns
         /\ \/ UNCHANGED connections_ \/ NewConnection \/ RemoveConnectionInLoop
            \/ DestroyServer
         /\ \/ UNCHANGED mainq \/ RemoveConnectionInLoop \/ MainLoopDestroyed
            \/ OnClose \/ OnReadEof
         /\ UNCHANGED server \/ DestroyServer
         /\ \/ UNCHANGED wrShut \/ OnWrite \/ RunShutdownInLoop \/ CallbackShutsDown
         /\ \/ UNCHANGED cbs \/ OnClose \/ OnReadEof \/ ConnectEstablished
            \/ ConnectDestroyed
         /\ UNCHANGED destroyedRuns \/ ConnectDestroyed
         /\ \/ UNCHANGED <<upc, buf>>
            \/ \E u \in Users :
                  \/ CallbackShares(u) \/ \E m \in Messages : SendTests(u, m)
                  \/ ShutdownTests(u) \/ SendQueues(u) \/ ShutdownStores(u)
                  \/ ShutdownQueues(u) \/ Releases(u)
         /\ \/ UNCHANGED sent \/ (\E m \in Messages : CallbackSends(m))
            \/ \E u \in Users, m \in Messages : SendTests(u, m)
<1> USE DEF connVars, loopVars, serverVars, sockVars, userVars, history,
            eventRest, runRest, queueRest, Running, Calling, cVars,
            NewConnection, RemoveConnectionInLoop, DestroyServer, IoLoopExits,
            MainLoopDestroyed, DataArrives, PeerCloses, PeerResets, Event,
            OnClose, OnError, OnReadData, OnReadError, OnReadEof, OnWrite,
            OnWriteNothing, SwapFunctors, EndFunctors, ConnectEstablished,
            ConnectDestroyed, RunSendInLoop, RunShutdownInLoop, RunUserCallback,
            CallbackReturns, CallbackSends, CallbackShutsDown, CallbackShares,
            SendTests, ShutdownTests, SendQueues, ShutdownStores,
            ShutdownQueues, Releases, Destroy
<1>1. \/ UNCHANGED life \/ NewConnection \/ Destroy
  BY StepKinds
<1>2. \/ UNCHANGED state_ \/ OnClose \/ OnReadEof
      \/ ConnectEstablished \/ ConnectDestroyed \/ CallbackShutsDown
      \/ \E u \in Users : ShutdownStores(u)
  BY StepKinds
<1>3. \/ UNCHANGED chan \/ IoLoopExits \/ OnClose \/ OnReadEof \/ OnWrite
      \/ ConnectEstablished \/ ConnectDestroyed \/ RunSendInLoop
      \/ (\E m \in Messages : CallbackSends(m)) \/ Destroy
  BY StepKinds
<1>4. \/ UNCHANGED <<outputBuffer_, wire, accepted>> \/ OnWrite \/ RunSendInLoop
      \/ \E m \in Messages : CallbackSends(m)
  BY StepKinds
<1>5. \/ UNCHANGED lpc \/ IoLoopExits \/ SwapFunctors \/ EndFunctors
      \/ \E writable \in BOOLEAN : Event(writable)
  BY StepKinds
<1>6. \/ UNCHANGED batchHolds \/ EndFunctors \/ ConnectEstablished
      \/ ConnectDestroyed \/ RunSendInLoop \/ RunShutdownInLoop \/ RunUserCallback
  BY StepKinds
<1>7. \/ UNCHANGED todo \/ OnClose \/ OnError \/ OnReadData \/ OnReadError
      \/ OnReadEof \/ OnWrite \/ OnWriteNothing
      \/ \E writable \in BOOLEAN : Event(writable)
  BY StepKinds
<1>8. \/ UNCHANGED inCallback \/ OnReadData \/ ConnectEstablished
      \/ RunUserCallback \/ CallbackReturns
  BY StepKinds
<1>9. \/ UNCHANGED connections_ \/ NewConnection \/ RemoveConnectionInLoop
      \/ DestroyServer
  BY StepKinds
<1>10. \/ UNCHANGED mainq \/ RemoveConnectionInLoop \/ MainLoopDestroyed
       \/ OnClose \/ OnReadEof
  BY StepKinds
<1>11. UNCHANGED server \/ DestroyServer
  BY StepKinds
<1>12. \/ UNCHANGED wrShut \/ OnWrite \/ RunShutdownInLoop \/ CallbackShutsDown
  BY StepKinds
<1>13. \/ UNCHANGED cbs \/ OnClose \/ OnReadEof \/ ConnectEstablished
       \/ ConnectDestroyed
  BY StepKinds
<1>14. UNCHANGED destroyedRuns \/ ConnectDestroyed
  BY StepKinds
<1>15. \/ UNCHANGED <<upc, buf>>
       \/ \E u \in Users :
              \/ CallbackShares(u) \/ \E m \in Messages : SendTests(u, m)
              \/ ShutdownTests(u) \/ SendQueues(u) \/ ShutdownStores(u)
              \/ ShutdownQueues(u) \/ Releases(u)
  BY StepKinds
<1>16. \/ UNCHANGED sent \/ (\E m \in Messages : CallbackSends(m))
       \/ \E u \in Users, m \in Messages : SendTests(u, m)
  BY StepKinds
<1> QED
  BY <1>1, <1>2, <1>3, <1>4, <1>5, <1>6, <1>7, <1>8, <1>9, <1>10, <1>11, <1>12, <1>13, <1>14, <1>15, <1>16
----------------------------------------------------------------------------
(* Each step preserves the types.                                          *)

\* Variables that keep their values keep their types.
LEMMA TypesKept ==
  ASSUME TypesInv
  PROVE  /\ ConnTypes /\ LoopTypes /\ ServerTypes /\ SockTypes /\ UserTypes /\ CallTypes
         /\ UNCHANGED connVars => ConnTypes'
         /\ UNCHANGED loopVars => LoopTypes'
         /\ UNCHANGED serverVars => ServerTypes'
         /\ UNCHANGED sockVars => SockTypes'
         /\ UNCHANGED userVars => UserTypes'
         /\ UNCHANGED history => CallTypes'
<1>1. ConnTypes /\ LoopTypes /\ ServerTypes /\ SockTypes /\ UserTypes /\ CallTypes
  BY DEF TypesInv
<1>2. UNCHANGED connVars => ConnTypes'
  BY <1>1 DEF ConnTypes, connVars
<1>3. UNCHANGED loopVars => LoopTypes'
  BY <1>1 DEF LoopTypes, loopVars
<1>4. UNCHANGED serverVars => ServerTypes'
  BY <1>1 DEF ServerTypes, serverVars
<1>5. UNCHANGED sockVars => SockTypes'
  BY <1>1 DEF SockTypes, sockVars
<1>6. UNCHANGED userVars => UserTypes'
  BY <1>1 DEF UserTypes, userVars
<1>7. UNCHANGED history => CallTypes'
  BY <1>1 DEF CallTypes, history
<1> QED
  BY <1>1, <1>2, <1>3, <1>4, <1>5, <1>6, <1>7

\* push_back of a functor (queueInLoop), on either thread.
LEMMA QueuesTypes ==
  ASSUME TypesInv, UNCHANGED queueRest, NEW h \in Functors,
         pendingFunctors_' = Append(pendingFunctors_, h)
  PROVE  LoopTypes'
<1>1. functors' = functors
  BY DEF queueRest
<1> QED
  BY <1>1, Queues, TypesKept DEF LoopTypes, queueRest

\* What handleClose sets.
LEMMA ClosesTypes ==
  ASSUME TypesInv, HandleClose
  PROVE  /\ state_' \in States /\ chan' \in Channels /\ mainq' \in Nat
         /\ cbs' \in Seq({"UP", "DOWN"})
<1>1. cbs' \in Seq({"UP", "DOWN"})
  BY AppendProperties, TypesKept DEF HandleClose, CallTypes
<1> QED
  BY <1>1, ChannelTypes, TypesKept DEF HandleClose, ConnTypes, ServerTypes, States

\* Taking a functor from the batch.
LEMMA RunningTypes ==
  ASSUME TypesInv, NEW fn, Running(fn)
  PROVE  /\ functors' \in Seq(Functors) /\ batchHolds' \in BOOLEAN
         /\ functors # <<>> /\ functors' = Tail(functors)
         /\ Head(functors).fn = fn /\ Head(functors) \in Functors
         /\ ~chan.aborted /\ lpc = "run" /\ ~inCallback
<1>1. functors # <<>> /\ functors' = Tail(functors) /\ functors \in Seq(Functors)
  BY TypesKept DEF Running, LoopTypes
<1>2. functors' \in Seq(Functors) /\ Head(functors) \in Functors
  BY <1>1, HeadTailProperties
<1>3. batchHolds' \in BOOLEAN
  BY TypesKept DEF Running, LoopTypes
<1> QED
  BY <1>1, <1>2, <1>3 DEF Running

\* What sendInLoop sets.
LEMMA SendsTypes ==
  ASSUME TypesInv, NEW m \in Messages, SendInLoop(m)
  PROVE  /\ outputBuffer_' \in Seq(Messages \X Nat) /\ chan' \in Channels
         /\ wire' \in Seq(Messages \X Nat) /\ soError' \in BOOLEAN
         /\ pendingFunctors_' \in Seq(Functors)
<1>1. \A h \in UserCallbacks : Append(pendingFunctors_, h) \in Seq(Functors)
  BY FunctorKinds, AppendProperties, TypesKept DEF LoopTypes
<1>2. pendingFunctors_' \in Seq(Functors)
  BY <1>1, Sends, TypesKept DEF LoopTypes
<1>3. chan' \in Channels
  BY Sends, ChannelTypes, TypesKept DEF ConnTypes
<1> QED
  BY <1>2, <1>3, Sends

\* No step changes the type of a variable.
LEMMA TypesStep ==
  ASSUME TypesInv, SentInv, [CNext]_cVars
  PROVE  TypesInv'
<1> USE TypesKept
<1>1. CASE NewConnection
  <2>1. LoopTypes'
    BY <1>1, FunctorKinds, QueuesTypes DEF NewConnection, Established
  <2>2. ConnTypes' /\ ServerTypes'
    BY <1>1 DEF NewConnection, ConnTypes, ServerTypes
  <2> QED
    BY <1>1, <2>1, <2>2 DEF NewConnection, TypesInv
<1>2. CASE RemoveConnectionInLoop
  <2>1. LoopTypes'
    BY <1>2, FunctorKinds, QueuesTypes DEF RemoveConnectionInLoop, Destroyed
  <2>2. ServerTypes'
    <3>1. mainq' \in Nat
      BY <1>2 DEF RemoveConnectionInLoop, RemovalQueued, ServerTypes
    <3> QED
      BY <1>2, <3>1 DEF RemoveConnectionInLoop, EraseEntry, ServerTypes
  <2> QED
    BY <1>2, <2>1, <2>2 DEF RemoveConnectionInLoop, TypesInv
<1>3. CASE DestroyServer
  <2>1. LoopTypes'
    <3>1. CASE connections_
      BY <1>3, <3>1, FunctorKinds, QueuesTypes DEF DestroyServer, Destroyed
    <3>2. CASE ~connections_
      BY <1>3, <3>2 DEF DestroyServer, loopVars, queueRest
    <3> QED
      BY <3>1, <3>2
  <2>2. ServerTypes'
    BY <1>3 DEF DestroyServer, ServerTypes
  <2> QED
    BY <1>3, <2>1, <2>2 DEF DestroyServer, TypesInv
<1>4. CASE IoLoopExits
  <2>1. LoopTypes'
    BY <1>4, EmptySeq DEF IoLoopExits, LoopTypes
  <2>2. ConnTypes'
    BY <1>4 DEF IoLoopExits, ConnTypes, Channels
  <2> QED
    BY <1>4, <2>1, <2>2 DEF IoLoopExits, TypesInv
<1>5. CASE MainLoopDestroyed
  <2>1. ServerTypes'
    BY <1>5 DEF MainLoopDestroyed, ServerTypes
  <2> QED
    BY <1>5, <2>1 DEF MainLoopDestroyed, TypesInv
<1>6. CASE DataArrives \/ PeerCloses \/ PeerResets
  <2>1. arrivals' \in 0..MaxArrivals
    BY <1>6, TcpConnectionAssumption DEF DataArrives, PeerCloses, PeerResets, SockTypes
  <2>2. SockTypes'
    BY <1>6, <2>1 DEF DataArrives, PeerCloses, PeerResets, SockTypes
  <2> QED
    BY <1>6, <2>2 DEF DataArrives, PeerCloses, PeerResets, TypesInv
<1>7. ASSUME NEW writable \in BOOLEAN, Event(writable) PROVE TypesInv'
  <2>1. LoopTypes'
    BY <1>7 DEF Event, Reported, LoopTypes
  <2> QED
    BY <1>7, <2>1 DEF Event, TypesInv
<1>8. CASE OnClose \/ OnReadEof
  <2>1. HandleClose
    BY <1>8 DEF OnClose, OnReadEof
  <2>2. ConnTypes' /\ ServerTypes' /\ CallTypes'
    BY <1>8, <2>1, ClosesTypes
       DEF OnClose, OnReadEof, ConnTypes, ServerTypes, CallTypes
  <2>3. LoopTypes'
    BY <1>8 DEF OnClose, OnReadEof, Calling, eventRest, LoopTypes
  <2> QED
    BY <1>8, <2>2, <2>3 DEF OnClose, OnReadEof, TypesInv
<1>9. CASE OnError \/ OnReadError \/ OnWriteNothing
  <2>1. LoopTypes'
    BY <1>9 DEF OnError, OnReadError, OnWriteNothing, Calling, eventRest, LoopTypes
  <2>2. SockTypes'
    BY <1>9 DEF OnError, OnReadError, OnWriteNothing, SockTypes
  <2> QED
    BY <1>9, <2>1, <2>2 DEF OnError, OnReadError, OnWriteNothing, TypesInv
<1>10. CASE OnReadData
  <2>1. LoopTypes'
    BY <1>10 DEF OnReadData, Calling, LoopTypes
  <2>2. SockTypes'
    BY <1>10 DEF OnReadData, SockTypes
  <2> QED
    BY <1>10, <2>1, <2>2 DEF OnReadData, TypesInv
<1>11. CASE OnWrite
  <2>1. pendingFunctors_' \in Seq(Functors)
    <3>1. \A h \in UserCallbacks : Append(pendingFunctors_, h) \in Seq(Functors)
      BY FunctorKinds, AppendProperties DEF LoopTypes
    <3> QED
      BY <1>11, <3>1, Drains DEF LoopTypes
  <2>2. chan' \in Channels
    BY <1>11, Drains, ChannelTypes DEF ConnTypes
  <2>3. LoopTypes'
    BY <1>11, <2>1 DEF OnWrite, Calling, LoopTypes
  <2>4. ConnTypes' /\ SockTypes'
    BY <1>11, <2>2, Drains DEF OnWrite, ConnTypes, SockTypes
  <2> QED
    BY <1>11, <2>3, <2>4 DEF OnWrite, TypesInv
<1>12. CASE SwapFunctors \/ EndFunctors
  <2>1. LoopTypes'
    BY <1>12, EmptySeq DEF SwapFunctors, EndFunctors, LoopTypes
  <2> QED
    BY <1>12, <2>1 DEF SwapFunctors, EndFunctors, TypesInv
<1>13. CASE ConnectEstablished
  <2>1. CallTypes'
    BY <1>13, AppendProperties DEF ConnectEstablished, CallTypes
  <2>2. LoopTypes'
    BY <1>13, RunningTypes DEF ConnectEstablished, LoopTypes, runRest
  <2>3. ConnTypes'
    BY <1>13, ChannelTypes DEF ConnectEstablished, ConnTypes, States
  <2> QED
    BY <1>13, <2>1, <2>2, <2>3 DEF ConnectEstablished, TypesInv
<1>14. CASE ConnectDestroyed
  <2>1. CallTypes'
    BY <1>14, AppendProperties DEF ConnectDestroyed, CallTypes
  <2>2. LoopTypes'
    BY <1>14, RunningTypes DEF ConnectDestroyed, LoopTypes, runRest
  <2>3. ConnTypes'
    BY <1>14, ChannelTypes DEF ConnectDestroyed, ConnTypes, States
  <2> QED
    BY <1>14, <2>1, <2>2, <2>3 DEF ConnectDestroyed, TypesInv
<1>15. CASE RunSendInLoop
  <2>1. Head(functors).msg \in Messages /\ SendInLoop(Head(functors).msg)
    BY <1>15, FunctorKinds, RunningTypes DEF RunSendInLoop
  <2>2. LoopTypes'
    BY <1>15, <2>1, SendsTypes, RunningTypes DEF RunSendInLoop, LoopTypes
  <2>3. ConnTypes' /\ SockTypes'
    BY <1>15, <2>1, SendsTypes DEF RunSendInLoop, ConnTypes, SockTypes
  <2>4. CallTypes'
    BY <1>15 DEF RunSendInLoop, CallTypes
  <2> QED
    BY <1>15, <2>2, <2>3, <2>4 DEF RunSendInLoop, TypesInv
<1>16. CASE RunShutdownInLoop
  <2>1. LoopTypes'
    BY <1>16, RunningTypes DEF RunShutdownInLoop, LoopTypes, runRest
  <2>2. SockTypes'
    BY <1>16 DEF RunShutdownInLoop, ShutdownInLoop, SockTypes
  <2> QED
    BY <1>16, <2>1, <2>2 DEF RunShutdownInLoop, TypesInv
<1>17. CASE RunUserCallback
  <2>1. LoopTypes'
    BY <1>17, RunningTypes DEF RunUserCallback, LoopTypes, runRest
  <2> QED
    BY <1>17, <2>1 DEF RunUserCallback, TypesInv
<1>18. CASE CallbackReturns
  <2>1. LoopTypes'
    BY <1>18 DEF CallbackReturns, LoopTypes, runRest
  <2> QED
    BY <1>18, <2>1 DEF CallbackReturns, TypesInv
<1>19. ASSUME NEW m \in Messages, CallbackSends(m) PROVE TypesInv'
  <2>1. SendInLoop(m)
    BY <1>19 DEF CallbackSends
  <2>2. LoopTypes'
    BY <1>19, <2>1, SendsTypes DEF CallbackSends, LoopTypes, queueRest
  <2>3. ConnTypes' /\ SockTypes'
    BY <1>19, <2>1, SendsTypes DEF CallbackSends, ConnTypes, SockTypes
  <2>4. CallTypes' /\ UserTypes'
    BY <1>19 DEF CallbackSends, CallTypes, UserTypes
  <2> QED
    BY <1>19, <2>2, <2>3, <2>4 DEF CallbackSends, TypesInv
<1>20. CASE CallbackShutsDown
  <2>1. ConnTypes' /\ SockTypes'
    BY <1>20 DEF CallbackShutsDown, ShutdownInLoop, ConnTypes, SockTypes, States
  <2> QED
    BY <1>20, <2>1 DEF CallbackShutsDown, TypesInv
<1>21. ASSUME NEW u \in Users,
              \/ CallbackShares(u) \/ \E m \in Messages : SendTests(u, m)
              \/ ShutdownTests(u) \/ Releases(u)
       PROVE  TypesInv'
  <2>1. UserTypes'
    BY <1>21 DEF CallbackShares, SendTests, ShutdownTests, Releases, UserTypes, UserPc
  <2> QED
    BY <1>21, <2>1 DEF CallbackShares, SendTests, ShutdownTests, Releases, TypesInv
<1>22. ASSUME NEW u \in Users, ShutdownStores(u) PROVE TypesInv'
  <2>1. UserTypes' /\ ConnTypes'
    BY <1>22 DEF ShutdownStores, UserTypes, UserPc, ConnTypes, States
  <2> QED
    BY <1>22, <2>1 DEF ShutdownStores, TypesInv
<1>23. ASSUME NEW u \in Users, SendQueues(u) PROVE TypesInv'
  <2>1. buf[u] \in Messages
    BY <1>23 DEF SendQueues, SentInv, UserTypes
  <2>2. LoopTypes'
    BY <1>23, <2>1, FunctorKinds, QueuesTypes DEF SendQueues
  <2>3. UserTypes'
    BY <1>23 DEF SendQueues, UserTypes, UserPc
  <2> QED
    BY <1>23, <2>2, <2>3 DEF SendQueues, TypesInv
<1>24. ASSUME NEW u \in Users, ShutdownQueues(u) PROVE TypesInv'
  <2>1. LoopTypes'
    BY <1>24, FunctorKinds, QueuesTypes DEF ShutdownQueues
  <2>2. UserTypes'
    BY <1>24 DEF ShutdownQueues, UserTypes, UserPc
  <2> QED
    BY <1>24, <2>1, <2>2 DEF ShutdownQueues, TypesInv
<1>25. CASE Destroy
  <2>1. ConnTypes'
    BY <1>25 DEF Destroy, ConnTypes, Channels
  <2> QED
    BY <1>25, <2>1 DEF Destroy, TypesInv
<1>26. CASE UNCHANGED cVars
  BY <1>26 DEF cVars, TypesInv
<1> QED
  BY <1>1, <1>2, <1>3, <1>4, <1>5, <1>6, <1>7, <1>8, <1>9, <1>10, <1>11, <1>12, <1>13,
     <1>14, <1>15, <1>16, <1>17, <1>18, <1>19, <1>20, <1>21, <1>22, <1>23, <1>24,
     <1>25, <1>26, StepKinds
----------------------------------------------------------------------------
(* What a step does to the functors that wait.                             *)

\* A step that queues nothing but a user's callback: no more functors wait.
Fewer == ToSet(Queued') \subseteq ToSet(Queued) \cup UserCallbacks

\* While neither vector changes, nothing new waits.
LEMMA QuietQueue ==
  ASSUME UNCHANGED <<functors, pendingFunctors_>>
  PROVE  Queued' = Queued /\ Fewer
BY DEF Queued, Fewer

\* Running a functor takes it out of the queue.
LEMMA RunFewer ==
  ASSUME TypesInv, NEW fn, Running(fn),
         \/ UNCHANGED pendingFunctors_
         \/ \E h \in UserCallbacks : pendingFunctors_' = Append(pendingFunctors_, h)
  PROVE  /\ Fewer /\ Head(functors) \in ToSet(Queued)
         /\ Head(Queued) = Head(functors) /\ Queued # <<>>
<1>1. functors # <<>> /\ functors' = Tail(functors)
  BY DEF Running
<1>2. CASE UNCHANGED pendingFunctors_
  BY <1>1, <1>2, Runs DEF Fewer
<1>3. CASE \E h \in UserCallbacks : pendingFunctors_' = Append(pendingFunctors_, h)
  <2>1. PICK h \in UserCallbacks : pendingFunctors_' = Append(pendingFunctors_, h)
    BY <1>3
  <2>2. h \in Functors
    BY FunctorKinds
  <2>3. /\ ToSet(Queued') = ToSet(Tail(Queued)) \cup {h}
        /\ ToSet(Queued) = ToSet(Tail(Queued)) \cup {Head(functors)}
        /\ Head(Queued) = Head(functors) /\ Queued # <<>>
    BY <1>1, <2>1, <2>2, RunsAndQueues
  <2> QED
    BY <2>3 DEF Fewer
<1> QED
  BY <1>2, <1>3

\* Queueing a user's callback.
LEMMA CallbackFewer ==
  ASSUME TypesInv, UNCHANGED functors,
         \/ UNCHANGED pendingFunctors_
         \/ \E h \in UserCallbacks : pendingFunctors_' = Append(pendingFunctors_, h)
  PROVE  Fewer
<1>1. CASE UNCHANGED pendingFunctors_
  BY <1>1, QuietQueue
<1>2. CASE \E h \in UserCallbacks : pendingFunctors_' = Append(pendingFunctors_, h)
  BY <1>2, FunctorKinds, Queues DEF Fewer
<1> QED
  BY <1>1, <1>2

\* The loop takes its pending functors over, or drops them when it ends.
LEMMA LoopFewer ==
  ASSUME TypesInv, LoopInv, SwapFunctors \/ EndFunctors \/ IoLoopExits
  PROVE  /\ Fewer /\ ToSet(Queued') \subseteq ToSet(Queued)
         /\ SwapFunctors \/ EndFunctors => Queued' = Queued
         /\ IoLoopExits => Queued' = <<>>
<1>1. CASE SwapFunctors
  <2>1. functors = <<>>
    BY <1>1 DEF SwapFunctors, LoopInv
  <2>2. Queued' = Queued
    BY <1>1, <2>1, Swaps DEF SwapFunctors
  <2> QED
    BY <1>1, <2>2 DEF Fewer, SwapFunctors, IoLoopExits
<1>2. CASE EndFunctors
  BY <1>2, QuietQueue DEF EndFunctors, IoLoopExits
<1>3. CASE IoLoopExits
  <2>1. functors' = <<>> /\ pendingFunctors_' = <<>>
    BY <1>3 DEF IoLoopExits, LoopInv
  <2>2. Queued' = <<>>
    BY <2>1, EmptySeq, TwoQueues DEF Queued
  <2> QED
    BY <1>3, <2>2, EmptyQueue DEF Fewer, IoLoopExits, SwapFunctors, EndFunctors
<1> QED
  BY <1>1, <1>2, <1>3

\* What is queued otherwise, and by whom.
LEMMA WaitingStep ==
  ASSUME TypesInv, SentInv, LoopInv, [CNext]_cVars
  PROVE  \/ Fewer
         \/ /\ NewConnection
            /\ Queued' = Append(Queued, Established)
            /\ ToSet(Queued') = ToSet(Queued) \cup {Established}
         \/ /\ RemoveConnectionInLoop \/ (DestroyServer /\ connections_)
            /\ Queued' = Append(Queued, Destroyed)
            /\ ToSet(Queued') = ToSet(Queued) \cup {Destroyed}
         \/ \E u \in Users :
              /\ SendQueues(u) /\ buf[u] \in sent /\ buf[u] \in Messages
              /\ Queued' = Append(Queued, BoundSend(buf[u]))
              /\ ToSet(Queued') = ToSet(Queued) \cup {BoundSend(buf[u])}
         \/ \E u \in Users :
              /\ ShutdownQueues(u)
              /\ Queued' = Append(Queued, Bound("shutdownInLoop"))
              /\ ToSet(Queued') = ToSet(Queued) \cup {Bound("shutdownInLoop")}
<1> USE DEF loopVars, eventRest, runRest, queueRest
<1>1. CASE NewConnection
  BY <1>1, FunctorKinds, Queues DEF NewConnection, Established
<1>2. CASE RemoveConnectionInLoop
  BY <1>2, FunctorKinds, Queues DEF RemoveConnectionInLoop, Destroyed
<1>3. CASE DestroyServer /\ connections_
  BY <1>3, FunctorKinds, Queues DEF DestroyServer, Destroyed
<1>4. CASE DestroyServer /\ ~connections_
  BY <1>4, QuietQueue DEF DestroyServer
<1>5. ASSUME NEW u \in Users, SendQueues(u)
      PROVE  /\ buf[u] \in sent /\ buf[u] \in Messages
             /\ Queued' = Append(Queued, BoundSend(buf[u]))
             /\ ToSet(Queued') = ToSet(Queued) \cup {BoundSend(buf[u])}
  <2>1. buf[u] \in sent /\ buf[u] \in Messages
    BY <1>5, TypesKept DEF SendQueues, SentInv, UserTypes
  <2>2. BoundSend(buf[u]) \in Functors
    BY <2>1, FunctorKinds
  <2>3. functors' = functors /\ pendingFunctors_' = Append(pendingFunctors_, BoundSend(buf[u]))
    BY <1>5 DEF SendQueues
  <2> QED
    BY <2>1, <2>2, <2>3, Queues
<1>6. ASSUME NEW u \in Users, ShutdownQueues(u)
      PROVE  /\ Queued' = Append(Queued, Bound("shutdownInLoop"))
             /\ ToSet(Queued') = ToSet(Queued) \cup {Bound("shutdownInLoop")}
  BY <1>6, FunctorKinds, Queues DEF ShutdownQueues
<1>7. CASE IoLoopExits \/ SwapFunctors \/ EndFunctors
  BY <1>7, LoopFewer
<1>8. CASE MainLoopDestroyed \/ DataArrives \/ PeerCloses \/ PeerResets
  BY <1>8, QuietQueue DEF MainLoopDestroyed, DataArrives, PeerCloses, PeerResets
<1>9. ASSUME NEW writable \in BOOLEAN, Event(writable) PROVE Fewer
  BY <1>9, QuietQueue DEF Event
<1>10. CASE OnClose \/ OnReadEof \/ OnError \/ OnReadError \/ OnWriteNothing \/ OnReadData
  BY <1>10, QuietQueue DEF OnClose, OnReadEof, OnError, OnReadError, OnWriteNothing, OnReadData
<1>11. CASE OnWrite
  <2>1. UNCHANGED functors
    BY <1>11 DEF OnWrite
  <2> QED
    BY <1>11, <2>1, Drains, CallbackFewer
<1>12. CASE ConnectEstablished \/ ConnectDestroyed \/ RunShutdownInLoop \/ RunUserCallback
  <2>1. UNCHANGED pendingFunctors_ /\ \E fn \in {"connectEstablished", "connectDestroyed",
           "shutdownInLoop", "writeComplete", "highWaterMark"} : Running(fn)
    BY <1>12 DEF ConnectEstablished, ConnectDestroyed, RunShutdownInLoop, RunUserCallback
  <2> QED
    BY <2>1, RunFewer
<1>13. CASE RunSendInLoop
  <2>1. Running("sendInLoop") /\ SendInLoop(Head(functors).msg)
    BY <1>13 DEF RunSendInLoop
  <2>2. Head(functors).msg \in Messages
    BY <2>1, RunningTypes, FunctorKinds
  <2> QED
    BY <2>1, <2>2, Sends, RunFewer
<1>14. ASSUME NEW m \in Messages, CallbackSends(m) PROVE Fewer
  <2>1. SendInLoop(m) /\ UNCHANGED functors
    BY <1>14 DEF CallbackSends
  <2> QED
    BY <2>1, Sends, CallbackFewer
<1>15. CASE CallbackReturns \/ CallbackShutsDown
  BY <1>15, QuietQueue DEF CallbackReturns, CallbackShutsDown
<1>16. ASSUME NEW u \in Users,
              \/ CallbackShares(u) \/ \E m \in Messages : SendTests(u, m)
              \/ ShutdownTests(u) \/ ShutdownStores(u) \/ Releases(u)
       PROVE  Fewer
  BY <1>16, QuietQueue DEF CallbackShares, SendTests, ShutdownTests, ShutdownStores, Releases
<1>17. CASE Destroy
  BY <1>17, QuietQueue DEF Destroy
<1>18. CASE UNCHANGED cVars
  BY <1>18, QuietQueue DEF cVars
<1> QED
  BY <1>1, <1>2, <1>3, <1>4, <1>5, <1>6, <1>7, <1>8, <1>9, <1>10, <1>11, <1>12, <1>13,
     <1>14, <1>15, <1>16, <1>17, <1>18, StepKinds
----------------------------------------------------------------------------
(* Each step preserves SentInv and LoopInv.                                *)

\* What is accepted was passed to send(), by this step or before.
LEMMA SendsAccepted ==
  ASSUME TypesInv, SentInv, NEW m \in Messages, SendInLoop(m), m \in sent',
         sent \subseteq sent'
  PROVE  accepted' \in Seq(Messages) /\ ToSet(accepted') \subseteq sent'
<1>1. accepted' = accepted \/ accepted' = Append(accepted, m)
  BY Sends
<1>2. accepted \in Seq(Messages) /\ ToSet(accepted) \subseteq sent
  BY DEF SentInv
<1>3. /\ Append(accepted, m) \in Seq(Messages)
      /\ ToSet(Append(accepted, m)) = ToSet(accepted) \cup {m}
  BY <1>2, AppendToSet
<1> QED
  BY <1>1, <1>2, <1>3

\* Nothing is accepted, queued or in the hands of a user before its send().
LEMMA SentStep ==
  ASSUME TypesInv, SentInv, LoopInv, [CNext]_cVars
  PROVE  SentInv'
<1> USE TypesKept DEF userVars, history
<1>1. sent \subseteq sent'
  BY Writers DEF CallbackSends, SendTests
<1>2. accepted' \in Seq(Messages) /\ ToSet(accepted') \subseteq sent'
  <2>1. CASE RunSendInLoop
    <3>1. Running("sendInLoop") /\ SendInLoop(Head(functors).msg)
      BY <2>1 DEF RunSendInLoop
    <3>2. /\ Head(functors).msg \in Messages /\ Head(functors).fn = "sendInLoop"
          /\ Head(functors) \in ToSet(Queued)
      <4>1. Head(functors).msg \in Messages /\ Head(functors).fn = "sendInLoop"
        BY <3>1, RunningTypes, FunctorKinds
      <4> QED
        BY <3>1, <4>1, Sends, RunFewer
    <3> QED
      BY <1>1, <3>1, <3>2, SendsAccepted DEF SentInv
  <2>2. ASSUME NEW m \in Messages, CallbackSends(m)
        PROVE  accepted' \in Seq(Messages) /\ ToSet(accepted') \subseteq sent'
    <3>1. SendInLoop(m) /\ m \in sent'
      BY <2>2 DEF CallbackSends
    <3> QED
      BY <1>1, <3>1, SendsAccepted
  <2>3. CASE UNCHANGED accepted
    BY <1>1, <2>3 DEF SentInv
  <2>4. \/ RunSendInLoop \/ (\E m \in Messages : CallbackSends(m)) \/ UNCHANGED accepted
    BY Writers DEF OnWrite, history
  <2> QED
    BY <2>1, <2>2, <2>3, <2>4
<1>3. \A f \in ToSet(Queued') : f.fn = "sendInLoop" => f.msg \in sent'
  BY <1>1, WaitingStep, FunctorKinds DEF SentInv, Fewer
<1>4. \A u \in Users : upc'[u] = "sending" => buf'[u] \in sent'
  <2>1. CASE UNCHANGED <<upc, buf>>
    BY <1>1, <2>1 DEF SentInv
  <2>2. ASSUME NEW u \in Users,
               \/ CallbackShares(u) \/ \E m \in Messages : SendTests(u, m)
               \/ ShutdownTests(u) \/ SendQueues(u) \/ ShutdownStores(u)
               \/ ShutdownQueues(u) \/ Releases(u)
        PROVE  \A v \in Users : upc'[v] = "sending" => buf'[v] \in sent'
    BY <1>1, <2>2 DEF CallbackShares, SendTests, ShutdownTests, SendQueues,
       ShutdownStores, ShutdownQueues, Releases, SentInv, UserTypes
  <2> QED
    BY <2>1, <2>2, Writers
<1> QED
  BY <1>2, <1>3, <1>4 DEF SentInv

\* Every step of the loop leaves its batch, its round and its place in loop() together.
LEMMA LoopStep ==
  ASSUME TypesInv, LoopInv, [CNext]_cVars
  PROVE  LoopInv'
<1> USE DEF loopVars, serverVars, eventRest, runRest, queueRest
<1>1. CASE NewConnection \/ RemoveConnectionInLoop \/ MainLoopDestroyed
  BY <1>1 DEF NewConnection, RemoveConnectionInLoop, MainLoopDestroyed, LoopInv
<1>2. CASE DestroyServer
  BY <1>2 DEF DestroyServer, LoopInv
<1>3. CASE IoLoopExits
  BY <1>3 DEF IoLoopExits, LoopInv
<1>4. CASE DataArrives \/ PeerCloses \/ PeerResets \/ CallbackShutsDown \/ Destroy
  BY <1>4 DEF DataArrives, PeerCloses, PeerResets, CallbackShutsDown, Destroy, LoopInv
<1>5. ASSUME NEW writable \in BOOLEAN, Event(writable) PROVE LoopInv'
  BY <1>5 DEF Event, LoopInv
<1>6. CASE OnClose \/ OnReadEof
  BY <1>6 DEF OnClose, OnReadEof, Calling, LoopInv
<1>7. CASE OnError \/ OnReadError \/ OnWriteNothing
  BY <1>7 DEF OnError, OnReadError, OnWriteNothing, Calling, LoopInv
<1>8. CASE OnReadData \/ OnWrite
  BY <1>8 DEF OnReadData, OnWrite, Calling, LoopInv
<1>9. CASE SwapFunctors
  BY <1>9 DEF SwapFunctors, LoopInv
<1>10. CASE EndFunctors
  BY <1>10 DEF EndFunctors, LoopInv
<1>11. CASE ConnectEstablished \/ ConnectDestroyed
  BY <1>11 DEF ConnectEstablished, ConnectDestroyed, Running, LoopInv
<1>12. CASE RunSendInLoop \/ RunShutdownInLoop
  BY <1>12 DEF RunSendInLoop, RunShutdownInLoop, Running, LoopInv
<1>13. CASE RunUserCallback
  BY <1>13 DEF RunUserCallback, Running, LoopInv
<1>14. CASE CallbackReturns \/ \E m \in Messages : CallbackSends(m)
  BY <1>14 DEF CallbackReturns, CallbackSends, LoopInv
<1>15. ASSUME NEW u \in Users,
              \/ CallbackShares(u) \/ \E m \in Messages : SendTests(u, m)
              \/ ShutdownTests(u) \/ ShutdownStores(u) \/ Releases(u)
              \/ SendQueues(u) \/ ShutdownQueues(u)
       PROVE  LoopInv'
  BY <1>15 DEF CallbackShares, SendTests, ShutdownTests, ShutdownStores, Releases,
               SendQueues, ShutdownQueues, LoopInv
<1>16. CASE UNCHANGED cVars
  BY <1>16 DEF cVars, LoopInv
<1> QED
  BY <1>1, <1>2, <1>3, <1>4, <1>5, <1>6, <1>7, <1>8, <1>9, <1>10, <1>11, <1>12, <1>13,
     <1>14, <1>15, <1>16, StepKinds
----------------------------------------------------------------------------
(* Each step preserves EarlyInv, LifeInv and RawInv.                       *)

\* The queue of a connection on which connectEstablished has not run.
LEMMA EarlyQueues ==
  /\ <<Established>> # <<>> /\ Head(<<Established>>) = Established
  /\ <<Established, Destroyed>> # <<>> /\ <<Established, Destroyed>> # <<Established>>
  /\ Head(<<Established, Destroyed>>) = Established
  /\ Append(<<>>, Established) = <<Established>>
  /\ Append(<<Established>>, Destroyed) = <<Established, Destroyed>>
  /\ Established \notin ToSet(Tail(<<Established>>))
  /\ Established \notin ToSet(Tail(<<Established, Destroyed>>))
  /\ Established \in ToSet(<<Established>>)
  /\ Established \in ToSet(<<Established, Destroyed>>)
<1>1. Tail(<<Established>>) = <<>> /\ Tail(<<Established, Destroyed>>) = <<Destroyed>>
  OBVIOUS
<1>2. ToSet(<<>>) = {} /\ ToSet(<<Destroyed>>) = {Destroyed}
  BY EmptyQueue DEF ToSet
<1>3. /\ Established \in ToSet(<<Established>>)
      /\ Established \in ToSet(<<Established, Destroyed>>)
  BY DEF ToSet
<1>4. Head(<<Established>>) = Established /\ Head(<<Established, Destroyed>>) = Established
  OBVIOUS
<1>5. /\ <<Established>> # <<>> /\ <<Established, Destroyed>> # <<>>
      /\ <<Established, Destroyed>> # <<Established>>
  <2>1. Len(<<>>) = 0 /\ Len(<<Established>>) = 1 /\ Len(<<Established, Destroyed>>) = 2
    OBVIOUS
  <2> QED
    BY <2>1
<1>6. Append(<<>>, Established) = <<Established>>
  OBVIOUS
<1>7. Append(<<Established>>, Destroyed) = <<Established, Destroyed>>
  BY AppendSecond
<1> QED
  BY <1>1, <1>2, <1>3, <1>4, <1>5, <1>6, <1>7, FunctorKinds

\* A channel that was never registered does not change when it is forgotten.
LEMMA NewForgotten ==
  /\ [NewChannel EXCEPT !.reg = FALSE] = NewChannel
  /\ [NewChannel EXCEPT !.reg = FALSE, !.interest = {}] = NewChannel
<1>1. NewChannel \in Channels /\ ~NewChannel.reg /\ NewChannel.interest = {}
  BY NewIsConsistent DEF Consistent, NewChannel
<1>2. \A ch \in Channels :
        /\ ~ch.reg => [ch EXCEPT !.reg = FALSE] = ch
        /\ ~ch.reg /\ ch.interest = {} => [ch EXCEPT !.reg = FALSE, !.interest = {}] = ch
  BY DEF Channels
<1> QED
  BY <1>1, <1>2

\* Nothing comes before connectEstablished, and it runs once.
LEMMA EarlyStep ==
  ASSUME TypesInv, SentInv, LoopInv, EarlyInv, [CNext]_cVars
  PROVE  EarlyInv'
<1> USE TypesKept
<1>1. CASE state_ # "kConnecting"
  <2>1. life # "none" /\ Established \notin ToSet(Queued)
    BY <1>1 DEF EarlyInv
  <2>2. state_' # "kConnecting"
    BY <1>1, Writers DEF OnClose, OnReadEof, HandleClose, ConnectEstablished,
       ConnectDestroyed, CallbackShutsDown, ShutdownStores
  <2>3. life' # "none"
    BY <2>1, Writers DEF NewConnection, Destroy
  <2>4. ~NewConnection
    BY <2>1 DEF NewConnection
  <2>5. Established \notin ToSet(Queued')
    <3>1. /\ Established \notin UserCallbacks /\ Established # Destroyed
          /\ Established # Bound("shutdownInLoop")
          /\ \A m \in Messages : Established # BoundSend(m)
      BY FunctorKinds
    <3> QED
      BY <2>1, <2>4, <3>1, WaitingStep DEF Fewer
  <2> QED
    BY <2>2, <2>3, <2>5 DEF EarlyInv
<1>2. ASSUME state_ = "kConnecting"
      PROVE  /\ chan = NewChannel /\ outputBuffer_ = <<>> /\ ~wrShut /\ ~inCallback
             /\ todo = {} /\ cbs = <<>> /\ destroyedRuns = 0 /\ mainq = 0
             /\ \A u \in Users : upc[u] = "none"
             /\ Queued \in {<<>>, <<Established>>, <<Established, Destroyed>>}
             /\ Queued = <<Established, Destroyed>> => server = "down"
             /\ Queued = <<>> => life = "none" \/ lpc = "exited"
             /\ life = "none" => Queued = <<>> /\ ~connections_
  BY <1>2 DEF EarlyInv
<1>3. ASSUME state_ = "kConnecting", NEW fn, Running(fn),
             \/ UNCHANGED pendingFunctors_
             \/ \E h \in UserCallbacks : pendingFunctors_' = Append(pendingFunctors_, h)
      PROVE  fn = "connectEstablished" /\ life # "none"
  <2>1. Head(functors).fn = fn
    BY <1>3 DEF Running
  <2>2. Head(Queued) = Head(functors) /\ Queued # <<>>
    BY <1>3, RunFewer
  <2> QED
    BY <1>2, <1>3, <2>1, <2>2, EarlyQueues, FunctorKinds
<1>4. ASSUME state_ = "kConnecting"
      PROVE  \/ UNCHANGED <<life, state_, chan, outputBuffer_, wrShut, lpc, inCallback,
                            todo, connections_, mainq, server, cbs, destroyedRuns, upc>>
                /\ Queued' = Queued
             \/ NewConnection \/ DestroyServer \/ IoLoopExits \/ ConnectEstablished
             \/ SwapFunctors \/ EndFunctors \/ Destroy
  <2>1. ~RemoveConnectionInLoop /\ ~MainLoopDestroyed
    BY <1>2, <1>4 DEF RemoveConnectionInLoop, RemovalQueued, MainLoopDestroyed
  <2>2. \A writable \in BOOLEAN : ~Event(writable)
    BY <1>2, <1>4 DEF Event, NewChannel
  <2>3. \A c : ~Calling(c)
    BY <1>2, <1>4 DEF Calling
  <2>4. /\ ~OnClose /\ ~OnReadEof /\ ~OnError /\ ~OnReadError /\ ~OnWriteNothing
        /\ ~OnReadData /\ ~OnWrite
    BY <2>3 DEF OnClose, OnReadEof, OnError, OnReadError, OnWriteNothing, OnReadData, OnWrite
  <2>5. ~ConnectDestroyed /\ ~RunShutdownInLoop /\ ~RunUserCallback
    BY <1>3, <1>4 DEF ConnectDestroyed, RunShutdownInLoop, RunUserCallback, runRest
  <2>6. ~RunSendInLoop
    <3>1. ASSUME RunSendInLoop PROVE FALSE
      <4>1. Running("sendInLoop") /\ SendInLoop(Head(functors).msg)
        BY <3>1 DEF RunSendInLoop
      <4>2. Head(functors).msg \in Messages
        BY <4>1, RunningTypes, FunctorKinds
      <4> QED
        BY <1>3, <1>4, <4>1, <4>2, Sends
    <3> QED
      BY <3>1
  <2>7. /\ \A m \in Messages : ~CallbackSends(m)
        /\ ~CallbackReturns /\ ~CallbackShutsDown
        /\ \A u \in Users : ~CallbackShares(u)
    BY <1>2, <1>4 DEF CallbackSends, CallbackReturns, CallbackShutsDown, CallbackShares
  <2>8. \A u \in Users :
          /\ \A m \in Messages : ~SendTests(u, m)
          /\ ~ShutdownTests(u) /\ ~SendQueues(u) /\ ~ShutdownStores(u)
          /\ ~ShutdownQueues(u) /\ ~Releases(u)
    BY <1>2, <1>4 DEF SendTests, ShutdownTests, SendQueues, ShutdownStores,
       ShutdownQueues, Releases
  <2>9. CASE DataArrives \/ PeerCloses \/ PeerResets
    BY <2>9 DEF DataArrives, PeerCloses, PeerResets, connVars, loopVars, serverVars,
       userVars, history, Queued
  <2>10. CASE UNCHANGED cVars
    BY <2>10 DEF cVars, connVars, loopVars, serverVars, sockVars, userVars, history, Queued
  <2> QED
    BY <2>1, <2>2, <2>4, <2>5, <2>6, <2>7, <2>8, <2>9, <2>10, StepKinds
<1>5. CASE /\ state_ = "kConnecting"
           /\ UNCHANGED <<life, state_, chan, outputBuffer_, wrShut, lpc, inCallback,
                          todo, connections_, mainq, server, cbs, destroyedRuns, upc>>
           /\ Queued' = Queued
  BY <1>2, <1>5 DEF EarlyInv
<1> USE DEF connVars, loopVars, serverVars, sockVars, userVars, history, queueRest, runRest
<1>6. CASE state_ = "kConnecting" /\ NewConnection
  <2>1. Queued = <<>> /\ life = "none"
    BY <1>2, <1>6 DEF NewConnection
  <2>2. Queued' = <<Established>>
    BY <1>6, <2>1, FunctorKinds, Queues, EarlyQueues DEF NewConnection, Established
  <2> QED
    BY <1>2, <1>6, <2>2, EarlyQueues DEF NewConnection, EarlyInv
<1>7. CASE state_ = "kConnecting" /\ DestroyServer
  <2>1. CASE connections_
    <3>1. life # "none" /\ lpc # "exited"
      BY <1>2, <1>7, <2>1 DEF DestroyServer, LoopInv
    <3>2. Queued = <<Established>>
      BY <1>2, <1>7, <3>1 DEF DestroyServer
    <3>3. Queued' = <<Established, Destroyed>>
      BY <1>7, <2>1, <3>2, FunctorKinds, Queues, EarlyQueues DEF DestroyServer, Destroyed
    <3> QED
      BY <1>2, <1>7, <3>1, <3>3, EarlyQueues DEF DestroyServer, EarlyInv
  <2>2. CASE ~connections_
    <3>1. Queued' = Queued
      BY <1>7, <2>2 DEF DestroyServer, Queued
    <3> QED
      BY <1>2, <1>7, <3>1 DEF DestroyServer, EarlyInv
  <2> QED
    BY <2>1, <2>2
<1>8. CASE state_ = "kConnecting" /\ IoLoopExits
  <2>1. Queued' = <<>> /\ lpc' = "exited" /\ chan' = NewChannel
    BY <1>2, <1>8, LoopFewer, NewForgotten DEF IoLoopExits
  <2> QED
    BY <1>2, <1>8, <2>1, EarlyQueues DEF IoLoopExits, EarlyInv
<1>9. CASE state_ = "kConnecting" /\ (SwapFunctors \/ EndFunctors)
  <2>1. Queued' = Queued
    BY <1>9, LoopFewer
  <2>2. lpc # "exited"
    BY <1>9 DEF SwapFunctors, EndFunctors
  <2> QED
    BY <1>2, <1>9, <2>1, <2>2 DEF SwapFunctors, EndFunctors, EarlyInv
<1>10. CASE state_ = "kConnecting" /\ ConnectEstablished
  <2>1. life # "none" /\ UNCHANGED life /\ state_' = "kConnected"
    BY <1>3, <1>10 DEF ConnectEstablished
  <2>2. Queued # <<>> /\ Queued' = Tail(Queued)
    BY <1>10, Runs DEF ConnectEstablished, Running
  <2>3. Established \notin ToSet(Queued')
    BY <1>2, <1>10, <2>2, EarlyQueues
  <2> QED
    BY <2>1, <2>3 DEF EarlyInv
<1>11. CASE state_ = "kConnecting" /\ Destroy
  <2>1. Queued' = Queued /\ chan' = NewChannel
    BY <1>2, <1>11, NewForgotten DEF Destroy, Queued
  <2>2. Queued # <<Established>> /\ Queued # <<Established, Destroyed>>
    BY <1>11, EarlyQueues, FunctorKinds DEF Destroy, Referenced
  <2>3. lpc = "exited"
    BY <1>2, <1>11, <2>2 DEF Destroy
  <2> QED
    BY <1>2, <1>11, <2>1, <2>3 DEF Destroy, EarlyInv
<1> QED
  BY <1>1, <1>4, <1>5, <1>6, <1>7, <1>8, <1>9, <1>10, <1>11

\* What a step leaves of a connection that is freed.
LEMMA FreedSteps ==
  ASSUME TypesInv, LoopInv, life = "destroyed", ~Referenced, ~chan.reg, [CNext]_cVars
  PROVE  /\ UNCHANGED <<life, state_, todo, inCallback, upc, cbs, destroyedRuns,
                        outputBuffer_, wrShut>>
         /\ ~connections_' /\ mainq' = 0 /\ ~batchHolds' /\ ~chan'.reg
         /\ ToSet(Queued') \subseteq ToSet(Queued)
         /\ chan' = [chan EXCEPT !.reg = FALSE]
<1> USE TypesKept DEF connVars, loopVars, serverVars, sockVars, userVars, history, queueRest
<1>1. /\ ~connections_ /\ mainq = 0 /\ ~batchHolds /\ todo = {} /\ ~inCallback
      /\ \A f \in ToSet(Queued) : Raw(f)
      /\ \A u \in Users : upc[u] \in {"none", "gone"}
  BY DEF Referenced, ServerTypes
<1>2. ~NewConnection /\ ~RemoveConnectionInLoop /\ ~MainLoopDestroyed /\ ~Destroy
  BY <1>1 DEF NewConnection, RemoveConnectionInLoop, RemovalQueued, MainLoopDestroyed, Destroy
<1>3. \A writable \in BOOLEAN : ~Event(writable)
  BY DEF Event
<1>4. \A c : ~Calling(c)
  BY <1>1 DEF Calling
<1>5. /\ ~OnClose /\ ~OnReadEof /\ ~OnError /\ ~OnReadError /\ ~OnWriteNothing
      /\ ~OnReadData /\ ~OnWrite
  BY <1>4 DEF OnClose, OnReadEof, OnError, OnReadError, OnWriteNothing, OnReadData, OnWrite
<1>6. ASSUME NEW fn, Running(fn), UNCHANGED pendingFunctors_
      PROVE  fn \in {"sendInLoop", "shutdownInLoop"}
  BY <1>1, <1>6, RunFewer DEF Running, Raw
<1>7. ~ConnectEstablished /\ ~ConnectDestroyed /\ ~RunUserCallback
  BY <1>6 DEF ConnectEstablished, ConnectDestroyed, RunUserCallback, runRest
<1>8. ~RunSendInLoop /\ ~RunShutdownInLoop
  BY DEF RunSendInLoop, RunShutdownInLoop
<1>9. /\ \A m \in Messages : ~CallbackSends(m)
      /\ ~CallbackReturns /\ ~CallbackShutsDown
      /\ \A u \in Users : ~CallbackShares(u)
  BY <1>1 DEF CallbackSends, CallbackReturns, CallbackShutsDown, CallbackShares
<1>10. \A u \in Users :
         /\ \A m \in Messages : ~SendTests(u, m)
         /\ ~ShutdownTests(u) /\ ~SendQueues(u) /\ ~ShutdownStores(u)
         /\ ~ShutdownQueues(u) /\ ~Releases(u)
  BY <1>1 DEF SendTests, ShutdownTests, SendQueues, ShutdownStores, ShutdownQueues, Releases
<1>11. chan = [chan EXCEPT !.reg = FALSE] /\ ~[chan EXCEPT !.reg = FALSE].reg
  BY DEF ConnTypes, Channels
<1>12. CASE DestroyServer
  <2>1. Queued' = Queued
    BY <1>1, <1>12 DEF DestroyServer, Queued
  <2> QED
    BY <1>1, <1>11, <1>12, <2>1 DEF DestroyServer
<1>13. CASE IoLoopExits
  BY <1>1, <1>11, <1>13, LoopFewer DEF IoLoopExits
<1>14. CASE SwapFunctors \/ EndFunctors
  <2>1. UNCHANGED <<connVars, todo, inCallback, serverVars, sockVars, userVars, history>>
    BY <1>14 DEF SwapFunctors, EndFunctors
  <2>2. ~batchHolds'
    BY <1>1, <1>14 DEF SwapFunctors, EndFunctors
  <2>3. ToSet(Queued') \subseteq ToSet(Queued)
    BY <1>14, LoopFewer
  <2> QED
    BY <1>1, <1>11, <2>1, <2>2, <2>3
<1>15. CASE DataArrives \/ PeerCloses \/ PeerResets
  BY <1>1, <1>11, <1>15, QuietQueue DEF DataArrives, PeerCloses, PeerResets
<1>16. CASE UNCHANGED cVars
  BY <1>1, <1>11, <1>16, QuietQueue DEF cVars
<1> QED
  BY <1>2, <1>3, <1>5, <1>7, <1>8, <1>9, <1>10, <1>12, <1>13, <1>14, <1>15, <1>16,
     StepKinds

\* No step brings back a reference to a freed connection.
LEMMA LifeStep ==
  ASSUME TypesInv, LoopInv, LifeInv, [CNext]_cVars
  PROVE  LifeInv'
<1>1. CASE life = "destroyed"
  <2>1. ~Referenced /\ ~chan.reg
    BY <1>1 DEF LifeInv
  <2>2. /\ UNCHANGED <<todo, inCallback, upc>>
        /\ ~connections_' /\ mainq' = 0 /\ ~batchHolds' /\ ~chan'.reg
        /\ ToSet(Queued') \subseteq ToSet(Queued)
    BY <1>1, <2>1, FreedSteps
  <2>3. ~Referenced'
    BY <2>1, <2>2 DEF Referenced
  <2> QED
    BY <2>2, <2>3 DEF LifeInv
<1>2. CASE Destroy
  <2>1. ~chan'.reg
    BY <1>2, TypesKept DEF Destroy, ConnTypes, Channels
  <2>2. UNCHANGED <<connections_, mainq, batchHolds, todo, inCallback, upc>>
        /\ Queued' = Queued /\ ~Referenced
    BY <1>2 DEF Destroy, loopVars, serverVars, userVars, Queued
  <2>3. ~Referenced'
    BY <2>2 DEF Referenced
  <2> QED
    BY <2>1, <2>3 DEF LifeInv
<1>3. CASE life # "destroyed" /\ ~Destroy
  <2>1. life' # "destroyed"
    BY <1>3, Writers DEF NewConnection
  <2> QED
    BY <2>1 DEF LifeInv
<1> QED
  BY <1>1, <1>2, <1>3

\* Only other threads queue functors that bind `this'.
LEMMA RawStep ==
  ASSUME TypesInv, SentInv, LoopInv, RawInv, [CNext]_cVars
  PROVE  RawInv'
<1>1. \A f \in UserCallbacks \cup {Established, Destroyed} : ~Raw(f)
  BY FunctorKinds
<1> QED
  BY <1>1, WaitingStep DEF RawInv, Fewer
----------------------------------------------------------------------------
(* Each step preserves OutputInv.                                          *)

\* A reported DOWN stays reported; handleClose and connectDestroyed report it.
LEMMA Reports ==
  ASSUME TypesInv, [CNext]_cVars
  PROVE  /\ Down => Down'
         /\ OnClose \/ OnReadEof \/ (ConnectDestroyed /\ ReportsDown) => Down'
         /\ ConnectEstablished => (Down' <=> Down)
<1> DEFINE C == {"UP", "DOWN"}
<1>1. cbs \in Seq(C)
  BY TypesKept DEF CallTypes
<1>2. \A x \in C : ToSet(Append(cbs, x)) = ToSet(cbs) \cup {x}
  BY <1>1, AppendToSet
<1>3. OnClose \/ OnReadEof \/ (ConnectDestroyed /\ ReportsDown) => cbs' = Append(cbs, "DOWN")
  BY DEF OnClose, OnReadEof, HandleClose, ConnectDestroyed
<1>4. ConnectEstablished => cbs' = Append(cbs, "UP")
  BY DEF ConnectEstablished
<1>5. \/ UNCHANGED cbs \/ OnClose \/ OnReadEof \/ ConnectEstablished
      \/ (ConnectDestroyed /\ ReportsDown)
  BY Writers DEF ConnectDestroyed
<1>6. "DOWN" \in C /\ "UP" \in C /\ "UP" # "DOWN"
  OBVIOUS
<1> QED
  BY <1>2, <1>3, <1>4, <1>5, <1>6 DEF Down

\* A connection that something refers to exists.
LEMMA InUse ==
  ASSUME TypesInv, EarlyInv, LifeInv, Referenced, state_ # "kConnecting"
  PROVE  life = "alive"
BY TypesKept DEF EarlyInv, LifeInv, ConnTypes

\* The channel of a connection that is up, when it starts or stops writing.
LEMMA ChannelOfUp ==
  ASSUME TypesInv, OutputInv, state_ # "kConnecting", ~Down, destroyedRuns = 0,
         life = "alive", lpc # "exited",
         chan' \in {chan, EnableWriting(chan), DisableWriting(chan)}
  PROVE  /\ Consistent(chan') /\ ~chan'.aborted /\ chan'.index = "kAdded"
         /\ "R" \in chan'.events /\ chan'.reg /\ chan'.interest = chan'.events
<1>1. /\ Consistent(chan) /\ ~chan.aborted /\ chan.index = "kAdded"
      /\ "R" \in chan.events /\ chan.reg /\ chan.interest = chan.events
  BY DEF OutputInv
<1> QED
  BY <1>1, WritingAdded

\* What a step of sendInLoop on a connection that is up does to its output.
LEMMA SendsOutput ==
  ASSUME TypesInv, OutputInv, ~Down, NEW m \in Messages, SendInLoop(m),
         UNCHANGED wrShut
  PROVE  /\ IsWriting(chan') <=> outputBuffer_' # <<>>
         /\ wrShut' => outputBuffer_' = <<>>
         /\ chan' \in {chan, EnableWriting(chan)}
<1>1. /\ IsWriting(chan) <=> outputBuffer_ # <<>>
      /\ wrShut => outputBuffer_ = <<>>
  BY DEF OutputInv, FinAfterData
<1>2. /\ (IsWriting(chan) <=> outputBuffer_ # <<>>)
              => (IsWriting(chan') <=> outputBuffer_' # <<>>)
      /\ wrShut /\ ~IsWriting(chan) /\ outputBuffer_ = <<>> => outputBuffer_' = <<>>
      /\ chan' = chan \/ chan' = EnableWriting(chan)
  BY Sends
<1> QED
  BY <1>1, <1>2

\* EPOLLOUT and FIN follow outputBuffer_.
LEMMA OutputFollows ==
  ASSUME TypesInv, LoopInv, EarlyInv, LifeInv, OutputInv, [CNext]_cVars, ~Down'
  PROVE  /\ IsWriting(chan') <=> outputBuffer_' # <<>>
         /\ wrShut' => outputBuffer_' = <<>>
<1> USE TypesKept DEF connVars, sockVars
<1>1. ~Down
  BY Reports
<1>2. /\ IsWriting(chan) <=> outputBuffer_ # <<>>
      /\ wrShut => outputBuffer_ = <<>>
  BY <1>1 DEF OutputInv, FinAfterData
<1>3. chan \in Channels
  BY DEF ConnTypes
<1>4. CASE RunSendInLoop
  <2>1. Running("sendInLoop") /\ SendInLoop(Head(functors).msg) /\ UNCHANGED wrShut
    BY <1>4 DEF RunSendInLoop
  <2>2. Head(functors).msg \in Messages
    BY <2>1, RunningTypes, FunctorKinds
  <2> QED
    BY <1>1, <2>1, <2>2, SendsOutput
<1>5. ASSUME NEW m \in Messages, CallbackSends(m)
      PROVE  /\ IsWriting(chan') <=> outputBuffer_' # <<>>
             /\ wrShut' => outputBuffer_' = <<>>
  BY <1>1, <1>5, SendsOutput DEF CallbackSends
<1>6. CASE OnWrite
  <2>1. /\ chan' = IF outputBuffer_' = <<>> THEN DisableWriting(chan) ELSE chan
        /\ IsWriting(chan) /\ (wrShut' => outputBuffer_' = <<>>)
    BY <1>6, Drains
  <2>2. ~IsWriting(DisableWriting(chan))
    BY <1>3, WriteInterestSet
  <2> QED
    BY <2>1, <2>2
<1>7. CASE ConnectEstablished
  <2>1. chan = NewChannel /\ outputBuffer_ = <<>> /\ ~wrShut
    BY <1>7 DEF ConnectEstablished, EarlyInv
  <2>2. chan' = EnableReading(chan) /\ UNCHANGED <<outputBuffer_, wrShut>>
    BY <1>7 DEF ConnectEstablished
  <2>3. chan'.events = chan.events \cup {"R"}
    BY <1>3, <2>2, WriteInterestSet
  <2>4. ~IsWriting(chan')
    BY <2>1, <2>3 DEF IsWriting, NewChannel
  <2> QED
    BY <2>1, <2>2, <2>4
<1>8. CASE ConnectDestroyed
  <2>1. ~ReportsDown
    BY <1>8, Reports
  <2>2. chan' = RemoveChannel(chan) /\ UNCHANGED <<outputBuffer_, wrShut>>
    BY <1>8, <2>1 DEF ConnectDestroyed
  <2>3. chan'.events = chan.events
    BY <1>3, <2>2, WriteInterestSet
  <2> QED
    BY <1>2, <2>2, <2>3 DEF IsWriting
<1>9. CASE IoLoopExits \/ Destroy
  <2>1. chan'.events = chan.events /\ UNCHANGED <<outputBuffer_, wrShut>>
    BY <1>3, <1>9 DEF IoLoopExits, Destroy, Channels
  <2> QED
    BY <1>2, <2>1 DEF IsWriting
<1>10. CASE RunShutdownInLoop \/ CallbackShutsDown
  <2>1. wrShut' = (wrShut \/ ~IsWriting(chan)) /\ UNCHANGED <<chan, outputBuffer_>>
    BY <1>10 DEF RunShutdownInLoop, CallbackShutsDown, ShutdownInLoop
  <2> QED
    BY <1>2, <2>1
<1>11. CASE UNCHANGED <<chan, outputBuffer_, wrShut>>
  BY <1>2, <1>11
<1>12. ~OnClose /\ ~OnReadEof
  BY Reports
<1> QED
  BY <1>4, <1>5, <1>6, <1>7, <1>8, <1>9, <1>10, <1>11, <1>12, Writers

\* OutputInv holds after the step.
LEMMA OutputStep ==
  ASSUME TypesInv, LoopInv, EarlyInv, LifeInv, OutputInv, [CNext]_cVars
  PROVE  OutputInv'
<1> USE TypesKept DEF connVars, loopVars, history
<1>1. /\ ~Down' => (IsWriting(chan') <=> outputBuffer_' # <<>>)
      /\ FinAfterData'
  BY OutputFollows DEF FinAfterData
<1>2. ASSUME state_' # "kConnecting", ~Down', destroyedRuns' = 0
      PROVE  /\ Consistent(chan') /\ ~chan'.aborted /\ chan'.index = "kAdded"
             /\ "R" \in chan'.events
             /\ life' = "alive" /\ lpc' # "exited" =>
                  chan'.reg /\ chan'.interest = chan'.events
  <2>1. ~Down /\ ~OnClose /\ ~OnReadEof
    BY <1>2, Reports
  <2>2. ~ConnectDestroyed /\ destroyedRuns = 0
    BY <1>2, Writers DEF ConnectDestroyed, CallTypes
  <2>3. CASE ConnectEstablished
    <3>1. chan = NewChannel /\ chan' = EnableReading(chan)
      BY <2>3 DEF ConnectEstablished, EarlyInv
    <3>2. Consistent(chan) /\ ~chan.aborted /\ chan.index = "kNew"
      BY <3>1, NewIsConsistent DEF NewChannel
    <3> QED
      BY <3>1, <3>2, EnableReadingNew
  <2>4. ~ConnectEstablished => state_ # "kConnecting"
    BY <1>2, <2>1, <2>2, Writers DEF CallbackShutsDown, ShutdownStores, EarlyInv
  <2>5. ASSUME ~ConnectEstablished
        PROVE  /\ Consistent(chan) /\ ~chan.aborted /\ chan.index = "kAdded"
               /\ "R" \in chan.events
               /\ life = "alive" /\ lpc # "exited" =>
                     chan.reg /\ chan.interest = chan.events
    BY <2>1, <2>2, <2>4, <2>5 DEF OutputInv
  <2>6. CASE OnWrite
    <3>1. todo # {} /\ lpc = "event" /\ ~ConnectEstablished
      BY <2>6 DEF OnWrite, Calling, ConnectEstablished, Running
    <3>2. life = "alive"
      BY <2>4, <3>1, InUse DEF Referenced
    <3>3. chan' \in {chan, DisableWriting(chan)}
      BY <2>6, Drains
    <3> QED
      BY <2>1, <2>2, <2>4, <3>1, <3>2, <3>3, ChannelOfUp
  <2>7. CASE RunSendInLoop
    <3>1. Running("sendInLoop") /\ SendInLoop(Head(functors).msg) /\ UNCHANGED wrShut
          /\ life = "alive"
      BY <2>7 DEF RunSendInLoop
    <3>2. Head(functors).msg \in Messages
      BY <3>1, RunningTypes, FunctorKinds
    <3>3. chan' \in {chan, EnableWriting(chan)}
      BY <2>1, <3>1, <3>2, SendsOutput
    <3>4. ~ConnectEstablished /\ lpc # "exited"
      BY <3>1 DEF ConnectEstablished, Running
    <3> QED
      BY <2>1, <2>2, <2>4, <3>1, <3>3, <3>4, ChannelOfUp
  <2>8. CASE \E m \in Messages : CallbackSends(m)
    <3>1. PICK m \in Messages : CallbackSends(m)
      BY <2>8
    <3>2. inCallback /\ SendInLoop(m) /\ UNCHANGED wrShut /\ ~ConnectEstablished
      BY <3>1 DEF CallbackSends, ConnectEstablished, Running
    <3>3. life = "alive" /\ lpc # "exited"
      BY <2>4, <3>2, InUse DEF Referenced, LoopInv
    <3>4. chan' \in {chan, EnableWriting(chan)}
      BY <2>1, <3>2, SendsOutput
    <3> QED
      BY <2>1, <2>2, <2>4, <3>2, <3>3, <3>4, ChannelOfUp
  <2>9. CASE IoLoopExits \/ Destroy
    <3>1. ~ConnectEstablished
      BY <2>9 DEF IoLoopExits, Destroy, ConnectEstablished, Running
    <3>2. /\ chan' \in {[chan EXCEPT !.reg = FALSE],
                        [chan EXCEPT !.reg = FALSE, !.interest = {}]}
          /\ lpc' = "exited" \/ life' = "destroyed"
      BY <2>9 DEF IoLoopExits, Destroy
    <3>3. Consistent(chan')
      BY <2>5, <3>1, <3>2, Unregistered
    <3>4. chan'.events = chan.events /\ chan'.index = chan.index /\ chan'.aborted = chan.aborted
      BY <3>2 DEF ConnTypes, Channels
    <3> QED
      BY <2>5, <3>1, <3>2, <3>3, <3>4
  <2>10. CASE UNCHANGED chan /\ ~ConnectEstablished
    <3>1. life' = "alive" => life = "alive"
      BY <2>4, <2>10, Writers DEF NewConnection, Destroy, EarlyInv
    <3>2. lpc' # "exited" => lpc # "exited"
      BY Writers DEF IoLoopExits, SwapFunctors, EndFunctors, Event
    <3> QED
      BY <2>5, <2>10, <3>1, <3>2
  <2> QED
    BY <2>1, <2>2, <2>3, <2>6, <2>7, <2>8, <2>9, <2>10, Writers
<1> QED
  BY <1>1, <1>2 DEF OutputInv

\* ExitedInv holds after the step.
LEMMA ExitedStep ==
  ASSUME TypesInv, LoopInv, LifeInv, ExitedInv, [CNext]_cVars
  PROVE  ExitedInv'
<1>1. chan \in Channels
  BY TypesKept DEF ConnTypes
<1>2. CASE IoLoopExits
  BY <1>1, <1>2 DEF IoLoopExits, ExitedInv, Channels
<1>3. ASSUME lpc' = "exited", ~IoLoopExits PROVE lpc = "exited" /\ ~chan.reg
  BY <1>3, Writers DEF SwapFunctors, EndFunctors, Event, ExitedInv
<1>4. CASE Destroy
  BY <1>1, <1>4 DEF Destroy, ExitedInv, Channels
<1>5. ASSUME lpc = "exited", ~IoLoopExits, ~Destroy PROVE UNCHANGED chan
  <2>1. ~inCallback
    BY <1>5 DEF LoopInv
  <2> QED
    BY <1>5, <2>1, Writers DEF OnClose, OnReadEof, OnWrite, Calling, ConnectEstablished,
       ConnectDestroyed, RunSendInLoop, Running, CallbackSends
<1> QED
  BY <1>2, <1>3, <1>4, <1>5 DEF ExitedInv
----------------------------------------------------------------------------
(* The byte stream.  Induction over the steps stands for the induction     *)
(* over the accepted messages that FlattenSeq would need.                  *)

\* FlattenSeq returns it.
LEMMA FlatIsFlattenSeq ==
  ASSUME NEW S, NEW s \in Seq(S), NEW r, Flat(s, r)
  PROVE  FlattenSeq(s) = r
<1> DEFINE fl == CHOOSE f : f = [i \in 1..Len(s) |-> IF i = 1 THEN s[i] ELSE f[i - 1] \o s[i]]
<1>1. \E f : f = [i \in 1..Len(s) |-> IF i = 1 THEN s[i] ELSE f[i - 1] \o s[i]]
  BY DEF Flat, Flattens
<1>2. fl = [i \in 1..Len(s) |-> IF i = 1 THEN s[i] ELSE fl[i - 1] \o s[i]]
  BY <1>1, Zenon
<1>3. FlattenSeq(s) = IF Len(s) = 0 THEN s ELSE fl[Len(s)]
  BY Zenon DEF FlattenSeq
<1> HIDE DEF fl
<1>4. Len(s) = 0 => s = <<>>
  BY EmptySeq
<1>5. Flattens(fl, s)
  BY <1>2, Zenon DEF Flattens
<1>6. r = IF Len(s) = 0 THEN <<>> ELSE fl[Len(s)]
  BY <1>5 DEF Flat
<1> QED
  BY <1>3, <1>4, <1>6

\* Nothing flattens to nothing.
LEMMA FlatEmpty ==
  ASSUME NEW s, Len(s) = 0
  PROVE  Flat(s, <<>>)
<1>1. \E f : Flattens(f, s)
  <2>1. [i \in 1..Len(s) |-> <<>>] = [i \in 1..Len(s) |->
           IF i = 1 THEN s[i] ELSE [j \in 1..Len(s) |-> <<>>][i - 1] \o s[i]]
    OBVIOUS
  <2> QED
    BY <2>1 DEF Flattens
<1> QED
  BY <1>1 DEF Flat

\* No message has no bytes.
LEMMA NoBytes ==
  ASSUME NEW q, Len(q) = 0
  PROVE  Len([i \in 1..Len(q) |-> Bytes(q[i])]) = 0
<1> DEFINE b == [i \in 1..0 |-> Bytes(q[i])]
<1>1. b \in Seq({Bytes(q[i]) : i \in 1..0}) /\ DOMAIN b = 1..0
  BY IsASeq
<1>2. Len(b) = 0
  <2> HIDE DEF b
  <2>1. Len(b) \in Nat /\ DOMAIN b = 1..Len(b)
    BY <1>1, LenProperties
  <2> QED
    BY <1>1, <2>1
<1> QED
  BY <1>2

\* One part more at the end.
LEMMA FlatAppend ==
  ASSUME NEW X, NEW s \in Seq(Seq(X)), NEW r, Flat(s, r), NEW x \in Seq(X)
  PROVE  Flat(Append(s, x), r \o x)
<1> DEFINE n == Len(s)
           t == Append(s, x)
<1>1. n \in Nat /\ Len(t) = n + 1 /\ t[n + 1] = x /\ \A i \in 1..n : t[i] = s[i]
  BY AppendProperties, LenProperties
<1> HIDE DEF t
<1>2. \E f : Flattens(f, t)
  <2>1. PICK g : g = [i \in 1..n |-> IF i = 1 THEN s[i] ELSE g[i - 1] \o s[i]]
    BY DEF Flat, Flattens
  <2> DEFINE f == [i \in 1..(n + 1) |-> IF i <= n THEN g[i] ELSE IF n = 0 THEN x ELSE g[n] \o x]
  <2>2. ASSUME NEW i \in 1..(n + 1)
        PROVE  f[i] = IF i = 1 THEN t[i] ELSE f[i - 1] \o t[i]
    <3>1. CASE i <= n
      <4>1. i \in 1..n /\ f[i] = g[i]
        BY <1>1, <3>1
      <4>2. g[i] = IF i = 1 THEN s[i] ELSE g[i - 1] \o s[i]
        BY <2>1, <4>1
      <4>3. i # 1 => i - 1 \in 1..n /\ f[i - 1] = g[i - 1]
        BY <1>1, <4>1
      <4> QED
        BY <1>1, <4>1, <4>2, <4>3
    <3>2. CASE i > n
      <4>1. i = n + 1 /\ f[i] = IF n = 0 THEN x ELSE g[n] \o x
        BY <1>1, <3>2
      <4>2. n # 0 => i - 1 = n /\ n \in 1..(n + 1) /\ f[n] = g[n] /\ i # 1
        BY <1>1, <4>1
      <4>3. n = 0 => i = 1
        BY <4>1
      <4> QED
        BY <1>1, <4>1, <4>2, <4>3
    <3>3. i <= n \/ i > n
      BY <1>1
    <3> QED
      BY <3>1, <3>2, <3>3
  <2>3. f = [i \in 1..(n + 1) |-> f[i]]
    OBVIOUS
  <2> HIDE DEF f
  <2>4. f = [i \in 1..(n + 1) |-> IF i = 1 THEN t[i] ELSE f[i - 1] \o t[i]]
    BY <2>2, <2>3
  <2> QED
    BY <1>1, <2>4 DEF Flattens
<1>3. ASSUME NEW f, Flattens(f, t) PROVE r \o x = f[n + 1]
  <2>1. f = [i \in 1..(n + 1) |-> IF i = 1 THEN t[i] ELSE f[i - 1] \o t[i]]
    BY <1>1, <1>3 DEF Flattens
  <2> DEFINE h == [i \in 1..n |-> f[i]]
  <2>2. \A i \in 1..n : h[i] = IF i = 1 THEN s[i] ELSE h[i - 1] \o s[i]
    <3>1. ASSUME NEW i \in 1..n PROVE h[i] = IF i = 1 THEN s[i] ELSE h[i - 1] \o s[i]
      <4>1. i \in 1..(n + 1) /\ h[i] = f[i] /\ (i # 1 => h[i - 1] = f[i - 1])
        BY <1>1
      <4>2. f[i] = IF i = 1 THEN t[i] ELSE f[i - 1] \o t[i]
        BY <2>1, <4>1
      <4> QED
        BY <1>1, <4>1, <4>2
    <3> QED
      BY <3>1
  <2>3. h = [i \in 1..n |-> h[i]] /\ (n # 0 => h[n] = f[n])
    BY <1>1
  <2> HIDE DEF h
  <2>4. h = [i \in 1..n |-> IF i = 1 THEN s[i] ELSE h[i - 1] \o s[i]]
    BY <2>2, <2>3
  <2>5. r = IF n = 0 THEN <<>> ELSE h[n]
    BY <2>4 DEF Flat, Flattens
  <2>6. f[n + 1] = IF n + 1 = 1 THEN x ELSE f[n] \o x
    <3>1. n + 1 \in 1..(n + 1) /\ (n + 1) - 1 = n
      BY <1>1
    <3>2. f[n + 1] = IF n + 1 = 1 THEN t[n + 1] ELSE f[(n + 1) - 1] \o t[n + 1]
      BY <2>1, <3>1
    <3> QED
      BY <1>1, <3>1, <3>2
  <2>7. CASE n = 0
    BY <1>1, <2>5, <2>6, <2>7, ConcatEmptySeq
  <2>8. CASE n # 0
    <3>1. n + 1 # 1
      BY <1>1, <2>8
    <3>2. r = h[n] /\ h[n] = f[n]
      BY <2>3, <2>5, <2>8
    <3> QED
      BY <2>6, <3>1, <3>2
  <2> QED
    BY <2>7, <2>8
<1>4. Len(t) # 0
  BY <1>1
<1> QED
  BY <1>1, <1>2, <1>3, <1>4 DEF Flat, t

\* The bytes of the accepted messages when one more is accepted.
LEMMA BytesAppend ==
  ASSUME NEW q \in Seq(Messages), NEW m \in Messages
  PROVE  /\ [i \in 1..Len(q) |-> Bytes(q[i])] \in Seq(Seq(Messages \X Nat))
         /\ [i \in 1..Len(Append(q, m)) |-> Bytes(Append(q, m)[i])]
              = Append([i \in 1..Len(q) |-> Bytes(q[i])], Bytes(m))
<1> DEFINE S == Seq(Messages \X Nat)
           b == [i \in 1..Len(q) |-> Bytes(q[i])]
           a == Append(q, m)
           c == [i \in 1..Len(a) |-> Bytes(a[i])]
<1>1. /\ Len(q) \in Nat /\ Len(a) = Len(q) + 1 /\ a[Len(q) + 1] = m
      /\ \A i \in 1..Len(q) : a[i] = q[i] /\ q[i] \in Messages
  BY AppendProperties, LenProperties, ElementOfSeq
<1>2. \A x \in Messages : Bytes(x) \in S
  BY MessageBytes
<1> HIDE DEF S, a
<1>3. b \in Seq(S) /\ Len(b) = Len(q)
  BY <1>1, <1>2, IsASeq, LenProperties
<1>4. /\ Append(b, Bytes(m)) \in Seq(S) /\ Len(Append(b, Bytes(m))) = Len(q) + 1
      /\ Append(b, Bytes(m))[Len(q) + 1] = Bytes(m)
      /\ \A i \in 1..Len(q) : Append(b, Bytes(m))[i] = b[i]
  <2>1. Bytes(m) \in S
    BY <1>2
  <2> QED
    BY <1>3, <2>1, AppendProperties
<1>5. \A i \in 1..Len(a) : a[i] \in Messages
  BY <1>1
<1>6. c \in Seq(S) /\ Len(c) = Len(q) + 1
  BY <1>1, <1>2, <1>5, IsASeq, LenProperties
<1>7. \A i \in 1..Len(q) : b[i] = Bytes(q[i])
  OBVIOUS
<1>8. \A i \in 1..Len(a) : c[i] = Bytes(a[i])
  OBVIOUS
<1> HIDE DEF b, c
<1>9. \A i \in 1..Len(c) : c[i] = Append(b, Bytes(m))[i]
  <2>1. ASSUME NEW i \in 1..(Len(q) + 1) PROVE c[i] = Append(b, Bytes(m))[i]
    <3>1. i \in 1..Len(q) \/ i = Len(q) + 1
      BY <1>1
    <3> QED
      BY <1>1, <1>4, <1>7, <1>8, <3>1
  <2> QED
    BY <1>6, <2>1
<1>10. c = Append(b, Bytes(m))
  BY <1>4, <1>6, <1>9, SeqEqual
<1> QED
  BY <1>3, <1>10 DEF S, a, b, c

\* StreamInv holds after the step.
LEMMA StreamStep ==
  ASSUME TypesInv, SentInv, StreamInv, [CNext]_cVars
  PROVE  StreamInv'
<1> USE TypesKept
<1>1. ASSUME NEW m \in Messages, SendInLoop(m) PROVE StreamInv'
  <2>1. CASE UNCHANGED <<accepted, wire, outputBuffer_>>
    BY <2>1 DEF StreamInv
  <2>2. CASE /\ accepted' = Append(accepted, m)
             /\ wire' \o outputBuffer_' = (wire \o outputBuffer_) \o Bytes(m)
    <3> DEFINE b == [i \in 1..Len(accepted) |-> Bytes(accepted[i])]
    <3>1. accepted \in Seq(Messages)
      BY DEF SentInv
    <3>2. b \in Seq(Seq(Messages \X Nat)) /\ Bytes(m) \in Seq(Messages \X Nat)
      BY <3>1, BytesAppend, MessageBytes
    <3>3. [i \in 1..Len(accepted') |-> Bytes(accepted'[i])] = Append(b, Bytes(m))
      BY <2>2, <3>1, BytesAppend
    <3>4. Flat(b, wire \o outputBuffer_)
      BY DEF StreamInv
    <3> HIDE DEF b
    <3>5. Flat(Append(b, Bytes(m)), (wire \o outputBuffer_) \o Bytes(m))
      BY <3>2, <3>4, FlatAppend
    <3> QED
      BY <2>2, <3>3, <3>5 DEF StreamInv
  <2> QED
    BY <1>1, <2>1, <2>2, Sends
<1>2. CASE RunSendInLoop
  <2>1. Running("sendInLoop") /\ SendInLoop(Head(functors).msg)
    BY <1>2 DEF RunSendInLoop
  <2>2. Head(functors).msg \in Messages
    BY <2>1, RunningTypes, FunctorKinds
  <2> QED
    BY <1>1, <2>1, <2>2
<1>3. ASSUME NEW m \in Messages, CallbackSends(m) PROVE StreamInv'
  BY <1>1, <1>3 DEF CallbackSends
<1>4. CASE OnWrite
  <2>1. wire' \o outputBuffer_' = wire \o outputBuffer_ /\ UNCHANGED accepted
    BY <1>4, Drains DEF OnWrite, history
  <2> QED
    BY <2>1 DEF StreamInv
<1>5. CASE UNCHANGED <<outputBuffer_, wire, accepted>>
  BY <1>5 DEF StreamInv
<1> QED
  BY <1>2, <1>3, <1>4, <1>5, Writers
----------------------------------------------------------------------------
(* The queued connectDestroyed, step by step.                              *)

\* Where it waits after push_back, and after the oldest functor was taken.
LEMMA OnceFacts ==
  /\ \A q \in Seq(Functors), h \in Functors :
        /\ Append(q, h) \in Seq(Functors)
        /\ ToSet(Append(q, h)) = ToSet(q) \cup {h}
        /\ Once(q, Destroyed) /\ (h # Destroyed \/ Destroyed \notin ToSet(q))
             => Once(Append(q, h), Destroyed)
  /\ \A q \in Seq(Functors) : q # <<>> =>
        /\ Tail(q) \in Seq(Functors)
        /\ ToSet(q) = ToSet(Tail(q)) \cup {Head(q)}
        /\ Once(q, Destroyed) =>
             Once(Tail(q), Destroyed) /\ (Head(q) = Destroyed => Destroyed \notin ToSet(Tail(q)))
  /\ \A h \in UserCallbacks : h \in Functors /\ h # Destroyed
<1>1. ASSUME NEW q \in Seq(Functors), NEW h \in Functors
      PROVE  /\ Append(q, h) \in Seq(Functors)
             /\ ToSet(Append(q, h)) = ToSet(q) \cup {h}
             /\ Once(q, Destroyed) /\ (h # Destroyed \/ Destroyed \notin ToSet(q))
                  => Once(Append(q, h), Destroyed)
  BY AppendToSet, AppendOnce
<1>2. ASSUME NEW q \in Seq(Functors), q # <<>>
      PROVE  /\ Tail(q) \in Seq(Functors)
             /\ ToSet(q) = ToSet(Tail(q)) \cup {Head(q)}
             /\ Once(q, Destroyed) =>
                  /\ Once(Tail(q), Destroyed)
                  /\ Head(q) = Destroyed => Destroyed \notin ToSet(Tail(q))
  BY <1>2, TailToSet, TailOnce
<1> QED
  BY <1>1, <1>2, FunctorKinds

\* It waits as it did.
DestroyedWaitsOn ==
    /\ Once(Queued', Destroyed)
    /\ Destroyed \in ToSet(Queued') <=> Destroyed \in ToSet(Queued)

\* Queueing a user's callback does not change how it waits.
LEMMA CallbackKeeps ==
  ASSUME TypesInv, Once(Queued, Destroyed), UNCHANGED functors,
         \/ UNCHANGED pendingFunctors_
         \/ \E h \in UserCallbacks : pendingFunctors_' = Append(pendingFunctors_, h)
  PROVE  DestroyedWaitsOn
<1>1. CASE UNCHANGED pendingFunctors_
  BY <1>1, QuietQueue DEF DestroyedWaitsOn
<1>2. CASE \E h \in UserCallbacks : pendingFunctors_' = Append(pendingFunctors_, h)
  <2>1. PICK h \in UserCallbacks : pendingFunctors_' = Append(pendingFunctors_, h)
    BY <1>2
  <2>2. h \in Functors /\ h # Destroyed
    BY OnceFacts
  <2>3. Queued' = Append(Queued, h) /\ Queued \in Seq(Functors)
    BY <2>1, <2>2, Queues
  <2> QED
    BY <2>2, <2>3, OnceFacts DEF DestroyedWaitsOn
<1> QED
  BY <1>1, <1>2

\* Nor does running another functor; running connectDestroyed ends its waiting.
LEMMA RunKeeps ==
  ASSUME TypesInv, Once(Queued, Destroyed), NEW fn, Running(fn),
         \/ UNCHANGED pendingFunctors_
         \/ \E h \in UserCallbacks : pendingFunctors_' = Append(pendingFunctors_, h)
  PROVE  IF fn = "connectDestroyed"
         THEN Once(Queued', Destroyed) /\ Destroyed \in ToSet(Queued) \ ToSet(Queued')
         ELSE DestroyedWaitsOn
<1>1. functors # <<>> /\ functors' = Tail(functors) /\ Head(functors).fn = fn
  BY DEF Running
<1>2. CASE UNCHANGED pendingFunctors_
  <2>1. /\ Queued \in Seq(Functors) /\ Queued # <<>> /\ Queued' = Tail(Queued)
        /\ Head(Queued) = Head(functors) /\ Head(functors) \in Functors
    BY <1>1, <1>2, Runs
  <2>2. Head(Queued) = Destroyed <=> fn = "connectDestroyed"
    BY <1>1, <2>1, FunctorKinds
  <2> QED
    BY <2>1, <2>2, OnceFacts DEF DestroyedWaitsOn
<1>3. CASE \E h \in UserCallbacks : pendingFunctors_' = Append(pendingFunctors_, h)
  <2>1. PICK h \in UserCallbacks : pendingFunctors_' = Append(pendingFunctors_, h)
    BY <1>3
  <2>2. h \in Functors /\ h # Destroyed
    BY OnceFacts
  <2>3. /\ Queued \in Seq(Functors) /\ Queued # <<>> /\ Queued' = Append(Tail(Queued), h)
        /\ Head(Queued) = Head(functors) /\ Head(functors) \in Functors
        /\ Tail(Queued) \in Seq(Functors)
    BY <1>1, <2>1, <2>2, RunsAndQueues
  <2>4. Head(Queued) = Destroyed <=> fn = "connectDestroyed"
    BY <1>1, <2>3, FunctorKinds
  <2>5. Once(Tail(Queued), Destroyed)
    BY <2>3, OnceFacts
  <2>6. Once(Queued', Destroyed) /\ ToSet(Queued') = ToSet(Tail(Queued)) \cup {h}
    BY <2>2, <2>3, <2>5, OnceFacts
  <2>7. /\ ToSet(Queued) = ToSet(Tail(Queued)) \cup {Head(Queued)}
        /\ Head(Queued) = Destroyed => Destroyed \notin ToSet(Tail(Queued))
    BY <2>3, OnceFacts
  <2> QED
    BY <2>2, <2>4, <2>6, <2>7 DEF DestroyedWaitsOn
<1> QED
  BY <1>2, <1>3

\* Who queues, runs or drops it.
LEMMA DestroyedStep ==
  ASSUME TypesInv, SentInv, LoopInv, Once(Queued, Destroyed), [CNext]_cVars
  PROVE  /\ \/ DestroyedWaitsOn \/ ConnectDestroyed
            \/ RemoveConnectionInLoop \/ (DestroyServer /\ connections_)
            \/ IoLoopExits
         /\ RemoveConnectionInLoop \/ (DestroyServer /\ connections_) =>
              /\ Destroyed \notin ToSet(Queued) => Once(Queued', Destroyed)
              /\ Destroyed \in ToSet(Queued')
         /\ IoLoopExits => Queued' = <<>>
         /\ ConnectDestroyed =>
              Once(Queued', Destroyed) /\ Destroyed \in ToSet(Queued) \ ToSet(Queued')
<1> USE DEF loopVars, eventRest, runRest, queueRest
<1>1. ASSUME RemoveConnectionInLoop \/ (DestroyServer /\ connections_)
      PROVE  /\ Destroyed \notin ToSet(Queued) => Once(Queued', Destroyed)
             /\ Destroyed \in ToSet(Queued')
  <2>1. /\ UNCHANGED functors
        /\ pendingFunctors_' = Append(pendingFunctors_, Destroyed)
    BY <1>1 DEF RemoveConnectionInLoop, DestroyServer, Destroyed
  <2>2. Destroyed \in Functors
    BY FunctorKinds
  <2>3. Queued' = Append(Queued, Destroyed) /\ Queued \in Seq(Functors)
    BY <2>1, <2>2, Queues
  <2> QED
    BY <1>1, <2>2, <2>3, OnceFacts
<1>2. IoLoopExits => Queued' = <<>>
  BY LoopFewer
<1>3. ConnectDestroyed =>
        Once(Queued', Destroyed) /\ Destroyed \in ToSet(Queued) \ ToSet(Queued')
  BY RunKeeps DEF ConnectDestroyed
<1>4. ASSUME NewConnection \/ \E u \in Users : SendQueues(u) \/ ShutdownQueues(u)
      PROVE  DestroyedWaitsOn
  <2>1. ASSUME NEW h \in Functors, h # Destroyed, UNCHANGED functors,
               pendingFunctors_' = Append(pendingFunctors_, h)
        PROVE  DestroyedWaitsOn
    <3>1. Queued' = Append(Queued, h) /\ Queued \in Seq(Functors)
      BY <2>1, Queues
    <3> QED
      BY <2>1, <3>1, OnceFacts DEF DestroyedWaitsOn
  <2>2. /\ Established \in Functors /\ Established # Destroyed
        /\ Bound("shutdownInLoop") \in Functors /\ Bound("shutdownInLoop") # Destroyed
        /\ \A m \in Messages : BoundSend(m) \in Functors /\ BoundSend(m) # Destroyed
    BY FunctorKinds
  <2>3. CASE NewConnection
    BY <2>1, <2>2, <2>3 DEF NewConnection, Established
  <2>4. ASSUME NEW u \in Users, SendQueues(u) PROVE DestroyedWaitsOn
    <3>1. buf[u] \in Messages
      BY <2>4, TypesKept DEF SendQueues, SentInv, UserTypes
    <3> QED
      BY <2>1, <2>2, <2>4, <3>1 DEF SendQueues
  <2>5. ASSUME NEW u \in Users, ShutdownQueues(u) PROVE DestroyedWaitsOn
    BY <2>1, <2>2, <2>5 DEF ShutdownQueues
  <2> QED
    BY <1>4, <2>3, <2>4, <2>5
<1>5. ASSUME DestroyServer, ~connections_ PROVE DestroyedWaitsOn
  BY <1>5, CallbackKeeps DEF DestroyServer
<1>6. ASSUME SwapFunctors \/ EndFunctors PROVE DestroyedWaitsOn
  BY <1>6, LoopFewer DEF DestroyedWaitsOn
<1>7. ASSUME MainLoopDestroyed \/ DataArrives \/ PeerCloses \/ PeerResets
      PROVE  DestroyedWaitsOn
  BY <1>7, CallbackKeeps DEF MainLoopDestroyed, DataArrives, PeerCloses, PeerResets
<1>8. ASSUME NEW writable \in BOOLEAN, Event(writable) PROVE DestroyedWaitsOn
  BY <1>8, CallbackKeeps DEF Event
<1>9. ASSUME OnClose \/ OnReadEof \/ OnError \/ OnReadError \/ OnWriteNothing \/ OnReadData
      PROVE  DestroyedWaitsOn
  BY <1>9, CallbackKeeps
     DEF OnClose, OnReadEof, OnError, OnReadError, OnWriteNothing, OnReadData
<1>10. ASSUME OnWrite PROVE DestroyedWaitsOn
  <2>1. UNCHANGED functors
    BY <1>10 DEF OnWrite
  <2> QED
    BY <1>10, <2>1, Drains, CallbackKeeps
<1>11. ASSUME ConnectEstablished \/ RunShutdownInLoop \/ RunUserCallback
      PROVE  DestroyedWaitsOn
  <2>1. UNCHANGED pendingFunctors_ /\ \E fn \in {"connectEstablished", "shutdownInLoop",
           "writeComplete", "highWaterMark"} : Running(fn)
    BY <1>11 DEF ConnectEstablished, RunShutdownInLoop, RunUserCallback
  <2> QED
    BY <2>1, RunKeeps
<1>12. ASSUME RunSendInLoop PROVE DestroyedWaitsOn
  <2>1. Running("sendInLoop") /\ SendInLoop(Head(functors).msg)
    BY <1>12 DEF RunSendInLoop
  <2>2. Head(functors).msg \in Messages
    BY <2>1, RunningTypes, FunctorKinds
  <2> QED
    BY <2>1, <2>2, Sends, RunKeeps
<1>13. ASSUME NEW m \in Messages, CallbackSends(m) PROVE DestroyedWaitsOn
  <2>1. SendInLoop(m) /\ UNCHANGED functors
    BY <1>13 DEF CallbackSends
  <2> QED
    BY <2>1, Sends, CallbackKeeps
<1>14. ASSUME CallbackReturns \/ CallbackShutsDown \/ Destroy
      PROVE  DestroyedWaitsOn
  BY <1>14, CallbackKeeps DEF CallbackReturns, CallbackShutsDown, Destroy
<1>15. ASSUME NEW u \in Users,
              \/ CallbackShares(u) \/ \E m \in Messages : SendTests(u, m)
              \/ ShutdownTests(u) \/ ShutdownStores(u) \/ Releases(u)
       PROVE  DestroyedWaitsOn
  BY <1>15, CallbackKeeps
     DEF CallbackShares, SendTests, ShutdownTests, ShutdownStores, Releases
<1>16. ASSUME UNCHANGED cVars PROVE DestroyedWaitsOn
  BY <1>16, CallbackKeeps DEF cVars
<1> QED
  BY <1>1, <1>2, <1>3, <1>4, <1>5, <1>6, <1>7, <1>8, <1>9, <1>10, <1>11, <1>12, <1>13,
     <1>14, <1>15, <1>16, StepKinds
----------------------------------------------------------------------------
(* Without a shutdown() on another thread: each step preserves CalmInv.    *)

\* The calls of connectionCallback_, one after the other.
LEMMA Reporting ==
  /\ Append(<<>>, "UP") = <<"UP">> /\ Append(<<"UP">>, "DOWN") = <<"UP", "DOWN">>
  /\ "DOWN" \in ToSet(<<"UP", "DOWN">>) /\ "DOWN" \notin ToSet(<<"UP">>)
  /\ "DOWN" \notin ToSet(<<>>)
<1>1. Append(<<>>, "UP") = <<"UP">> /\ Append(<<"UP">>, "DOWN") = <<"UP", "DOWN">>
  <2>1. Append(<<>>, "UP") = <<"UP">>
    OBVIOUS
  <2> QED
    BY <2>1, AppendSecond
<1>2. "DOWN" \in ToSet(<<"UP", "DOWN">>) /\ "DOWN" \notin ToSet(<<"UP">>)
  BY DEF ToSet
<1>3. "DOWN" \notin ToSet(<<>>)
  BY EmptyQueue
<1> QED
  BY <1>1, <1>2, <1>3

\* state_ tells what was reported.
LEMMA StateTells ==
  ASSUME TypesInv, ReportedInv
  PROVE  /\ Down <=> state_ = "kDisconnected"
         /\ state_ = "kConnecting" => cbs = <<>>
         /\ state_ \in {"kConnected", "kDisconnecting"} => cbs = <<"UP">>
         /\ state_ = "kDisconnected" => cbs = <<"UP", "DOWN">>
<1>1. state_ \in {"kConnecting", "kConnected", "kDisconnecting", "kDisconnected"}
  BY TypesKept DEF ConnTypes, States
<1>2. /\ state_ = "kConnecting" => cbs = <<>>
      /\ state_ \in {"kConnected", "kDisconnecting"} => cbs = <<"UP">>
      /\ state_ = "kDisconnected" => cbs = <<"UP", "DOWN">>
  BY DEF ReportedInv
<1> QED
  BY <1>1, <1>2, Reporting DEF Down

\* A round of events in which the channel may still be closed.
LEMMA ClosingCalls ==
  ASSUME TypesInv, EarlyInv, ReportedInv, RoundInv, NEW c \in {"handleClose", "handleRead"},
         Calling(c)
  PROVE  /\ ~Down /\ destroyedRuns # 1 /\ state_ \in {"kConnected", "kDisconnecting"}
         /\ todo' \cap {"handleClose", "handleRead"} = {}
<1>1. c \in todo /\ todo' = todo \ {c}
  BY DEF Calling
<1>2. ~Down /\ destroyedRuns # 1 /\ ~({"handleClose", "handleRead"} \subseteq todo)
  BY <1>1 DEF RoundInv
<1>3. state_ # "kConnecting" /\ state_ # "kDisconnected"
  BY <1>1, <1>2, StateTells DEF EarlyInv
<1> QED
  BY <1>1, <1>2, <1>3, TypesKept DEF ConnTypes, States

\* ReportedInv holds after the step.
LEMMA ReportedStep ==
  ASSUME Shutters = {}, TypesInv, EarlyInv, ReportedInv, RoundInv, [CNext]_cVars
  PROVE  ReportedInv'
<1> USE TypesKept DEF connVars, history, userVars
<1>1. \A u \in Users : upc'[u] \notin {"shutLoaded", "shutStored"}
  <2>1. \A u \in Users : ~ShutdownTests(u) /\ ~ShutdownStores(u) /\ ~ShutdownQueues(u)
    BY DEF ShutdownTests, ShutdownStores, ShutdownQueues, ReportedInv
  <2> QED
    BY <2>1, Writers DEF CallbackShares, SendTests, SendQueues, Releases, ReportedInv, UserTypes
<1>2. \A u \in Users : ~ShutdownStores(u)
  BY DEF ShutdownStores, ReportedInv
<1> DEFINE Cbs(s) == CASE s = "kConnecting" -> <<>>
                       [] s \in {"kConnected", "kDisconnecting"} -> <<"UP">>
                       [] s = "kDisconnected" -> <<"UP", "DOWN">>
<1>3. /\ Cbs("kConnecting") = <<>> /\ Cbs("kConnected") = <<"UP">>
      /\ Cbs("kDisconnecting") = <<"UP">> /\ Cbs("kDisconnected") = <<"UP", "DOWN">>
  OBVIOUS
<1>4. cbs' = Cbs(state_')
  <2>1. CASE OnClose \/ OnReadEof
    <3>1. state_' = "kDisconnected" /\ cbs' = Append(cbs, "DOWN")
      BY <2>1 DEF OnClose, OnReadEof, HandleClose
    <3>2. cbs = <<"UP">>
      BY <2>1, ClosingCalls, StateTells DEF OnClose, OnReadEof
    <3> QED
      BY <1>3, <3>1, <3>2, Reporting
  <2>2. CASE ConnectEstablished
    <3>1. state_' = "kConnected" /\ cbs' = Append(cbs, "UP") /\ state_ = "kConnecting"
      BY <2>2 DEF ConnectEstablished
    <3> QED
      BY <1>3, <3>1, Reporting, StateTells
  <2>3. CASE ConnectDestroyed /\ ReportsDown
    <3>1. state_' = "kDisconnected" /\ cbs' = Append(cbs, "DOWN") /\ state_ = "kConnected"
      BY <2>3 DEF ConnectDestroyed, ReportsDown
    <3> QED
      BY <1>3, <3>1, Reporting, StateTells
  <2>4. CASE CallbackShutsDown
    <3>1. state_' = "kDisconnecting" /\ cbs' = cbs /\ state_ = "kConnected"
      BY <2>4 DEF CallbackShutsDown
    <3> QED
      BY <1>3, <3>1, StateTells
  <2>5. CASE UNCHANGED <<state_, cbs>>
    BY <2>5 DEF ReportedInv
  <2>6. \/ OnClose \/ OnReadEof \/ ConnectEstablished \/ (ConnectDestroyed /\ ReportsDown)
        \/ CallbackShutsDown \/ UNCHANGED <<state_, cbs>>
    BY <1>2, Writers DEF ConnectDestroyed
  <2> QED
    BY <2>1, <2>2, <2>3, <2>4, <2>5, <2>6
<1> QED
  BY <1>1, <1>4 DEF ReportedInv

\* A raw functor is left by a user, and users do not see the server die.
LEMMA RawRuns ==
  ASSUME TypesInv, LoopInv, EarlyInv, RawInv, LeavesInv, NEW f \in ToSet(Queued), Raw(f),
         state_ # "kConnecting"
  PROVE  server = "up" /\ (destroyedRuns = 1 => Down)
<1>1. server = "up"
  BY TypesKept, TcpConnectionAssumption DEF RawInv, LoopInv, ServerTypes
<1> QED
  BY <1>1 DEF LeavesInv, EarlyInv

\* No other functor runs before connectEstablished.
LEMMA RunsLater ==
  ASSUME TypesInv, EarlyInv, NEW fn, Running(fn), fn # "connectEstablished",
         \/ UNCHANGED pendingFunctors_
         \/ \E h \in UserCallbacks : pendingFunctors_' = Append(pendingFunctors_, h)
  PROVE  state_ # "kConnecting"
<1>1. Head(Queued) = Head(functors) /\ Queued # <<>> /\ Head(functors).fn = fn
  BY RunFewer DEF Running
<1>2. state_ = "kConnecting" =>
        Queued \in {<<>>, <<Established>>, <<Established, Destroyed>>}
  BY DEF EarlyInv
<1> QED
  BY <1>1, <1>2, EarlyQueues, FunctorKinds

\* What connectDestroyed finds: it has not run, and the channel is in channels_.
LEMMA DestroyedFinds ==
  ASSUME TypesInv, LoopInv, EarlyInv, OutputInv, ReportedInv, ClosedInv, LeavesInv,
         ConnectDestroyed
  PROVE  /\ destroyedRuns = 0 /\ todo = {} /\ ~connections_ /\ state_ # "kConnecting"
         /\ Consistent(chan) /\ ~chan.aborted
         /\ chan.index = IF Down THEN "kDeleted" ELSE "kAdded"
<1>1. Running("connectDestroyed") /\ UNCHANGED pendingFunctors_
  BY DEF ConnectDestroyed, runRest
<1>2. Once(Queued, Destroyed)
  BY DEF LeavesInv
<1>3. Destroyed \in ToSet(Queued)
  BY <1>1, <1>2, RunKeeps
<1>4. destroyedRuns = 0 /\ ~connections_
  BY <1>3 DEF LeavesInv
<1>5. todo = {}
  BY <1>1 DEF Running, LoopInv
<1>6. state_ # "kConnecting"
  BY <1>1, RunsLater
<1>7. Consistent(chan) /\ ~chan.aborted
  BY DEF ClosedInv
<1>8. chan.index = IF Down THEN "kDeleted" ELSE "kAdded"
  BY <1>4, <1>6 DEF ClosedInv, OutputInv
<1> QED
  BY <1>4, <1>5, <1>6, <1>7, <1>8

\* ClosedInv holds after the step.
LEMMA ClosedStep ==
  ASSUME TypesInv, LoopInv, EarlyInv, LifeInv, RawInv, OutputInv,
         ReportedInv, ClosedInv, RoundInv, LeavesInv, [CNext]_cVars
  PROVE  ClosedInv'
<1> USE TypesKept DEF connVars, loopVars, history
<1>1. destroyedRuns \in {0, 1}
  BY DEF CallTypes, LeavesInv
<1>2. Consistent(chan) /\ ~chan.aborted /\ chan \in Channels
  BY DEF ClosedInv, Consistent
<1>3. CASE OnClose \/ OnReadEof
  <2>1. ~Down /\ destroyedRuns = 0 /\ state_ # "kConnecting"
    BY <1>1, <1>3, ClosingCalls DEF OnClose, OnReadEof
  <2>2. chan.index = "kAdded"
    BY <2>1 DEF OutputInv
  <2>3. chan' = DisableAll(chan) /\ UNCHANGED destroyedRuns
    BY <1>3 DEF OnClose, OnReadEof, HandleClose
  <2>4. ~IsWriting(chan')
    BY <1>2, <2>3, WriteInterestSet
  <2> QED
    BY <1>2, <2>1, <2>2, <2>3, <2>4, DisableAllAdded DEF ClosedInv
<1>4. ASSUME state_ # "kConnecting", ~Down, destroyedRuns = 0, life = "alive",
             lpc # "exited", chan' \in {chan, EnableWriting(chan), DisableWriting(chan)},
             UNCHANGED <<cbs, destroyedRuns>>
      PROVE  ClosedInv'
  <2>1. Consistent(chan') /\ ~chan'.aborted
    BY <1>4, ChannelOfUp
  <2>2. ~Down' /\ destroyedRuns' # 1
    BY <1>4 DEF Down
  <2> QED
    BY <2>1, <2>2 DEF ClosedInv
<1>5. CASE OnWrite
  <2>1. IsWriting(chan) /\ chan' \in {chan, DisableWriting(chan)}
    BY <1>5, Drains
  <2>2. todo # {} /\ lpc = "event" /\ UNCHANGED <<cbs, destroyedRuns>>
    BY <1>5 DEF OnWrite, Calling
  <2>3. ~Down /\ destroyedRuns = 0 /\ state_ # "kConnecting"
    BY <1>1, <2>1, <2>2 DEF ClosedInv, RoundInv, EarlyInv
  <2>4. life = "alive"
    BY <2>2, <2>3, InUse DEF Referenced
  <2> QED
    BY <1>4, <2>1, <2>2, <2>3, <2>4
<1>6. CASE ConnectEstablished
  <2>1. chan = NewChannel /\ destroyedRuns = 0 /\ cbs = <<>>
    BY <1>6 DEF ConnectEstablished, EarlyInv
  <2>2. chan' = EnableReading(chan) /\ cbs' = Append(cbs, "UP") /\ UNCHANGED destroyedRuns
    BY <1>6 DEF ConnectEstablished
  <2>3. chan.index = "kNew"
    BY <2>1 DEF NewChannel
  <2>4. ~Down'
    BY <1>6, <2>1, Reports, Reporting DEF Down
  <2> QED
    BY <1>2, <2>1, <2>2, <2>3, <2>4, EnableReadingNew DEF ClosedInv
<1>7. CASE ConnectDestroyed
  <2>1. /\ destroyedRuns = 0 /\ Consistent(chan) /\ ~chan.aborted
        /\ chan.index = IF Down THEN "kDeleted" ELSE "kAdded"
    BY <1>7, DestroyedFinds
  <2>2. destroyedRuns' = 1
    BY <1>7, <2>1 DEF ConnectDestroyed
  <2>3. CASE ReportsDown
    <3>1. chan' = RemoveChannel(DisableAll(chan))
      BY <1>7, <2>3 DEF ConnectDestroyed
    <3>2. ~Down
      BY <2>3, StateTells DEF ReportsDown
    <3>3. /\ Consistent(DisableAll(chan)) /\ DisableAll(chan).index = "kDeleted"
          /\ ~DisableAll(chan).aborted /\ DisableAll(chan) \in Channels
      BY <1>2, <2>1, <3>2, DisableAllAdded DEF Consistent
    <3>4. ~IsWriting(chan')
      BY <1>2, <3>1, <3>3, WriteInterestSet DEF IsWriting
    <3> QED
      BY <2>2, <3>1, <3>3, <3>4, RemoveChannelMapped DEF ClosedInv
  <2>4. CASE ~ReportsDown
    <3>1. chan' = RemoveChannel(chan) /\ UNCHANGED cbs
      BY <1>7, <2>4 DEF ConnectDestroyed
    <3>2. Down' => ~IsWriting(chan')
      BY <1>2, <3>1, WriteInterestSet DEF ClosedInv, IsWriting, Down
    <3> QED
      BY <2>1, <2>2, <3>1, <3>2, RemoveChannelMapped DEF ClosedInv
  <2> QED
    BY <2>3, <2>4
<1>8. CASE RunSendInLoop
  <2>1. Running("sendInLoop") /\ SendInLoop(Head(functors).msg) /\ life = "alive"
        /\ UNCHANGED <<wrShut, cbs, destroyedRuns>>
    BY <1>8 DEF RunSendInLoop
  <2>2. Head(functors).msg \in Messages
    BY <2>1, RunningTypes, FunctorKinds
  <2>3. /\ \/ UNCHANGED pendingFunctors_
           \/ \E h \in UserCallbacks : pendingFunctors_' = Append(pendingFunctors_, h)
        /\ state_ = "kDisconnected" => UNCHANGED chan
    BY <2>1, <2>2, Sends
  <2>4. Head(functors) \in ToSet(Queued) /\ Raw(Head(functors)) /\ lpc # "exited"
    BY <2>1, <2>3, RunFewer DEF Running, Raw
  <2>5. state_ # "kConnecting"
    BY <2>1, <2>3, RunsLater
  <2>6. destroyedRuns = 1 => Down
    BY <2>4, <2>5, RawRuns
  <2>7. CASE Down
    BY <2>1, <2>3, <2>7, StateTells DEF ClosedInv, Down
  <2>8. CASE ~Down
    <3>1. chan' \in {chan, EnableWriting(chan)}
      BY <2>1, <2>2, <2>8, SendsOutput
    <3> QED
      BY <1>1, <1>4, <2>1, <2>4, <2>5, <2>6, <2>8, <3>1
  <2> QED
    BY <2>7, <2>8
<1>9. ASSUME NEW m \in Messages, CallbackSends(m) PROVE ClosedInv'
  <2>1. inCallback /\ state_ = "kConnected" /\ SendInLoop(m)
        /\ UNCHANGED <<wrShut, cbs, destroyedRuns>>
    BY <1>9 DEF CallbackSends
  <2>2. ~Down /\ destroyedRuns = 0
    BY <1>1, <2>1, StateTells DEF RoundInv
  <2>3. life = "alive" /\ lpc # "exited"
    BY <2>1, InUse DEF Referenced, LoopInv
  <2>4. chan' \in {chan, EnableWriting(chan)}
    BY <2>1, <2>2, SendsOutput
  <2> QED
    BY <1>4, <2>1, <2>2, <2>3, <2>4
<1>10. CASE IoLoopExits \/ Destroy
  <2>1. /\ chan' \in {[chan EXCEPT !.reg = FALSE],
                      [chan EXCEPT !.reg = FALSE, !.interest = {}]}
        /\ UNCHANGED <<cbs, destroyedRuns>>
    BY <1>10 DEF IoLoopExits, Destroy
  <2>2. Consistent(chan')
    BY <1>2, <2>1, Unregistered
  <2>3. chan'.events = chan.events /\ chan'.index = chan.index /\ ~chan'.aborted /\ ~chan'.reg
    BY <1>2, <2>1 DEF Channels
  <2> QED
    BY <2>1, <2>2, <2>3 DEF ClosedInv, Down, IsWriting
<1>11. CASE UNCHANGED <<chan, cbs, destroyedRuns>>
  BY <1>11 DEF ClosedInv, Down
<1> QED
  BY <1>3, <1>5, <1>6, <1>7, <1>8, <1>9, <1>10, <1>11, Writers

\* What epoll reports never makes for both handleClose and handleRead.
LEMMA ReportedOnce ==
  ASSUME NEW writable
  PROVE  ~({"handleClose", "handleRead"} \subseteq Reported(writable))
<1>1. "handleClose" # "handleRead" /\ "handleClose" # "handleError"
      /\ "handleClose" # "handleWrite" /\ "handleRead" # "handleError"
      /\ "handleRead" # "handleWrite"
  OBVIOUS
<1> QED
  BY <1>1 DEF Reported

\* RoundInv holds after the step.
LEMMA RoundStep ==
  ASSUME TypesInv, LoopInv, EarlyInv, OutputInv, ReportedInv, ClosedInv, RoundInv,
         LeavesInv, [CNext]_cVars
  PROVE  RoundInv'
<1> USE TypesKept DEF connVars, loopVars, history
<1>1. destroyedRuns \in {0, 1}
  BY DEF CallTypes, LeavesInv
<1>2. CASE OnClose \/ OnReadEof
  <2>1. destroyedRuns = 0 /\ todo' \cap {"handleClose", "handleRead"} = {}
    BY <1>1, <1>2, ClosingCalls DEF OnClose, OnReadEof
  <2>2. UNCHANGED destroyedRuns
    BY <1>2 DEF OnClose, OnReadEof
  <2> QED
    BY <2>1, <2>2 DEF RoundInv
<1>3. CASE ConnectEstablished
  <2>1. destroyedRuns = 0 /\ todo = {} /\ UNCHANGED <<todo, destroyedRuns>>
    BY <1>3 DEF ConnectEstablished, EarlyInv, runRest
  <2> QED
    BY <2>1 DEF RoundInv
<1>4. CASE ConnectDestroyed
  <2>1. todo = {} /\ UNCHANGED todo /\ state_ # "kConnecting"
    BY <1>4, DestroyedFinds DEF ConnectDestroyed, runRest
  <2>2. state_' \in {"kDisconnecting", "kDisconnected"}
    BY <1>4, <2>1 DEF ConnectDestroyed, ReportsDown, ConnTypes, States
  <2> QED
    BY <2>1, <2>2 DEF RoundInv
<1>5. ASSUME NEW writable \in BOOLEAN, Event(writable) PROVE RoundInv'
  <2>1. chan.reg /\ todo' = Reported(writable) /\ UNCHANGED <<cbs, destroyedRuns>>
    BY <1>5 DEF Event
  <2>2. ~Down /\ destroyedRuns # 1
    BY <2>1 DEF ClosedInv
  <2> QED
    BY <2>1, <2>2, ReportedOnce DEF RoundInv, Down
<1>6. CASE CallbackShutsDown
  <2>1. destroyedRuns # 1 /\ UNCHANGED <<todo, cbs, destroyedRuns>>
    BY <1>6 DEF CallbackShutsDown, RoundInv
  <2> QED
    BY <2>1 DEF RoundInv, Down
<1>7. \A u \in Users : ~ShutdownStores(u)
  BY DEF ShutdownStores, ReportedInv
<1>8. CASE UNCHANGED <<state_, cbs, destroyedRuns>> /\ todo' \subseteq todo
  BY <1>8 DEF RoundInv, Down
<1>9. OnError \/ OnReadData \/ OnReadError \/ OnWrite \/ OnWriteNothing
        => todo' \subseteq todo
  BY DEF OnError, OnReadData, OnReadError, OnWrite, OnWriteNothing, Calling
<1> QED
  BY <1>2, <1>3, <1>4, <1>5, <1>6, <1>7, <1>8, <1>9, Writers

\* LeavesInv holds after the step.
LEMMA LeavesStep ==
  ASSUME TypesInv, SentInv, LoopInv, EarlyInv, OutputInv, ReportedInv, ClosedInv,
         RoundInv, LeavesInv, [CNext]_cVars
  PROVE  LeavesInv'
<1> USE TypesKept DEF connVars, loopVars, serverVars, history, queueRest
<1>1. /\ destroyedRuns \in {0, 1} /\ mainq \in {0, 1} /\ server \in {"up", "down"}
      /\ connections_ \in BOOLEAN /\ Once(Queued, Destroyed)
  BY DEF CallTypes, ServerTypes, LeavesInv
<1>2. /\ \/ DestroyedWaitsOn \/ ConnectDestroyed
         \/ RemoveConnectionInLoop \/ (DestroyServer /\ connections_)
         \/ IoLoopExits
      /\ RemoveConnectionInLoop \/ (DestroyServer /\ connections_) =>
           /\ Destroyed \notin ToSet(Queued) => Once(Queued', Destroyed)
           /\ Destroyed \in ToSet(Queued')
      /\ IoLoopExits => Queued' = <<>>
      /\ ConnectDestroyed =>
           Once(Queued', Destroyed) /\ Destroyed \in ToSet(Queued) \ ToSet(Queued')
  BY <1>1, DestroyedStep
<1>3. CASE NewConnection
  <2>1. /\ server = "up" /\ life = "none" /\ life' = "alive" /\ connections_' = TRUE
        /\ UNCHANGED <<mainq, server, cbs, destroyedRuns, lpc>>
    BY <1>3 DEF NewConnection
  <2>2. mainq = 0 /\ destroyedRuns = 0 /\ Queued = <<>> /\ cbs = <<>>
    BY <2>1 DEF EarlyInv
  <2>3. DestroyedWaitsOn
    BY <1>2, <1>3 DEF NewConnection, RemoveConnectionInLoop, DestroyServer, IoLoopExits,
       ConnectDestroyed
  <2>4. Destroyed \notin ToSet(Queued') /\ Once(Queued', Destroyed)
    BY <2>2, <2>3, EmptyQueue DEF DestroyedWaitsOn
  <2>5. ~Down'
    BY <2>1, <2>2, Reporting DEF Down
  <2>6. mainq' = 0 /\ destroyedRuns' = 0 /\ server' = "up"
    BY <2>1, <2>2
  <2> QED
    BY <2>1, <2>4, <2>5, <2>6 DEF LeavesInv
<1>4. CASE RemoveConnectionInLoop
  <2>1. /\ server = "up" /\ mainq = 1 /\ mainq' = 0 /\ connections_' = FALSE
        /\ UNCHANGED <<life, server, cbs, destroyedRuns, lpc>>
    BY <1>1, <1>4 DEF RemoveConnectionInLoop, RemovalQueued, EraseEntry
  <2>2. Down /\ life # "none" /\ Down'
    BY <2>1 DEF LeavesInv, EarlyInv, Down
  <2>3. connections_ /\ destroyedRuns = 0 /\ Destroyed \notin ToSet(Queued)
    BY <2>1, <2>2 DEF LeavesInv
  <2> QED
    BY <1>2, <1>4, <2>1, <2>2, <2>3 DEF LeavesInv
<1>5. CASE DestroyServer
  <2>1. /\ server' = "down" /\ connections_' = FALSE
        /\ UNCHANGED <<life, mainq, cbs, destroyedRuns, lpc>>
    BY <1>5 DEF DestroyServer
  <2>2. CASE connections_
    <3>1. destroyedRuns = 0 /\ Destroyed \notin ToSet(Queued)
      BY <2>2 DEF LeavesInv
    <3> QED
      BY <1>1, <1>2, <1>5, <2>1, <2>2, <3>1 DEF LeavesInv, Down
  <2>3. CASE ~connections_
    <3>1. DestroyedWaitsOn
      BY <1>2, <1>5, <2>3 DEF DestroyServer, RemoveConnectionInLoop, IoLoopExits,
         ConnectDestroyed
    <3> QED
      BY <2>1, <2>3, <3>1 DEF LeavesInv, DestroyedWaitsOn, Down
  <2> QED
    BY <2>2, <2>3
<1>6. CASE IoLoopExits
  <2>1. /\ lpc' = "exited" /\ server = "down"
        /\ UNCHANGED <<life, connections_, mainq, server, cbs, destroyedRuns>>
    BY <1>6 DEF IoLoopExits
  <2>2. Destroyed \notin ToSet(Queued') /\ Once(Queued', Destroyed)
    BY <1>2, <1>6, EmptyQueue DEF Once
  <2> QED
    BY <2>1, <2>2 DEF LeavesInv, Down
<1>7. CASE MainLoopDestroyed
  <2>1. /\ lpc = "exited" /\ mainq' = 0
        /\ UNCHANGED <<life, connections_, server, cbs, destroyedRuns, lpc>>
    BY <1>7 DEF MainLoopDestroyed
  <2>2. server = "down"
    BY <2>1 DEF LoopInv
  <2>3. DestroyedWaitsOn
    BY <1>2, <1>7 DEF MainLoopDestroyed, RemoveConnectionInLoop, IoLoopExits,
       ConnectDestroyed, DestroyServer, Running
  <2> QED
    BY <2>1, <2>2, <2>3 DEF LeavesInv, DestroyedWaitsOn, Down
<1>8. CASE OnClose \/ OnReadEof
  <2>1. /\ mainq' = mainq + 1 /\ lpc = "event"
        /\ UNCHANGED <<life, connections_, server, destroyedRuns, lpc>>
    BY <1>8 DEF OnClose, OnReadEof, HandleClose, Calling, eventRest
  <2>2. ~Down /\ state_ # "kConnecting"
    BY <1>8, ClosingCalls DEF OnClose, OnReadEof
  <2>3. mainq' = 1 /\ life # "none"
    BY <1>1, <2>1, <2>2 DEF LeavesInv, EarlyInv
  <2>4. Down'
    BY <1>8, Reports
  <2>5. DestroyedWaitsOn
    BY <1>2, <1>8, <2>1 DEF OnClose, OnReadEof, HandleClose, RemoveConnectionInLoop,
       IoLoopExits, ConnectDestroyed, DestroyServer, Running
  <2> QED
    BY <2>1, <2>2, <2>3, <2>4, <2>5 DEF LeavesInv, DestroyedWaitsOn
<1>9. CASE ConnectDestroyed
  <2>1. destroyedRuns = 0 /\ ~connections_ /\ state_ # "kConnecting"
    BY <1>9, DestroyedFinds
  <2>2. destroyedRuns' = 1 /\ UNCHANGED <<life, connections_, mainq, server, lpc>>
    BY <1>9, <2>1 DEF ConnectDestroyed, runRest
  <2>3. Down => Down'
    BY Reports
  <2> QED
    BY <1>2, <1>9, <2>1, <2>2, <2>3 DEF LeavesInv, EarlyInv
<1>10. CASE /\ ~NewConnection /\ ~RemoveConnectionInLoop /\ ~DestroyServer /\ ~IoLoopExits
            /\ ~MainLoopDestroyed /\ ~OnClose /\ ~OnReadEof /\ ~ConnectDestroyed
  <2>1. UNCHANGED <<connections_, mainq, server, destroyedRuns>>
    BY <1>10, Writers
  <2>2. Down' <=> Down
    BY <1>10, Writers, Reports DEF Down
  <2>3. DestroyedWaitsOn
    BY <1>2, <1>10
  <2>4. life' # "none" => life # "none"
    BY <1>10, Writers DEF Destroy
  <2>5. lpc' # "exited" => lpc # "exited"
    BY <1>10, Writers DEF SwapFunctors, EndFunctors, Event
  <2> QED
    BY <2>1, <2>2, <2>3, <2>4, <2>5 DEF LeavesInv, DestroyedWaitsOn
<1> QED
  BY <1>3, <1>4, <1>5, <1>6, <1>7, <1>8, <1>9, <1>10
----------------------------------------------------------------------------
(* The theorems.                                                           *)

\* ConnInv is invariant.
LEMMA ConnInvHolds == CSpec => []ConnInv
<1>a. MaxArrivals \in 0..MaxArrivals
  BY TcpConnectionAssumption
<1>1. CInit => ConnInv
  <2> SUFFICES ASSUME CInit PROVE ConnInv
    OBVIOUS
  <2> USE DEF CInit
  <2>1. TypesInv
    <3>1. <<>> \in Seq(Functors) /\ <<>> \in Seq(Messages \X Nat)
          /\ <<>> \in Seq({"UP", "DOWN"})
      BY EmptySeq
    <3>2. ConnTypes
      BY <3>1, NewIsConsistent DEF ConnTypes, States, Consistent
    <3>3. SockTypes
      BY <1>a, <3>1 DEF SockTypes
    <3> QED
      BY <3>1, <3>2, <3>3
         DEF TypesInv, LoopTypes, ServerTypes, UserTypes, UserPc, CallTypes
  <2>2. Queued = <<>> /\ ToSet(Queued) = {}
    <3>1. Queued = <<>>
      BY EmptySeq, TwoQueues DEF Queued
    <3> QED
      BY <3>1, EmptyQueue
  <2>3. SentInv
    BY <2>2, EmptySeq, EmptyQueue DEF SentInv
  <2>4. EarlyInv
    BY <2>2 DEF EarlyInv
  <2>5. LoopInv /\ LifeInv /\ RawInv
    BY <2>2 DEF LoopInv, LifeInv, RawInv
  <2>6. ~Down /\ ~IsWriting(chan)
    BY Reporting DEF Down, IsWriting, NewChannel
  <2>7. OutputInv /\ ExitedInv
    BY <2>6 DEF OutputInv, FinAfterData, ExitedInv
  <2>8. ReportedInv
    BY DEF ReportedInv
  <2>b. StreamInv
    <3>1. Len(accepted) = 0 /\ wire \o outputBuffer_ = <<>>
      BY EmptySeq, TwoQueues
    <3>2. Len([i \in 1..Len(accepted) |-> Bytes(accepted[i])]) = 0
      BY <3>1, NoBytes
    <3> QED
      BY <3>1, <3>2, FlatEmpty DEF StreamInv
  <2>a. /\ chan = NewChannel /\ destroyedRuns = 0 /\ todo = {} /\ mainq = 0 /\ life = "none"
        /\ connections_ = FALSE /\ server = "up"
    OBVIOUS
  <2> HIDE DEF CInit
  <2>9. ClosedInv /\ RoundInv
    <3>1. ClosedInv
      BY <2>6, <2>a, NewIsConsistent DEF ClosedInv
    <3>2. RoundInv
      BY <2>6, <2>a DEF RoundInv
    <3> QED
      BY <3>1, <3>2
  <2>10. LeavesInv
    <3>1. Once(Queued, Destroyed) /\ Destroyed \notin ToSet(Queued)
      BY <2>2, EmptyQueue
    <3> QED
      BY <2>6, <2>a, <3>1 DEF LeavesInv
  <2> QED
    BY <2>1, <2>3, <2>4, <2>5, <2>7, <2>8, <2>b, <2>9, <2>10 DEF ConnInv, CalmInv
<1>2. ConnInv /\ [CNext]_cVars => ConnInv'
  <2> SUFFICES ASSUME ConnInv, [CNext]_cVars PROVE ConnInv'
    OBVIOUS
  <2>1. /\ TypesInv /\ SentInv /\ LoopInv /\ EarlyInv /\ LifeInv /\ RawInv
        /\ OutputInv /\ ExitedInv /\ StreamInv
    BY DEF ConnInv
  <2>2. /\ TypesInv' /\ SentInv' /\ LoopInv' /\ EarlyInv' /\ LifeInv' /\ RawInv'
        /\ OutputInv' /\ ExitedInv' /\ StreamInv'
    BY <2>1, TypesStep, SentStep, LoopStep, EarlyStep, LifeStep, RawStep, OutputStep,
       ExitedStep, StreamStep
  <2>3. ASSUME Shutters = {} PROVE CalmInv'
    <3>1. ReportedInv /\ ClosedInv /\ RoundInv /\ LeavesInv
      BY <2>3 DEF ConnInv, CalmInv
    <3>2. ReportedInv' /\ ClosedInv' /\ RoundInv' /\ LeavesInv'
      BY <2>1, <2>3, <3>1, ReportedStep, ClosedStep, RoundStep, LeavesStep
    <3> QED
      BY <3>2 DEF CalmInv
  <2> QED
    BY <2>2, <2>3 DEF ConnInv
<1> QED
  BY <1>1, <1>2, PTL DEF CSpec

\* The byte stream: the kernel and outputBuffer_ have the accepted messages in order,
\* no byte lost, repeated or overtaken (TcpConnection::sendInLoop, handleWrite).
THEOREM StreamKept == CSpec => []StreamInOrder
<1>1. ConnInv => StreamInOrder
  <2> SUFFICES ASSUME ConnInv PROVE StreamInOrder
    OBVIOUS
  <2>1. accepted \in Seq(Messages)
    BY DEF ConnInv, SentInv
  <2> DEFINE b == [i \in 1..Len(accepted) |-> Bytes(accepted[i])]
  <2>2. b \in Seq(Seq(Messages \X Nat))
    <3>1. \A m \in Messages : Bytes(m) \in Seq(Messages \X Nat)
      BY MessageBytes
    <3>2. \A i \in 1..Len(accepted) : accepted[i] \in Messages
      BY <2>1, ElementOfSeq
    <3> QED
      BY <2>1, <3>1, <3>2, IsASeq, LenProperties
  <2>3. Flat(b, wire \o outputBuffer_)
    BY DEF ConnInv, StreamInv
  <2> HIDE DEF b
  <2>4. FlattenSeq(b) = wire \o outputBuffer_
    BY <2>2, <2>3, FlatIsFlattenSeq
  <2> QED
    BY <2>4 DEF StreamInOrder, b
<1> QED
  BY <1>1, ConnInvHolds, PTL

\* While a connection is up, the poller watches for EPOLLOUT exactly when bytes wait
\* in outputBuffer_ (TcpConnection::sendInLoop, handleWrite, Channel::enableWriting).
THEOREM OutputNeverStuck == CSpec => []WriteInterest
<1>1. ConnInv => WriteInterest
  <2> SUFFICES ASSUME ConnInv, life = "alive", ~Down, destroyedRuns = 0, lpc # "exited"
               PROVE  outputBuffer_ # <<>> <=> chan.reg /\ "W" \in chan.interest
    BY DEF WriteInterest
  <2>1. EarlyInv /\ OutputInv
    BY DEF ConnInv
  <2>2. IsWriting(chan) <=> outputBuffer_ # <<>>
    BY <2>1 DEF OutputInv
  <2>3. CASE state_ = "kConnecting"
    BY <2>1, <2>3 DEF EarlyInv, NewChannel
  <2>4. CASE state_ # "kConnecting"
    <3>1. chan.reg /\ chan.interest = chan.events
      BY <2>1, <2>4 DEF OutputInv
    <3> QED
      BY <2>2, <3>1 DEF IsWriting
  <2> QED
    BY <2>3, <2>4
<1> QED
  BY <1>1, ConnInvHolds, PTL

\* The write side of a connection that is up is shut down only when no accepted byte
\* waits (TcpConnection::shutdownInLoop, handleWrite).
THEOREM FinFollowsData == CSpec => []FinAfterData
<1>1. ConnInv => FinAfterData
  BY DEF ConnInv, OutputInv
<1> QED
  BY <1>1, ConnInvHolds, PTL

\* Whoever drops the last reference, and whenever: once the connection is freed,
\* only sendInLoop and shutdownInLoop can still reach it.  Nothing keeps these two
\* from it: RunsOnLiveObject is not a theorem (TcpConnection::send, shutdown,
\* handleEvent's tie, TcpServer::removeConnectionInLoop).
THEOREM FreedOutOfReach == CSpec => []OnlyThisDangles
<1>1. ConnInv => OnlyThisDangles
  <2> SUFFICES ASSUME ConnInv, life = "destroyed"
               PROVE  /\ todo = {} /\ ~inCallback /\ ~chan.reg
                      /\ \A f \in ToSet(Queued) : f.fn \in {"sendInLoop", "shutdownInLoop"}
                      /\ \A u \in Users : upc[u] \in {"none", "gone"}
    BY DEF OnlyThisDangles
  <2>1. ~Referenced /\ ~chan.reg
    BY DEF ConnInv, LifeInv
  <2>2. \A f \in ToSet(Queued) : Raw(f)
    BY <2>1 DEF Referenced
  <2> QED
    BY <2>1, <2>2 DEF Referenced, Raw
<1> QED
  BY <1>1, ConnInvHolds, PTL

\* What holds of the channel when no other thread shuts the connection down.
LEMMA CalmChannel ==
  ASSUME Shutters = {}, ConnInv
  PROVE  /\ Consistent(chan) /\ ~chan.aborted
         /\ Down \/ destroyedRuns = 1 => chan.index # "kAdded" /\ ~chan.reg
         /\ destroyedRuns = 1 => chan.index = "kNew"
         /\ state_ = "kConnecting" => chan.index = "kNew" /\ ~chan.reg
         /\ state_ # "kConnecting" /\ ~Down /\ destroyedRuns # 1 =>
              /\ chan.index = "kAdded"
              /\ life = "alive" /\ lpc # "exited" => chan.reg /\ chan.interest = chan.events
<1>1. TypesInv /\ ClosedInv /\ EarlyInv /\ OutputInv /\ LeavesInv
  BY DEF ConnInv, CalmInv
<1>2. destroyedRuns \in {0, 1}
  BY <1>1, TypesKept DEF CallTypes, LeavesInv
<1>3. /\ Consistent(chan) /\ ~chan.aborted
      /\ Down \/ destroyedRuns = 1 => chan.index # "kAdded" /\ ~chan.reg
      /\ destroyedRuns = 1 => chan.index = "kNew"
  BY <1>1 DEF ClosedInv
<1>4. state_ = "kConnecting" => chan.index = "kNew" /\ ~chan.reg
  BY <1>1 DEF EarlyInv, NewChannel
<1>5. state_ # "kConnecting" /\ ~Down /\ destroyedRuns # 1 =>
        /\ chan.index = "kAdded"
        /\ life = "alive" /\ lpc # "exited" => chan.reg /\ chan.interest = chan.events
  BY <1>1, <1>2 DEF OutputInv
<1> QED
  BY <1>3, <1>4, <1>5

\* Neither an assert nor a LOG_FATAL of EPollPoller is reached, and index_ says what
\* epoll has (EPollPoller::updateChannel, removeChannel).
THEOREM BooksBalance ==
  ASSUME Shutters = {}
  PROVE  CSpec => []PollerConsistent
<1>1. ConnInv => PollerConsistent
  <2> SUFFICES ASSUME ConnInv PROVE PollerConsistent
    OBVIOUS
  <2>1. TypesInv /\ EarlyInv /\ LifeInv /\ ExitedInv
    BY DEF ConnInv
  <2>2. life = "alive" /\ lpc # "exited" => (chan.reg <=> chan.index = "kAdded")
    BY CalmChannel
  <2>3. ASSUME chan.reg PROVE chan.interest = chan.events
    <3>1. lpc # "exited" /\ life # "destroyed"
      BY <2>1, <2>3 DEF ExitedInv, LifeInv
    <3>2. state_ # "kConnecting" /\ ~Down /\ destroyedRuns # 1
      BY <2>3, CalmChannel
    <3>3. life = "alive"
      BY <2>1, <3>1, <3>2, TypesKept DEF EarlyInv, ConnTypes
    <3> QED
      BY <3>1, <3>2, <3>3, CalmChannel
  <2> QED
    BY <2>2, <2>3, CalmChannel DEF PollerConsistent
<1> QED
  BY <1>1, ConnInvHolds, PTL

\* The poller knows no channel of a connection that is gone
\* (TcpConnection::connectDestroyed, Channel::remove).
THEOREM PollerKnowsLive ==
  ASSUME Shutters = {}
  PROVE  CSpec => []RegisteredChannelExists
<1>1. ConnInv => RegisteredChannelExists
  <2> SUFFICES ASSUME ConnInv, chan.mapped, lpc # "exited" PROVE life = "alive"
    BY DEF RegisteredChannelExists
  <2>1. TypesInv /\ EarlyInv /\ LifeInv /\ LeavesInv
    BY DEF ConnInv, CalmInv
  <2>2. chan.index # "kNew"
    BY CalmChannel DEF Consistent
  <2>3. state_ # "kConnecting" /\ destroyedRuns # 1
    BY <2>2, CalmChannel
  <2>4. life # "none"
    BY <2>1, <2>3 DEF EarlyInv
  <2>5. connections_ \/ Destroyed \in ToSet(Queued)
    BY <2>1, <2>3, <2>4 DEF LeavesInv
  <2>6. Referenced
    BY <2>5, FunctorKinds DEF Referenced
  <2> QED
    BY <2>1, <2>3, <2>6, InUse
<1> QED
  BY <1>1, ConnInvHolds, PTL

\* connectDestroyed runs once at most, and after the connection has left the map
\* (TcpServer::removeConnectionInLoop, ~TcpServer).
THEOREM DestroyedAtMostOnce ==
  ASSUME Shutters = {}
  PROVE  CSpec => []DestroyedOnce
<1>1. ConnInv => DestroyedOnce
  BY DEF ConnInv, CalmInv, LeavesInv, DestroyedOnce
<1> QED
  BY <1>1, ConnInvHolds, PTL

\* The assert of ~TcpConnection holds while the server lives.
THEOREM DestructorAssertHolds ==
  ASSUME Shutters = {}
  PROVE  CSpec => []DestructorAssert
<1>1. ConnInv => DestructorAssert
  <2> SUFFICES ASSUME ConnInv, life = "destroyed", server = "up"
               PROVE  state_ = "kDisconnected"
    BY DEF DestructorAssert
  <2>1. TypesInv /\ LifeInv /\ ReportedInv /\ LeavesInv
    BY DEF ConnInv, CalmInv
  <2>2. ~connections_
    BY <2>1 DEF LifeInv, Referenced
  <2>3. Down
    BY <2>1, <2>2 DEF LeavesInv
  <2> QED
    BY <2>1, <2>3, StateTells
<1> QED
  BY <1>1, ConnInvHolds, PTL
----------------------------------------------------------------------------
(* The connection as the one entry of a ConnectionTable.                   *)

\* Phase as a function of what it depends on.
PhaseOf(l, reported) ==
    IF l = "none" THEN "none"
    ELSE IF l = "destroyed" THEN "freed"
    ELSE CASE reported = <<>>             -> "made"
           [] reported = <<"UP">>         -> "up"
           [] reported = <<"UP", "DOWN">> -> "down"
           [] OTHER                       -> "reported wrongly"

\* Phase from the life of the object and the reports made of it.
LEMMA PhaseIs ==
  /\ \A r : PhaseOf("none", r) = "none" /\ PhaseOf("destroyed", r) = "freed"
  /\ PhaseOf("alive", <<>>) = "made" /\ PhaseOf("alive", <<"UP">>) = "up"
  /\ PhaseOf("alive", <<"UP", "DOWN">>) = "down"
  /\ Phase = PhaseOf(life, cbs) /\ Phase' = PhaseOf(life', cbs')
<1>1. <<>> # <<"UP">> /\ <<>> # <<"UP", "DOWN">> /\ <<"UP">> # <<"UP", "DOWN">>
  <2>1. Len(<<>>) = 0 /\ Len(<<"UP">>) = 1 /\ Len(<<"UP", "DOWN">>) = 2
    OBVIOUS
  <2> QED
    BY <2>1
<1>2. \A r : PhaseOf("none", r) = "none" /\ PhaseOf("destroyed", r) = "freed"
  BY DEF PhaseOf
<1>3. /\ PhaseOf("alive", <<>>) = "made" /\ PhaseOf("alive", <<"UP">>) = "up"
      /\ PhaseOf("alive", <<"UP", "DOWN">>) = "down"
  BY <1>1 DEF PhaseOf
<1>4. Phase = PhaseOf(life, cbs) /\ Phase' = PhaseOf(life', cbs')
  BY DEF Phase, PhaseOf
<1> QED
  BY <1>2, <1>3, <1>4

\* A step of the connection is a step of the table or none.
LEMMA TableStep ==
  ASSUME Shutters = {}, ConnInv, [CNext]_cVars
  PROVE  [CT!CTNext]_(CT!ctVars)
<1> DEFINE now  == [c \in {"this"} |-> PhaseOf(life, cbs)]
           next == [c \in {"this"} |-> PhaseOf(life', cbs')]
           map  == IF connections_ THEN {"this"} ELSE {}
           mapN == IF connections_' THEN {"this"} ELSE {}
<1>1. /\ TypesInv /\ LoopInv /\ EarlyInv /\ LifeInv
      /\ ReportedInv /\ RoundInv /\ LeavesInv /\ ClosedInv /\ OutputInv
  BY DEF ConnInv, CalmInv
<1>2. connections_ \in BOOLEAN /\ server \in {"up", "down"}
      /\ life \in {"none", "alive", "destroyed"}
  BY <1>1, TypesKept DEF ServerTypes, ConnTypes
<1>3. /\ [c \in {"this"} |-> Phase] = now
      /\ [c \in {"this"} |-> Phase]' = next
  BY PhaseIs
<1>4. /\ [now EXCEPT !["this"] = PhaseOf(life', cbs')] = next
      /\ now["this"] = PhaseOf(life, cbs)
  OBVIOUS
<1> HIDE DEF now, next
<1>5. CASE UNCHANGED <<life, cbs, connections_, server>>
  <2>1. next = now /\ mapN = map
    BY <1>5 DEF now, next
  <2> QED
    BY <1>3, <1>5, <2>1 DEF CT!ctVars
<1>6. CASE NewConnection
  <2>1. /\ server = "up" /\ life = "none" /\ life' = "alive"
        /\ connections_' = TRUE /\ UNCHANGED <<server, cbs>>
    BY <1>6 DEF NewConnection, history
  <2>2. cbs = <<>>
    BY <1>1, <2>1 DEF EarlyInv
  <2>3. PhaseOf(life, cbs) = "none" /\ PhaseOf(life', cbs') = "made"
    BY <2>1, <2>2, PhaseIs
  <2>4. CT!Make("this")
    BY <1>3, <1>4, <2>1, <2>3 DEF CT!Make
  <2> QED
    BY <2>4 DEF CT!CTNext
<1>7. CASE ConnectEstablished
  <2>1. /\ state_ = "kConnecting" /\ cbs' = Append(cbs, "UP")
        /\ UNCHANGED <<life, connections_, server>>
        /\ Running("connectEstablished") /\ UNCHANGED pendingFunctors_
    BY <1>7 DEF ConnectEstablished, serverVars, runRest
  <2>2. Head(functors) \in ToSet(Queued) /\ Head(functors).fn = "connectEstablished"
        /\ Queued # <<>>
    BY <1>1, <2>1, RunFewer DEF Running
  <2>3. life = "alive"
    BY <1>1, <1>2, <2>1, <2>2 DEF EarlyInv, LifeInv, Referenced, Raw
  <2>4. cbs = <<>> /\ cbs' = <<"UP">>
    BY <1>1, <2>1, StateTells, Reporting
  <2>5. PhaseOf(life, cbs) = "made" /\ PhaseOf(life', cbs') = "up"
    BY <2>1, <2>3, <2>4, PhaseIs
  <2>6. CT!ReportUp("this")
    BY <1>3, <1>4, <2>1, <2>5 DEF CT!ReportUp
  <2> QED
    BY <2>6 DEF CT!CTNext
<1>8. ASSUME life = "alive", state_ \in {"kConnected", "kDisconnecting"},
             cbs' = Append(cbs, "DOWN"), UNCHANGED <<life, connections_, server>>
      PROVE  CT!CTNext
  <2>1. cbs = <<"UP">> /\ cbs' = <<"UP", "DOWN">>
    BY <1>1, <1>8, StateTells, Reporting
  <2>2. PhaseOf(life, cbs) = "up" /\ PhaseOf(life', cbs') = "down"
    BY <1>8, <2>1, PhaseIs
  <2>3. CT!ReportDown("this")
    BY <1>3, <1>4, <1>8, <2>2 DEF CT!ReportDown
  <2> QED
    BY <2>3 DEF CT!CTNext
<1>9. CASE OnClose \/ OnReadEof
  <2>1. todo # {} /\ cbs' = Append(cbs, "DOWN") /\ UNCHANGED <<life, connections_, server>>
    BY <1>9 DEF OnClose, OnReadEof, HandleClose, Calling
  <2>2. state_ \in {"kConnected", "kDisconnecting"}
    BY <1>1, <1>9, ClosingCalls DEF OnClose, OnReadEof
  <2>3. life = "alive"
    BY <1>1, <2>1, <2>2, InUse DEF Referenced
  <2> QED
    BY <1>8, <2>1, <2>2, <2>3
<1>10. CASE ConnectDestroyed /\ ReportsDown
  <2>1. /\ state_ = "kConnected" /\ cbs' = Append(cbs, "DOWN")
        /\ UNCHANGED <<life, connections_, server>>
        /\ Running("connectDestroyed") /\ UNCHANGED pendingFunctors_
    BY <1>10 DEF ConnectDestroyed, ReportsDown, serverVars, runRest
  <2>2. Head(functors) \in ToSet(Queued) /\ Head(functors).fn = "connectDestroyed"
    BY <1>1, <2>1, RunFewer DEF Running
  <2>3. life = "alive"
    BY <1>1, <2>1, <2>2, InUse DEF Referenced, Raw
  <2> QED
    BY <1>8, <2>1, <2>3
<1>11. CASE RemoveConnectionInLoop
  <2>1. /\ server = "up" /\ mainq > 0 /\ connections_' = FALSE
        /\ UNCHANGED <<life, cbs, server>>
    BY <1>11 DEF RemoveConnectionInLoop, RemovalQueued, EraseEntry, connVars, history
  <2>2. mainq = 1 /\ Down
    BY <1>1, <2>1, TypesKept DEF ServerTypes, LeavesInv
  <2>3. life = "alive" /\ cbs = <<"UP", "DOWN">> /\ connections_
    <3>1. state_ = "kDisconnected"
      BY <1>1, <2>2, StateTells
    <3>2. life = "alive"
      BY <1>1, <2>1, <3>1, InUse DEF Referenced
    <3> QED
      BY <1>1, <2>1, <2>2, <3>1, <3>2, StateTells DEF LeavesInv
  <2>4. PhaseOf(life, cbs) = "down" /\ PhaseOf(life', cbs') = "down"
    BY <2>1, <2>3, PhaseIs
  <2>5. next = now
    BY <2>1 DEF now, next
  <2>6. CT!Remove("this")
    BY <1>3, <1>4, <2>1, <2>3, <2>4, <2>5 DEF CT!Remove
  <2> QED
    BY <2>6 DEF CT!CTNext
<1>12. CASE DestroyServer
  <2>1. /\ server = "up" /\ server' = "down" /\ connections_' = FALSE
        /\ UNCHANGED <<life, cbs>>
    BY <1>12 DEF DestroyServer, connVars, history
  <2>2. next = now
    BY <2>1 DEF now, next
  <2>3. CT!StopServing
    BY <1>3, <2>1, <2>2 DEF CT!StopServing
  <2> QED
    BY <2>3 DEF CT!CTNext
<1>13. CASE Destroy
  <2>1. /\ life = "alive" /\ life' = "destroyed" /\ ~connections_
        /\ UNCHANGED <<cbs, connections_, server>>
    BY <1>13 DEF Destroy, Referenced, serverVars, history
  <2>2. server = "up" => cbs = <<"UP", "DOWN">>
    BY <1>1, <2>1, StateTells DEF LeavesInv
  <2>3. cbs \in {<<>>, <<"UP">>, <<"UP", "DOWN">>}
    BY <1>1, StateTells, TypesKept DEF ConnTypes, States
  <2>4. /\ PhaseOf(life, cbs) \in {"made", "up", "down"} /\ PhaseOf(life', cbs') = "freed"
        /\ server = "up" => PhaseOf(life, cbs) = "down"
    BY <2>1, <2>2, <2>3, PhaseIs
  <2>5. CT!Free("this")
    BY <1>3, <1>4, <2>1, <2>4 DEF CT!Free
  <2> QED
    BY <2>5 DEF CT!CTNext
<1>14. \/ UNCHANGED <<life, cbs, connections_, server>>
       \/ NewConnection \/ ConnectEstablished \/ OnClose \/ OnReadEof
       \/ (ConnectDestroyed /\ ReportsDown) \/ RemoveConnectionInLoop
       \/ DestroyServer \/ Destroy
  BY Writers DEF ConnectDestroyed, serverVars
<1> QED
  BY <1>5, <1>6, <1>7, <1>9, <1>10, <1>11, <1>12, <1>13, <1>14

\* The user sees UP, then DOWN once, then the connection leaves the map, then it is
\* freed, whichever of handleClose, connectDestroyed and ~TcpServer comes first
\* (TcpConnection::handleClose, connectDestroyed, TcpServer::removeConnection).
THEOREM ConnectionImplements ==
  ASSUME Shutters = {}
  PROVE  CSpec => ImplementsConnectionTable
<1>1. CInit => CT!CTInit
  <2> SUFFICES ASSUME CInit PROVE CT!CTInit
    OBVIOUS
  <2>1. life = "none" /\ connections_ = FALSE /\ server = "up"
    BY DEF CInit
  <2>2. [c \in {"this"} |-> Phase] = [c \in {"this"} |-> "none"]
    BY <2>1, PhaseIs
  <2> QED
    BY <2>1, <2>2 DEF CT!CTInit
<1>2. ConnInv /\ [CNext]_cVars => [CT!CTNext]_(CT!ctVars)
  BY TableStep
<1> QED
  BY <1>1, <1>2, ConnInvHolds, PTL DEF CSpec, ImplementsConnectionTable, CT!CTSpec
==============================================================================
