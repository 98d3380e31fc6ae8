-------------------------- MODULE TcpServerProofs --------------------------
(***************************************************************************)
(* Theorems about TcpServer, for any number of I/O loops, connections,     *)
(* descriptors and threads that call start().                              *)
(*                                                                         *)
(* The inductive invariant ServerInv has a part for the types, one for     *)
(* start() and the pool, one for the queues of functors, one for           *)
(* activeChannels_, one for each connection, and one for getNextLoop.      *)
(***************************************************************************)
EXTENDS TcpServer, QueueProofs, ChannelProofs, FiniteSetTheorems,
        WellFoundedInduction

\* The connections made so far.
Made == 1..(nextConnId_ - 1)

\* The functors of loop l that are still to be run, oldest first, and their set.
Todo(l)    == functors[l] \o pendingFunctors_[l]
Waiting(l) == ToSet(Todo(l))

Functors ==
    [fn : {"listen", "connectEstablished", "removeConnectionInLoop",
           "connectDestroyed"},
     c : 0..MaxConns]

ListenF == Bound("listen", 0)
UpF(c)   == Bound("connectEstablished", c)
GoneF(c) == Bound("removeConnectionInLoop", c)
DownF(c) == Bound("connectDestroyed", c)

ConnRecords ==
    [life : {"none", "alive", "freed"},
     state_ : {"kConnecting", "kConnected", "kDisconnected"},
     chan : Channels, fd : 0..MaxFds, loop : Loops, peer : {"open", "gone"},
     cbs : Seq({"UP", "DOWN"})]

\* The types; and the assert of start() has not failed.
TypeInv ==
    /\ numThreads_ \in 0..MaxThreads
    /\ listening_ \in BOOLEAN
    /\ nextConnId_ \in 1..(MaxConns + 1)
    /\ connections_ \subseteq Made /\ held \subseteq Made
    /\ conn \in [Conns -> ConnRecords]
    /\ lpc \in [Loops -> LoopPc]
    /\ quit_ \in [Loops -> BOOLEAN]
    /\ active \in [Loops -> SUBSET (Conns \cup {Acc})]
    /\ batchHolds \in [Loops -> SUBSET Made]
    /\ functors \in [Loops -> Seq(Functors)]
    /\ pendingFunctors_ \in [Loops -> Seq(Functors)]
    /\ spc \in [Starters -> {"idle", "starting", "returned"}]
    /\ i \in [Starters -> Nat]
    /\ dpc \in DtorPc
    /\ backlog \in Nat
    /\ process \in {"runs", "exited"}

\* One starter at most gets past started_++ == 0, fills the pool loop by loop, and
\* then queues listen once.  Nothing is accepted before that.
StartInv ==
    /\ started_ = Cardinality({ s \in Starters : spc[s] # "idle" })
    /\ \A s, t \in Starters : spc[s] = "starting" /\ spc[t] = "starting" => s = t
    /\ \A s \in Starters : spc[s] = "idle" => i[s] = 0
    /\ \A s \in Starters : spc[s] = "starting" =>
         /\ i[s] <= numThreads_ /\ loops_ = [n \in 1..i[s] |-> n]
         /\ ~listening_ /\ ListenF \notin Waiting(0)
    /\ started_ = 0 => loops_ = <<>> /\ ~listening_ /\ ListenF \notin Waiting(0)
    /\ started_ > 0 /\ (\A s \in Starters : spc[s] # "starting")
         => loops_ = [n \in 1..numThreads_ |-> n]
    /\ listening_ => ListenF \notin Waiting(0)
    /\ ~listening_ => nextConnId_ = 1 /\ backlog = 0 /\ next_ = 0

\* The loops that exist, and how far ~TcpServer is.
LoopsInv ==
    /\ \A l \in 1..MaxThreads : lpc[l] = "off" <=> l > Len(loops_)
    /\ next_ \in Nat /\ (loops_ # <<>> => next_ < Len(loops_))
    /\ nextConnId_ + backlog <= MaxConns + 1
    /\ told \in Nat /\ told <= Len(loops_)
    /\ dpc # "no" => lpc[0] = "exited" /\ \A s \in Starters : spc[s] # "starting"

\* acceptChannel_: enabled once, by listen, and removed once.
AccInv ==
    /\ Consistent(acc) /\ ~acc.aborted
    /\ ~listening_ => acc.index = "kNew"
    /\ dpc \notin {"baseLoop", "done"} => acc.index # "kDeleted"

\* A functor waits once at most, on the loop it is for, and connectEstablished
\* before connectDestroyed.
QueueOK(l) ==
    /\ lpc[l] # "run" => functors[l] = <<>>
    /\ NoDup(Todo(l))
    /\ \A f \in Waiting(l) :
         /\ f.c \in IF f.fn = "listen" THEN {0} ELSE Made
         /\ l = IF f.fn \in {"connectEstablished", "connectDestroyed"}
                THEN conn[f.c].loop ELSE 0
    /\ \A c \in Conns : Before(Todo(l), UpF(c), DownF(c))

QueueInv == \A l \in Loops : QueueOK(l)

\* A channel of activeChannels_ is still as poll found it when its turn comes.
ActiveInv ==
    \A l \in Loops : \A c \in active[l] :
      /\ lpc[l] = "events"
      /\ c = Acc => l = 0 /\ backlog > 0 /\ listening_
      /\ c # Acc => c \in Made /\ conn[c].loop = l /\ conn[c].state_ = "kConnected"

\* What a connection's state says of its channel, its callbacks, the map and the
\* functors that hold it.
ConnInv(c) ==
    LET k == conn[c]
        l == k.loop
    IN  /\ l \in IF loops_ = <<>> THEN {0} ELSE 1..Len(loops_)
        /\ k.life # "none"
        /\ k.life = "freed" => ~Referenced(c)
        /\ Consistent(k.chan) /\ ~k.chan.aborted
        /\ k.state_ = "kConnecting" =>
             /\ k.cbs = <<>> /\ k.chan.index = "kNew" /\ l # 0
             /\ Exited(l) \/ UpF(c) \in Waiting(l)
        /\ k.state_ = "kConnected" =>
             k.cbs = <<"UP">> /\ k.chan.index = "kAdded" /\ (l = 0 => c \in connections_)
        /\ k.state_ = "kDisconnected" =>
             k.cbs = <<"UP", "DOWN">> /\ k.chan.index # "kAdded"
        /\ UpF(c) \in Waiting(l) => k.state_ = "kConnecting"
        /\ DownF(c) \in Waiting(l) =>
             c \notin connections_ /\ (k.chan.mapped \/ k.state_ = "kConnecting")
        /\ GoneF(c) \in Waiting(0) =>
             k.state_ = "kDisconnected" /\ l # 0 /\ (dpc = "no" => c \in connections_)
        /\ k.chan.mapped \/ k.state_ = "kConnecting" =>
             Exited(l) \/ c \in connections_ \/ DownF(c) \in Waiting(l)
        /\ c \in connections_ => k.chan.mapped \/ k.state_ = "kConnecting"
        /\ dpc = "no" /\ k.state_ # "kDisconnected" => c \in connections_

ConnsInv ==
    /\ \A c \in Conns \ Made : conn[c] = NoConn
    /\ \A c \in Made : ConnInv(c)

\* getNextLoop has given every I/O loop as many connections, and the loops before
\* next_ one more.
BalanceInv ==
    numThreads_ > 0 =>
      /\ Assigned(0) = {}
      /\ \E b \in Nat : \A l \in 1..numThreads_ :
           Cardinality(Assigned(l)) = IF l <= next_ THEN b + 1 ELSE b

ServerInv ==
    /\ TypeInv /\ StartInv /\ LoopsInv /\ AccInv
    /\ QueueInv /\ ActiveInv /\ ConnsInv /\ BalanceInv
----------------------------------------------------------------------------
(***************************************************************************)
(* The queues of functors.                                                 *)
(***************************************************************************)

\* std::bind makes functors.
LEMMA BoundFunctors ==
  /\ ListenF \in Functors /\ Acc \in Loops
  /\ \A c \in Conns : UpF(c) \in Functors /\ GoneF(c) \in Functors /\ DownF(c) \in Functors
  /\ \A c, d \in Conns : UpF(c) # DownF(d) /\ UpF(c) # GoneF(d) /\ GoneF(c) # DownF(d)
  /\ \A c, d \in Conns : c # d => UpF(c) # UpF(d) /\ DownF(c) # DownF(d) /\ GoneF(c) # GoneF(d)
  /\ \A c \in Conns : ListenF \notin {UpF(c), DownF(c), GoneF(c)}
BY TcpServerAssumption
   DEF ListenF, UpF, GoneF, DownF, Bound, Functors, Conns, Acc, Loops

\* What a loop still has to run is a sequence of functors.
LEMMA TodoType ==
  ASSUME TypeInv, NEW l \in Loops
  PROVE  /\ functors[l] \in Seq(Functors) /\ pendingFunctors_[l] \in Seq(Functors)
         /\ Todo(l) \in Seq(Functors)
BY TwoQueues DEF TypeInv, Todo

\* queueInLoop puts the functor behind all others of that loop.
LEMMA QueuedTodo ==
  ASSUME TypeInv, NEW d \in Loops, NEW h \in Functors,
         pendingFunctors_' = Queue(d, h), NEW l \in Loops, functors'[l] = functors[l]
  PROVE  /\ Todo(l)' = IF l = d THEN Append(Todo(l), h) ELSE Todo(l)
         /\ Waiting(l)' = IF l = d THEN Waiting(l) \cup {h} ELSE Waiting(l)
<1> DEFINE p == functors[l]
           q == pendingFunctors_[l]
<1>1. p \in Seq(Functors) /\ q \in Seq(Functors) /\ p \o q \in Seq(Functors)
  BY TodoType DEF Todo
<1>2. pendingFunctors_'[l] = IF l = d THEN Append(q, h) ELSE q
  BY DEF TypeInv, Queue
<1>3. p \o Append(q, h) = Append(p \o q, h)
  <2> HIDE DEF p, q
  <2> QED
    BY <1>1, TwoQueuesAppend
<1>4. Todo(l)' = IF l = d THEN Append(Todo(l), h) ELSE Todo(l)
  <2>1. CASE l = d
    BY <1>2, <1>3, <2>1 DEF Todo
  <2>2. CASE l # d
    BY <1>2, <2>2 DEF Todo
  <2> QED
    BY <2>1, <2>2
<1>5. Todo(l) \in Seq(Functors)
  BY TodoType
<1>6. ToSet(Append(Todo(l), h)) = ToSet(Todo(l)) \cup {h}
  BY <1>5, AppendToSet
<1> QED
  BY <1>4, <1>6 DEF Waiting

\* doPendingFunctors runs the oldest functor.
LEMMA RanTodo ==
  ASSUME TypeInv, NEW l \in Loops, QueueOK(l), functors[l] # <<>>,
         functors'[l] = Tail(functors[l]), pendingFunctors_'[l] = pendingFunctors_[l]
  PROVE  /\ Todo(l) # <<>> /\ Head(Todo(l)) = Head(functors[l])
         /\ Todo(l)' = Tail(Todo(l))
         /\ Head(functors[l]) \in Functors /\ Head(functors[l]) \in Waiting(l)
         /\ Waiting(l)' = Waiting(l) \ {Head(functors[l])}
<1>1. functors[l] \in Seq(Functors) /\ pendingFunctors_[l] \in Seq(Functors)
      /\ Todo(l) \in Seq(Functors)
  BY TodoType
<1> DEFINE p == functors[l] \o pendingFunctors_[l]
<1>2. p # <<>> /\ Head(p) = Head(functors[l]) /\ Tail(p) = Tail(functors[l]) \o pendingFunctors_[l]
  BY <1>1, TwoQueuesRun
<1>3. Todo(l) # <<>> /\ Head(Todo(l)) = Head(functors[l]) /\ Todo(l)' = Tail(Todo(l))
  BY <1>2 DEF Todo
<1>4. NoDup(Todo(l))
  BY DEF QueueOK
<1>5. /\ Head(Todo(l)) \in ToSet(Todo(l)) /\ Head(Todo(l)) \in Functors
      /\ ToSet(Tail(Todo(l))) = ToSet(Todo(l)) \ {Head(Todo(l))}
  BY <1>1, <1>3, <1>4, TailQueue
<1> QED
  BY <1>3, <1>5 DEF Waiting

\* The batch is swapped out of pendingFunctors_ when the last one is done.
LEMMA SwappedTodo ==
  ASSUME TypeInv, NEW l \in Loops, functors[l] = <<>>,
         functors'[l] = pendingFunctors_[l], pendingFunctors_'[l] = <<>>
  PROVE  Todo(l)' = Todo(l) /\ Waiting(l)' = Waiting(l)
<1>1. pendingFunctors_[l] \in Seq(Functors)
  BY TodoType
<1>2. Todo(l)' = Todo(l)
  BY <1>1, TwoQueues DEF Todo
<1> QED
  BY <1>2 DEF Waiting

\* A loop that goes drops its functors.
LEMMA DroppedTodo ==
  ASSUME NEW l \in Loops, functors'[l] = <<>>, pendingFunctors_'[l] = <<>>
  PROVE  Todo(l)' = <<>> /\ Waiting(l)' = {}
<1>1. <<>> \in Seq(Functors)
  OBVIOUS
<1>2. Todo(l)' = <<>>
  BY <1>1, TwoQueues DEF Todo
<1> QED
  BY <1>2, EmptyQueue DEF Waiting

\* A step that touches neither the batch nor pendingFunctors_.
LEMMA SameTodo ==
  ASSUME NEW l, functors'[l] = functors[l], pendingFunctors_'[l] = pendingFunctors_[l]
  PROVE  Todo(l)' = Todo(l) /\ Waiting(l)' = Waiting(l)
BY DEF Todo, Waiting

\* A connection keeps its loop (TcpConnection::loop_ is const).
LoopsKept ==
    /\ Made \subseteq Made'
    /\ \A c \in Made : conn'[c].loop = conn[c].loop

\* The functor h, which does not wait on loop l yet, may be queued to it.
MayQueue(l, h) ==
    /\ h \notin Waiting(l)
    /\ h.c \in IF h.fn = "listen" THEN {0} ELSE Made'
    /\ l = IF h.fn \in {"connectEstablished", "connectDestroyed"}
           THEN conn'[h.c].loop ELSE 0
    /\ \A c \in Conns : h = UpF(c) => DownF(c) \notin Waiting(l)

\* A queue that a step leaves alone.
LEMMA QueueKeep ==
  ASSUME NEW l \in Loops, QueueOK(l), LoopsKept, Todo(l)' = Todo(l),
         (lpc[l] # "run" => functors[l] = <<>>)'
  PROVE  QueueOK(l)'
BY DEF QueueOK, LoopsKept, Waiting

\* A queue that a functor is added to.
LEMMA QueueAppend ==
  ASSUME TypeInv, NEW l \in Loops, QueueOK(l), LoopsKept, NEW h \in Functors,
         MayQueue(l, h), Todo(l)' = Append(Todo(l), h),
         functors'[l] = functors[l], lpc'[l] = lpc[l]
  PROVE  QueueOK(l)'
<1>1. Todo(l) \in Seq(Functors)
  BY TodoType
<1>2. Waiting(l)' = Waiting(l) \cup {h}
  BY <1>1, AppendToSet DEF Waiting
<1>3. NoDup(Todo(l))'
  BY <1>1, AppendNoDup, ZenonT(40) DEF QueueOK, MayQueue, Waiting
<1>4. ASSUME NEW c \in Conns PROVE Before(Todo(l), UpF(c), DownF(c))'
  <2>1. /\ Before(Todo(l), UpF(c), DownF(c)) /\ UpF(c) # DownF(c)
        /\ h # UpF(c) \/ DownF(c) \notin ToSet(Todo(l))
    BY BoundFunctors DEF QueueOK, MayQueue, Waiting
  <2>2. Before(Append(Todo(l), h), UpF(c), DownF(c))
    BY <1>1, <2>1, AppendBefore
  <2> QED
    BY <2>2 DEF Before, UpF, DownF
<1> QED
  BY <1>2, <1>3, <1>4 DEF QueueOK, LoopsKept, MayQueue

\* A queue whose oldest functor is run.
LEMMA QueueRun ==
  ASSUME TypeInv, NEW l \in Loops, QueueOK(l), LoopsKept, functors[l] # <<>>,
         lpc[l] = "run", lpc'[l] = "run",
         functors'[l] = Tail(functors[l]), pendingFunctors_'[l] = pendingFunctors_[l]
  PROVE  QueueOK(l)'
<1>1. Todo(l) \in Seq(Functors) /\ Todo(l) # <<>> /\ Todo(l)' = Tail(Todo(l))
      /\ Waiting(l)' \subseteq Waiting(l)
  BY TodoType, RanTodo
<1>2. NoDup(Todo(l))' /\ \A c \in Conns : Before(Todo(l), UpF(c), DownF(c))'
  BY <1>1, TailQueue DEF QueueOK
<1> QED
  BY <1>1, <1>2 DEF QueueOK, LoopsKept

\* A queue that is dropped.
LEMMA QueueDrop ==
  ASSUME NEW l \in Loops, functors'[l] = <<>>, pendingFunctors_'[l] = <<>>
  PROVE  QueueOK(l)'
BY DroppedTodo, EmptyQueue DEF QueueOK
----------------------------------------------------------------------------
(***************************************************************************)
(* The types.                                                              *)
(***************************************************************************)

\* What TcpConnection::connectEstablished, handleClose and connectDestroyed leave.
LEMMA ConnOps ==
  ASSUME NEW k \in ConnRecords
  PROVE  /\ Established(k) \in ConnRecords /\ Closed(k) \in ConnRecords
         /\ Disestablished(k) \in ConnRecords
         /\ Established(k) = [k EXCEPT !.state_ = "kConnected",
                                       !.chan = EnableReading(k.chan),
                                       !.cbs = Append(k.cbs, "UP")]
         /\ Closed(k) = [k EXCEPT !.state_ = "kDisconnected",
                                  !.chan = DisableAll(k.chan),
                                  !.cbs = Append(k.cbs, "DOWN")]
         /\ Established(k).loop = k.loop /\ Established(k).life = k.life
         /\ Closed(k).loop = k.loop /\ Closed(k).life = k.life
         /\ Disestablished(k).loop = k.loop /\ Disestablished(k).life = k.life
<1>1. k.chan \in Channels /\ k.cbs \in Seq({"UP", "DOWN"})
  BY DEF ConnRecords
<1>2. /\ Append(k.cbs, "UP") \in Seq({"UP", "DOWN"})
      /\ Append(k.cbs, "DOWN") \in Seq({"UP", "DOWN"})
  BY <1>1
<1>3. /\ EnableReading(k.chan) \in Channels /\ DisableAll(k.chan) \in Channels
      /\ RemoveChannel(DisableAll(k.chan)) \in Channels
      /\ RemoveChannel(k.chan) \in Channels
  BY <1>1, ChannelTypes
<1> DEFINE s == Append(k.cbs, "UP")
           t == Append(k.cbs, "DOWN")
           u == EnableReading(k.chan)
           v == DisableAll(k.chan)
           w == RemoveChannel(DisableAll(k.chan))
           x == RemoveChannel(k.chan)
<1>4. /\ Established(k) = [k EXCEPT !.state_ = "kConnected", !.chan = u, !.cbs = s]
      /\ Closed(k) = [k EXCEPT !.state_ = "kDisconnected", !.chan = v, !.cbs = t]
      /\ Disestablished(k) =
           IF k.state_ = "kConnected"
           THEN [k EXCEPT !.state_ = "kDisconnected", !.chan = w, !.cbs = t]
           ELSE [k EXCEPT !.chan = x]
  BY DEF Established, Closed, Disestablished, ConnRecords
<1>5. s \in Seq({"UP", "DOWN"}) /\ t \in Seq({"UP", "DOWN"})
      /\ u \in Channels /\ v \in Channels /\ w \in Channels /\ x \in Channels
  BY <1>2, <1>3
<1> HIDE DEF s, t, u, v, w, x
<1>6. /\ Established(k) \in ConnRecords /\ Closed(k) \in ConnRecords
      /\ Disestablished(k) \in ConnRecords
  BY <1>4, <1>5, ZenonT(40) DEF ConnRecords
<1>7. /\ Established(k).loop = k.loop /\ Established(k).life = k.life
      /\ Closed(k).loop = k.loop /\ Closed(k).life = k.life
      /\ Disestablished(k).loop = k.loop /\ Disestablished(k).life = k.life
  BY <1>4 DEF ConnRecords
<1> QED
  BY <1>4, <1>6, <1>7 DEF s, t, u, v

\* What epoll drops of a connection.
LEMMA ConnDropped ==
  ASSUME NEW k \in ConnRecords
  PROVE  /\ [k EXCEPT !.chan.reg = FALSE] \in ConnRecords
         /\ [k EXCEPT !.life = "freed", !.chan.reg = FALSE, !.chan.interest = {}]
              \in ConnRecords
         /\ [k EXCEPT !.chan.reg = FALSE].loop = k.loop
<1> DEFINE u == [k.chan EXCEPT !.reg = FALSE]
           v == [k.chan EXCEPT !.reg = FALSE, !.interest = {}]
<1>1. u \in Channels /\ v \in Channels
  BY DEF ConnRecords, Channels
<1>2. /\ [k EXCEPT !.chan.reg = FALSE] = [k EXCEPT !.chan = u]
      /\ [k EXCEPT !.life = "freed", !.chan.reg = FALSE, !.chan.interest = {}]
           = [k EXCEPT !.life = "freed", !.chan = v]
  BY DEF ConnRecords, Channels
<1> HIDE DEF u, v
<1>3. [k EXCEPT !.chan = u].loop = k.loop
  BY DEF ConnRecords
<1> QED
  BY <1>1, <1>2, <1>3 DEF ConnRecords

\* started_ counts the calls of start().
LEMMA StartedCount ==
  ASSUME StartInv
  PROVE  started_ \in 0..Cardinality(Starters)
<1> DEFINE called == { s \in Starters : spc[s] # "idle" }
<1>1. IsFiniteSet(Starters) /\ called \subseteq Starters
  BY TcpServerAssumption
<1>2. Cardinality(called) \in Nat /\ Cardinality(called) <= Cardinality(Starters)
      /\ Cardinality(Starters) \in Nat
  BY <1>1, FS_Subset, FS_CardinalityType
<1> QED
  BY <1>2 DEF StartInv

\* Once the server listens, the pool is full and nobody is inside start().
LEMMA PoolFull ==
  ASSUME TypeInv, StartInv, listening_
  PROVE  /\ \A s \in Starters : spc[s] # "starting"
         /\ loops_ = [n \in 1..numThreads_ |-> n]
         /\ loops_ \in Seq(1..MaxThreads) /\ Len(loops_) = numThreads_
         /\ loops_ = <<>> <=> numThreads_ = 0
<1>1. \A s \in Starters : spc[s] # "starting"
  BY DEF StartInv
<1>2. started_ \in Nat /\ started_ # 0
  BY StartedCount DEF StartInv
<1>3. loops_ = [n \in 1..numThreads_ |-> n]
  BY <1>1, <1>2 DEF StartInv
<1>4. numThreads_ \in Nat /\ numThreads_ <= MaxThreads /\ MaxThreads \in Nat
  BY TcpServerAssumption DEF TypeInv
<1>5. loops_ \in Seq(1..MaxThreads)
  BY <1>3, <1>4
<1>6. Len(loops_) = numThreads_
  BY <1>3, <1>4
<1>7. loops_ = <<>> <=> numThreads_ = 0
  BY <1>5, <1>6, EmptySeq, LenProperties
<1> QED
  BY <1>1, <1>3, <1>5, <1>6, <1>7

\* The least free descriptor is the one accept returns.
LEMMA LeastFd ==
  ASSUME FreeFds # {}
  PROVE  Min(FreeFds) \in FreeFds
<1> DEFINE R == StrictSubsetOrdering(FreeFds)
           Less(x) == { y \in FreeFds : y < x }
           T == { Less(x) : x \in FreeFds }
<1>1. FreeFds \subseteq 1..MaxFds /\ IsFiniteSet(1..MaxFds)
  BY FS_Interval, TcpServerAssumption DEF FreeFds
<1>2. IsWellFoundedOn(R, SUBSET FreeFds)
  BY <1>1, FS_Subset, FS_FiniteSubsetsOfFinite, FS_StrictSubsetOrderingWellFounded
<1>3. T \subseteq SUBSET FreeFds /\ T # {}
  OBVIOUS
<1>4. \E t \in T : \A u \in T : <<u, t>> \notin R
  <2> HIDE DEF R, T
  <2> QED
    BY <1>2, <1>3, WFMin
<1>5. PICK x \in FreeFds : \A y \in FreeFds : <<Less(y), Less(x)>> \notin R
  BY <1>4
<1>6. ASSUME NEW y \in FreeFds PROVE x <= y
  <2>1. x \in Nat /\ y \in Nat
    BY <1>1
  <2>2. ASSUME y < x PROVE FALSE
    <3>1. ASSUME NEW z \in FreeFds, z < y PROVE z < x
      <4>1. z \in Nat
        BY <1>1
      <4> QED
        BY <2>1, <2>2, <3>1, <4>1
    <3>2. y \in Less(x) /\ y \notin Less(y)
      BY <2>1, <2>2
    <3>3. <<Less(y), Less(x)>> \in R
      BY <3>1, <3>2 DEF StrictSubsetOrdering
    <3>4. <<Less(y), Less(x)>> \notin R
      BY <1>5
    <3> QED
      BY <3>3, <3>4
  <2> QED
    BY <2>1, <2>2
<1> QED
  BY <1>6 DEF Min

\* The record of the connection that Accept makes.
Accepted == [NoConn EXCEPT !.life = "alive", !.fd = Min(FreeFds), !.loop = NextLoop]

\* What Acceptor::handleRead finds.
LEMMA AccFacts ==
  ASSUME ActiveInv, Handling(0, Acc)
  PROVE  lpc[0] = "events" /\ backlog > 0 /\ listening_
<1>1. 0 \in Loops
  BY TcpServerAssumption DEF Loops
<1> QED
  BY <1>1 DEF ActiveInv, Handling

\* What newConnection finds and makes.
LEMMA AcceptFacts ==
  ASSUME TypeInv, StartInv, LoopsInv, ActiveInv, Accept
  PROVE  /\ nextConnId_ \in Conns /\ nextConnId_ \notin Made
         /\ Made' = Made \cup {nextConnId_}
         /\ listening_ /\ dpc = "no" /\ backlog > 0
         /\ NextLoop = IF numThreads_ = 0 THEN 0 ELSE next_ + 1
         /\ NextLoop \in Loops
         /\ NextLoop \in IF loops_ = <<>> THEN {0} ELSE 1..Len(loops_)
         /\ Accepted \in ConnRecords
         /\ Accepted.life = "alive" /\ Accepted.state_ = "kConnecting"
         /\ Accepted.chan = NewChannel /\ Accepted.loop = NextLoop
         /\ Accepted.cbs = <<>>
<1>1. Handling(0, Acc) /\ FreeFds # {} /\ nextConnId_' = nextConnId_ + 1
  BY DEF Accept
<1>2. 0 \in Loops /\ lpc[0] = "events" /\ backlog > 0 /\ listening_
  BY <1>1, AccFacts, TcpServerAssumption DEF Loops
<1>3. dpc = "no"
  BY <1>2 DEF LoopsInv
<1>4. nextConnId_ \in Conns /\ nextConnId_ \notin Made /\ Made' = Made \cup {nextConnId_}
  BY <1>1, <1>2, TcpServerAssumption DEF LoopsInv, TypeInv, Conns, Made
<1>5. /\ loops_ = [n \in 1..numThreads_ |-> n] /\ Len(loops_) = numThreads_
      /\ loops_ = <<>> <=> numThreads_ = 0
  BY <1>2, PoolFull
<1>6. numThreads_ \in Nat /\ numThreads_ <= MaxThreads /\ MaxThreads \in Nat
  BY TcpServerAssumption DEF TypeInv
<1>7. NextLoop = IF numThreads_ = 0 THEN 0 ELSE next_ + 1
  BY <1>5, <1>6 DEF NextLoop, LoopsInv
<1>8. NextLoop \in Loops /\ NextLoop \in IF loops_ = <<>> THEN {0} ELSE 1..Len(loops_)
  BY <1>5, <1>6, <1>7 DEF LoopsInv, Loops
<1>9. Min(FreeFds) \in 0..MaxFds
  BY <1>1, LeastFd, TcpServerAssumption DEF FreeFds
<1>10. NoConn \in ConnRecords
  <2>1. <<>> \in Seq({"UP", "DOWN"}) /\ NewChannel \in Channels /\ 0 \in 0..MaxFds
    BY TcpServerAssumption DEF NewChannel, Channels
  <2> QED
    BY <1>2, <2>1 DEF NoConn, ConnRecords
<1>11. /\ Accepted \in ConnRecords
       /\ Accepted.life = "alive" /\ Accepted.state_ = "kConnecting"
       /\ Accepted.chan = NewChannel /\ Accepted.loop = NextLoop
       /\ Accepted.cbs = <<>>
  <2> DEFINE fd == Min(FreeFds)
             l  == NextLoop
  <2>1. fd \in 0..MaxFds /\ l \in Loops
    BY <1>8, <1>9
  <2> HIDE DEF fd, l
  <2>2. [NoConn EXCEPT !.life = "alive", !.fd = fd, !.loop = l] \in ConnRecords
    BY <1>10, <2>1 DEF ConnRecords
  <2> QED
    BY <2>2 DEF NoConn, Accepted, fd, l
<1> QED
  BY <1>2, <1>3, <1>4, <1>7, <1>8, <1>11

\* What a functor finds when it is run.
LEMMA RunningFacts ==
  ASSUME TypeInv, QueueInv, NEW l \in Loops, NEW fn, Running(l, fn)
  PROVE  LET f == Head(functors[l])
         IN  /\ f \in Functors /\ f \in Waiting(l) /\ f = Bound(fn, f.c)
             /\ fn = "listen" => f = ListenF
             /\ fn # "listen" => f.c \in Made /\ f.c \in Conns /\ f.c # Acc
             /\ l = IF fn \in {"connectEstablished", "connectDestroyed"}
                    THEN conn[f.c].loop ELSE 0
<1> DEFINE f == Head(functors[l])
<1>1. functors[l] # <<>> /\ f.fn = fn /\ QueueOK(l)
  BY DEF Running, QueueInv
<1>2. functors[l] \in Seq(Functors) /\ pendingFunctors_[l] \in Seq(Functors)
      /\ Todo(l) \in Seq(Functors) /\ NoDup(Todo(l))
  BY <1>1, TodoType DEF QueueOK
<1>3. Todo(l) # <<>> /\ Head(Todo(l)) = f
  BY <1>1, <1>2, TwoQueuesRun DEF Todo
<1>4. f \in Functors /\ f \in Waiting(l)
  BY <1>2, <1>3, TailQueue DEF Waiting
<1>5. /\ f.c \in IF f.fn = "listen" THEN {0} ELSE Made
      /\ l = IF f.fn \in {"connectEstablished", "connectDestroyed"}
             THEN conn[f.c].loop ELSE 0
  BY <1>1, <1>4 DEF QueueOK
<1> HIDE DEF f
<1>6. f = Bound(fn, f.c)
  BY <1>1, <1>4 DEF Functors, Bound
<1>7. fn = "listen" => f = ListenF
  BY <1>1, <1>5, <1>6 DEF ListenF
<1>8. fn # "listen" => f.c \in Made /\ f.c \in Conns /\ f.c # Acc
  BY <1>1, <1>5, TcpServerAssumption DEF TypeInv, Made, Conns, Acc
<1> QED
  BY <1>1, <1>4, <1>5, <1>6, <1>7, <1>8 DEF f

\* The loop that EventLoopThreadPool::start starts next.
LEMMA NextIoLoop ==
  ASSUME TypeInv, NEW s \in Starters, StartIoLoop(s)
  PROVE  i[s] \in Nat /\ i[s] < numThreads_ /\ i[s] + 1 \in 1..MaxThreads /\ i[s] + 1 \in Loops
<1>1. i[s] \in Nat /\ i[s] < numThreads_ /\ numThreads_ \in Nat /\ numThreads_ <= MaxThreads
      /\ MaxThreads \in Nat
  BY TcpServerAssumption DEF TypeInv, StartIoLoop
<1> QED
  BY <1>1 DEF Loops

\* The starters, the loops, clients and the application, quit() and ~TcpServer,
\* where none of them touches a connection's record.
LEMMA TypeStepOutside ==
  ASSUME TypeInv, StartInv, LoopsInv,
         \/ \E s \in Starters : CallStart(s) \/ StarterStep(s)
         \/ (\E l \in Loops : EnterLoop(l)) \/ ListenFatal
         \/ ClientConnects \/ QuitBaseLoop
         \/ \E c \in Conns : Release(c)
         \/ BeginDestroy \/ AllClosed \/ QuitIoLoop
         \/ AllJoined \/ DestroyAcceptor \/ DestroyBaseLoop
  PROVE  TypeInv'
<1> USE TcpServerAssumption
    DEF TypeInv, Made, poolVars, accVars, tableVars, batchVars, loopVars, dtorVars, startVars
<1>1. ASSUME NEW s \in Starters, CallStart(s) PROVE TypeInv'
  BY <1>1 DEF CallStart
<1>2. ASSUME NEW s \in Starters, StartIoLoop(s) PROVE TypeInv'
  <2>1. i[s] + 1 \in Loops
    BY <1>2, NextIoLoop
  <2> QED
    BY <1>2, <2>1 DEF StartIoLoop, LoopPc
<1>3. ASSUME NEW s \in Starters, StartListening(s) PROVE TypeInv'
  <2>1. /\ listening_' \in BOOLEAN /\ spc' \in [Starters -> {"idle", "starting", "returned"}]
        /\ process' \in {"runs", "exited"}
    BY <1>3 DEF StartListening, Listen, StartInv
  <2>2. pendingFunctors_' \in [Loops -> Seq(Functors)]
    <3>1. pendingFunctors_' = pendingFunctors_ \/ pendingFunctors_' = Queue(0, ListenF)
      BY <1>3 DEF StartListening, ListenF
    <3>2. Append(pendingFunctors_[0], ListenF) \in Seq(Functors)
      BY BoundFunctors, AppendProperties DEF Acc
    <3> QED
      BY <3>1, <3>2 DEF Queue
  <2> QED
    BY <1>3, <2>1, <2>2 DEF StartListening
<1>4. CASE (\E l \in Loops : EnterLoop(l)) \/ ListenFatal \/ ClientConnects \/ QuitBaseLoop
  <2>1. 0 \in Loops
    BY DEF Loops
  <2>2. CASE (\E l \in Loops : EnterLoop(l)) \/ ListenFatal
    BY <2>2 DEF EnterLoop, ListenFatal, LoopPc
  <2>3. CASE ClientConnects
    BY <2>3 DEF ClientConnects
  <2>4. CASE QuitBaseLoop
    BY <2>1, <2>4 DEF QuitBaseLoop
  <2> QED
    BY <1>4, <2>2, <2>3, <2>4
<1>5. ASSUME NEW c \in Conns, Release(c) PROVE TypeInv'
  BY <1>5 DEF Release
<1>6. CASE BeginDestroy \/ AllClosed \/ AllJoined \/ DestroyAcceptor \/ DestroyBaseLoop
  <2>1. CASE BeginDestroy \/ AllClosed
    BY <2>1 DEF BeginDestroy, AllClosed, DtorPc
  <2>2. CASE AllJoined \/ DestroyAcceptor
    BY <2>2 DEF AllJoined, DestroyAcceptor, DtorPc
  <2>3. CASE DestroyBaseLoop
    <3>1. <<>> \in Seq(Functors) /\ 0 \in Loops
      BY DEF Loops
    <3> QED
      BY <2>3, <3>1 DEF DestroyBaseLoop, DtorPc
  <2> QED
    BY <1>6, <2>1, <2>2, <2>3
<1>7. CASE QuitIoLoop
  BY <1>7 DEF QuitIoLoop
<1> QED
  BY <1>1, <1>2, <1>3, <1>4, <1>5, <1>6, <1>7 DEF StarterStep

\* queueInLoop of a functor.
LEMMA QueueType ==
  ASSUME TypeInv, NEW d \in Loops, NEW h \in Functors
  PROVE  Queue(d, h) \in [Loops -> Seq(Functors)]
<1>1. Append(pendingFunctors_[d], h) \in Seq(Functors)
  BY AppendProperties DEF TypeInv
<1> QED
  BY <1>1 DEF Queue, TypeInv

\* The loops handle events.
LEMMA TypeStepEvents ==
  ASSUME TypeInv, StartInv, LoopsInv, ActiveInv, NEW l \in Loops,
         \/ Poll(l) \/ Accept \/ AcceptNothing \/ AcceptFatal
         \/ \E c \in Conns : conn[c].loop = l /\ HandleClose(c)
  PROVE  TypeInv'
<1> USE TcpServerAssumption
    DEF Made, poolVars, accVars, tableVars, batchVars, loopVars, dtorVars, startVars
<1>1. CASE Poll(l)
  <2>1. Ready(l) \subseteq Conns \cup {Acc}
    BY DEF Ready
  <2> QED
    BY <1>1, <2>1 DEF Poll, TypeInv, LoopPc
<1>2. CASE Accept
  <2> DEFINE n == nextConnId_
  <2>1. /\ n \in Conns /\ Made' = Made \cup {n} /\ backlog > 0
        /\ NextLoop \in Loops /\ Accepted \in ConnRecords
    BY <1>2, AcceptFacts
  <2>2. Established(Accepted) \in ConnRecords
    BY <2>1, ConnOps
  <2>3. conn' \in [Conns -> ConnRecords]
    BY <1>2, <2>1, <2>2 DEF Accept, Accepted, TypeInv
  <2>4. held' \subseteq Made' /\ connections_' \subseteq Made'
    BY <1>2, <2>1 DEF Accept, Keep, TypeInv
  <2>5. pendingFunctors_' \in [Loops -> Seq(Functors)]
    <3>1. UpF(n) \in Functors
      BY <2>1, BoundFunctors
    <3>2. pendingFunctors_' = pendingFunctors_ \/ pendingFunctors_' = Queue(NextLoop, UpF(n))
      BY <1>2 DEF Accept, UpF
    <3> QED
      BY <2>1, <3>1, <3>2, QueueType DEF TypeInv
  <2>6. nextConnId_' \in 1..(MaxConns + 1) /\ backlog' \in Nat
    BY <1>2, <2>1 DEF Accept, TypeInv, Conns
  <2>7. active' \in [Loops -> SUBSET (Conns \cup {Acc})] /\ batchHolds' \in [Loops -> SUBSET Made']
    BY <1>2, <2>1 DEF Accept, Handling, TypeInv
  <2> QED
    BY <1>2, <2>3, <2>4, <2>5, <2>6, <2>7 DEF Accept, TypeInv
<1>3. CASE AcceptNothing
  <2>1. backlog > 0
    BY <1>3, AccFacts DEF AcceptNothing
  <2>2. active' \in [Loops -> SUBSET (Conns \cup {Acc})] /\ backlog' = backlog - 1
    BY <1>3 DEF AcceptNothing, Handling, TypeInv
  <2> QED
    BY <1>3, <2>1, <2>2 DEF AcceptNothing, TypeInv
<1>4. CASE AcceptFatal
  BY <1>4 DEF AcceptFatal, Handling, TypeInv
<1>5. ASSUME NEW c \in Conns, conn[c].loop = l, HandleClose(c) PROVE TypeInv'
  <2>1. Closed(conn[c]) \in ConnRecords
    BY ConnOps DEF TypeInv
  <2>2. pendingFunctors_' \in [Loops -> Seq(Functors)]
    <3>1. GoneF(c) \in Functors /\ DownF(c) \in Functors /\ 0 \in Loops
      BY BoundFunctors DEF Acc
    <3>2. pendingFunctors_' = Queue(l, DownF(c)) \/ pendingFunctors_' = Queue(0, GoneF(c))
      BY <1>5 DEF HandleClose, DestroyedLoop, DownF, GoneF
    <3> QED
      BY <3>1, <3>2, QueueType
  <2>3. conn' \in [Conns -> ConnRecords]
    BY <1>5, <2>1 DEF HandleClose, TypeInv
  <2>4. connections_' \subseteq connections_ /\ active' \in [Loops -> SUBSET (Conns \cup {Acc})]
    BY <1>5 DEF HandleClose, Handling, Erase, TypeInv
  <2> QED
    BY <1>5, <2>2, <2>3, <2>4 DEF HandleClose, TypeInv
<1> QED
  BY <1>1, <1>2, <1>3, <1>4, <1>5

\* The loops run functors.
LEMMA TypeStepFunctors ==
  ASSUME TypeInv, QueueInv, ConnsInv, NEW l \in Loops,
         \/ SwapFunctors(l) \/ EndFunctors(l)
         \/ l = 0 /\ (RunListen \/ RemoveConnectionInLoop)
         \/ ConnectEstablished(l) \/ ConnectDestroyed(l)
  PROVE  TypeInv'
<1> USE TcpServerAssumption
    DEF Made, poolVars, accVars, tableVars, batchVars, loopVars, dtorVars, startVars
<1>1. CASE SwapFunctors(l)
  BY <1>1 DEF SwapFunctors, TypeInv, LoopPc
<1>2. CASE EndFunctors(l)
  <2>1. \A c \in Conns : [conn[c] EXCEPT !.chan.reg = FALSE] \in ConnRecords
    BY ConnDropped DEF TypeInv
  <2>2. conn' \in [Conns -> ConnRecords]
    BY <1>2, <2>1, ZenonT(40) DEF EndFunctors, TypeInv
  <2>3. pendingFunctors_' \in [Loops -> Seq(Functors)]
    BY <1>2 DEF EndFunctors, TypeInv
  <2> QED
    BY <1>2, <2>2, <2>3 DEF EndFunctors, TypeInv, LoopPc
<1>3. ASSUME NEW fn, Running(l, fn)
      PROVE  /\ functors' \in [Loops -> Seq(Functors)]
             /\ batchHolds' \in [Loops -> SUBSET Made]
             /\ UNCHANGED <<startVars, poolVars, nextConnId_, lpc, quit_, active, dtorVars,
                            backlog, process>>
  <2>1. functors[l] # <<>> /\ functors[l] \in Seq(Functors)
    BY <1>3 DEF Running, TypeInv
  <2>2. Tail(functors[l]) \in Seq(Functors)
    BY <2>1, HeadTailProperties
  <2>3. {Head(functors[l]).c} \ {Acc} \subseteq Made
    <3> HIDE DEF Made
    <3>1. fn = "listen" => Head(functors[l]).c = Acc
      <4>1. ListenF.c = Acc
        BY DEF ListenF, Bound, Acc
      <4>2. fn = "listen" => Head(functors[l]) = ListenF
        BY <1>3, RunningFacts
      <4> QED
        BY <4>1, <4>2
    <3>2. fn # "listen" => Head(functors[l]).c \in Made
      BY <1>3, RunningFacts
    <3> QED
      BY <3>1, <3>2
  <2> QED
    BY <1>3, <2>2, <2>3 DEF Running, TypeInv
<1>4. CASE l = 0 /\ RunListen
  BY <1>3, <1>4 DEF RunListen, Listen, TypeInv
<1>5. CASE l = 0 /\ RemoveConnectionInLoop
  <2> DEFINE c == Head(functors[0]).c
  <2>1. Running(0, "removeConnectionInLoop") /\ c \in Conns
    BY <1>5, RunningFacts DEF RemoveConnectionInLoop
  <2>2. conn[c].loop \in Loops /\ DownF(c) \in Functors
    BY <2>1, BoundFunctors DEF TypeInv, ConnRecords
  <2>3. pendingFunctors_' \in [Loops -> Seq(Functors)]
    BY <1>5, <2>2, QueueType DEF RemoveConnectionInLoop, DestroyedLoop, DownF
  <2> QED
    BY <1>3, <1>5, <2>1, <2>3 DEF RemoveConnectionInLoop, Erase, TypeInv
<1>6. CASE ConnectEstablished(l)
  <2> DEFINE c == Head(functors[l]).c
  <2>1. Running(l, "connectEstablished") /\ c \in Conns /\ c \in Made
    BY <1>6, RunningFacts DEF ConnectEstablished
  <2>2. Established(conn[c]) \in ConnRecords
    BY <2>1, ConnOps DEF TypeInv
  <2>3. conn' \in [Conns -> ConnRecords] /\ held' \subseteq Made
    BY <1>6, <2>1, <2>2 DEF ConnectEstablished, Keep, TypeInv
  <2> QED
    BY <1>3, <1>6, <2>1, <2>3 DEF ConnectEstablished, TypeInv
<1>7. CASE ConnectDestroyed(l)
  <2> DEFINE c == Head(functors[l]).c
  <2>1. Running(l, "connectDestroyed") /\ c \in Conns
    BY <1>7, RunningFacts DEF ConnectDestroyed
  <2>2. Disestablished(conn[c]) \in ConnRecords
    BY <2>1, ConnOps DEF TypeInv
  <2>3. conn' \in [Conns -> ConnRecords]
    BY <1>7, <2>1, <2>2 DEF ConnectDestroyed, TypeInv
  <2> QED
    BY <1>3, <1>7, <2>1, <2>3 DEF ConnectDestroyed, TypeInv
<1> QED
  BY <1>1, <1>2, <1>4, <1>5, <1>6, <1>7

\* No step leaves the types.
LEMMA TypeInvStep ==
  ASSUME ServerInv, SNext
  PROVE  TypeInv'
<1> USE TcpServerAssumption
    DEF Made, poolVars, accVars, tableVars, batchVars, loopVars, dtorVars, startVars
<1>0. TypeInv /\ StartInv /\ LoopsInv /\ ActiveInv /\ QueueInv /\ ConnsInv
  BY DEF ServerInv
<1>1. ASSUME NEW l \in Loops, LoopStep(l) PROVE TypeInv'
  BY <1>0, <1>1, TypeStepOutside, TypeStepEvents, TypeStepFunctors DEF LoopStep
<1>2. ASSUME NEW c \in Conns, PeerLeaves(c) PROVE TypeInv'
  <2>1. [conn[c] EXCEPT !.peer = "gone"] \in ConnRecords
    BY <1>0, ZenonT(40) DEF TypeInv, ConnRecords
  <2> QED
    BY <1>0, <1>2, <2>1, SMTT(30) DEF PeerLeaves, TypeInv
<1>3. ASSUME NEW c \in Conns, Destroy(c) PROVE TypeInv'
  <2>1. [conn[c] EXCEPT !.life = "freed", !.chan.reg = FALSE, !.chan.interest = {}]
          \in ConnRecords
    BY <1>0, ConnDropped DEF TypeInv
  <2> QED
    BY <1>0, <1>3, <2>1 DEF Destroy, TypeInv
<1>4. ASSUME NEW c \in Conns, CloseConnection(c) PROVE TypeInv'
  <2>1. Disestablished(conn[c]) \in ConnRecords /\ conn[c].loop \in Loops
    BY <1>0, ConnOps DEF TypeInv, ConnRecords
  <2>2. Queue(conn[c].loop, DownF(c)) \in [Loops -> Seq(Functors)]
    BY <1>0, <2>1, QueueType, BoundFunctors
  <2>3. conn' \in [Conns -> ConnRecords] /\ pendingFunctors_' \in [Loops -> Seq(Functors)]
    BY <1>0, <1>4, <2>1, <2>2 DEF CloseConnection, TypeInv, DownF
  <2> QED
    BY <1>0, <1>4, <2>3 DEF CloseConnection, Erase, TypeInv
<1> QED
  BY <1>0, <1>1, <1>2, <1>3, <1>4, TypeStepOutside DEF SNext, DtorStep
----------------------------------------------------------------------------
(***************************************************************************)
(* What each step does to the connections' loops and to the queues.        *)
(***************************************************************************)

\* conn changes at c only, where the loop stays.
LEMMA LoopsKeptExcept ==
  ASSUME TypeInv, NEW c, NEW k, conn' = [conn EXCEPT ![c] = k],
         c \in Made => k.loop = conn[c].loop, Made \subseteq Made'
  PROVE  LoopsKept
<1>1. ASSUME NEW d \in Made PROVE conn'[d].loop = conn[d].loop
  <2>1. d \in DOMAIN conn
    BY TcpServerAssumption DEF TypeInv, Made, Conns
  <2> QED
    BY <2>1
<1> QED
  BY <1>1 DEF LoopsKept

\* No step moves a connection to another loop.
LEMMA LoopsKeptStep ==
  ASSUME ServerInv, SNext
  PROVE  LoopsKept
<1> USE DEF ServerInv
<1>0. \A c \in Conns : conn[c] \in ConnRecords
  BY DEF TypeInv
<1>1. ASSUME UNCHANGED <<conn, nextConnId_>> PROVE LoopsKept
  BY <1>1 DEF LoopsKept, Made
<1>2. ASSUME NEW c \in Conns, PeerLeaves(c) \/ Destroy(c) PROVE LoopsKept
  <2> DEFINE k == conn'[c]
  <2>1. conn' = [conn EXCEPT ![c] = k] /\ k.loop = conn[c].loop /\ nextConnId_' = nextConnId_
    BY <1>0, <1>2 DEF PeerLeaves, Destroy, TypeInv, tableVars, ConnRecords
  <2> HIDE DEF k
  <2> QED
    BY <2>1, LoopsKeptExcept DEF Made
<1>3. ASSUME NEW c \in Conns, nextConnId_' = nextConnId_, NEW k \in ConnRecords,
             conn' = [conn EXCEPT ![c] = k], k.loop = conn[c].loop
      PROVE  LoopsKept
  BY <1>3, LoopsKeptExcept DEF Made
<1>4. \A c \in Conns : /\ Established(conn[c]).loop = conn[c].loop
                       /\ Closed(conn[c]).loop = conn[c].loop
                       /\ Disestablished(conn[c]).loop = conn[c].loop
                       /\ Established(conn[c]) \in ConnRecords
                       /\ Closed(conn[c]) \in ConnRecords
                       /\ Disestablished(conn[c]) \in ConnRecords
  BY <1>0, ConnOps
<1>5. CASE Accept
  <2> DEFINE n == nextConnId_
             k == conn'[n]
  <2>1. n \notin Made /\ Made' = Made \cup {n} /\ n \in Conns
    BY <1>5, AcceptFacts
  <2>2. conn' = [conn EXCEPT ![n] = k]
    BY <1>5, <2>1 DEF Accept, TypeInv
  <2> HIDE DEF n, k
  <2> QED
    BY <2>1, <2>2, LoopsKeptExcept
<1>6. ASSUME NEW l \in Loops, LoopStep(l) PROVE LoopsKept
  <2>1. CASE EnterLoop(l) \/ Poll(l) \/ SwapFunctors(l)
    BY <1>1, <2>1 DEF EnterLoop, Poll, SwapFunctors, tableVars
  <2>2. CASE Accept \/ AcceptNothing \/ AcceptFatal
    BY <1>1, <1>5, <2>2 DEF AcceptNothing, AcceptFatal, tableVars
  <2>3. ASSUME NEW c \in Conns, HandleClose(c) PROVE LoopsKept
    BY <1>3, <1>4, <2>3 DEF HandleClose
  <2>4. CASE EndFunctors(l)
    <3>1. nextConnId_' = nextConnId_ /\ \A c \in Conns : conn'[c].loop = conn[c].loop
      BY <1>0, <2>4, ConnDropped DEF EndFunctors, tableVars
    <3> QED
      BY <3>1, TcpServerAssumption DEF LoopsKept, Made, TypeInv, Conns
  <2>5. CASE l = 0 /\ (RunListen \/ RemoveConnectionInLoop)
    BY <1>1, <2>5 DEF RunListen, RemoveConnectionInLoop, Running
  <2>6. CASE ConnectEstablished(l)
    <3>1. Running(l, "connectEstablished") /\ Head(functors[l]).c \in Conns
      BY <2>6, RunningFacts DEF ConnectEstablished
    <3> QED
      BY <1>3, <1>4, <2>6, <3>1 DEF ConnectEstablished, Running
  <2>7. CASE ConnectDestroyed(l)
    <3>1. Running(l, "connectDestroyed") /\ Head(functors[l]).c \in Conns
      BY <2>7, RunningFacts DEF ConnectDestroyed
    <3> QED
      BY <1>3, <1>4, <2>7, <3>1 DEF ConnectDestroyed, Running
  <2> QED
    BY <1>6, <2>1, <2>2, <2>3, <2>4, <2>5, <2>6, <2>7 DEF LoopStep
<1>7. ASSUME NEW c \in Conns, CloseConnection(c) PROVE LoopsKept
  BY <1>1, <1>3, <1>4, <1>7 DEF CloseConnection
<1>8. ASSUME NEW s \in Starters, CallStart(s) \/ StarterStep(s) PROVE LoopsKept
  BY <1>1, <1>8 DEF CallStart, StarterStep, StartIoLoop, StartListening, tableVars
<1>9. CASE ListenFatal \/ ClientConnects \/ QuitBaseLoop \/ \E c \in Conns : Release(c)
  BY <1>1, <1>9 DEF ListenFatal, ClientConnects, QuitBaseLoop, Release, tableVars
<1>10. CASE \/ BeginDestroy \/ AllClosed \/ QuitIoLoop
            \/ AllJoined \/ DestroyAcceptor \/ DestroyBaseLoop
  BY <1>1, <1>10 DEF BeginDestroy, AllClosed, QuitIoLoop, AllJoined, DestroyAcceptor,
                     DestroyBaseLoop, tableVars
<1> QED
  BY <1>2, <1>6, <1>7, <1>8, <1>9, <1>10 DEF SNext, DtorStep

\* The steps that neither queue, run nor drop a functor.
QuietStep ==
    \/ \E s \in Starters : \/ CallStart(s) \/ StartIoLoop(s)
                           \/ s = main /\ StartListening(s)
    \/ ListenFatal \/ ClientConnects \/ QuitBaseLoop
    \/ \E c \in Conns : PeerLeaves(c) \/ Release(c) \/ Destroy(c)
    \/ \E l \in Loops : \/ EnterLoop(l) \/ Poll(l) \/ SwapFunctors(l)
                        \/ EndFunctors(l) /\ ~(quit_[l] /\ l # 0)
    \/ AcceptNothing \/ AcceptFatal
    \/ BeginDestroy \/ AllClosed \/ QuitIoLoop
    \/ AllJoined \/ DestroyAcceptor

\* They leave every queue as it is, swap() included (EventLoop::doPendingFunctors).
LEMMA QuietQueues ==
  ASSUME TypeInv, StartInv, LoopsInv, QueueInv, QuietStep, NEW k \in Loops
  PROVE  /\ Todo(k)' = Todo(k) /\ Waiting(k)' = Waiting(k)
         /\ (lpc[k] # "run" => functors[k] = <<>>)'
<1> USE DEF startVars, loopVars, batchVars
<1>1. lpc[k] # "run" => functors[k] = <<>>
  BY DEF QueueInv, QueueOK
<1>2. ASSUME UNCHANGED <<functors, pendingFunctors_>>,
             lpc'[k] # "run" => lpc[k] # "run" \/ functors[k] = <<>>
      PROVE  /\ Todo(k)' = Todo(k) /\ Waiting(k)' = Waiting(k)
             /\ (lpc[k] # "run" => functors[k] = <<>>)'
  BY <1>1, <1>2, SameTodo
<1>3. CASE \/ \E s \in Starters : CallStart(s) \/ (s = main /\ StartListening(s))
           \/ ListenFatal \/ ClientConnects \/ QuitBaseLoop
           \/ \E c \in Conns : PeerLeaves(c) \/ Release(c) \/ Destroy(c)
           \/ AcceptNothing \/ AcceptFatal
           \/ BeginDestroy \/ AllClosed \/ QuitIoLoop
           \/ AllJoined \/ DestroyAcceptor
  <2>1. UNCHANGED <<functors, pendingFunctors_, lpc>>
    BY <1>3 DEF CallStart, StartListening, ClientConnects, QuitBaseLoop, PeerLeaves,
                Release, Destroy, AcceptNothing, AcceptFatal, BeginDestroy, AllClosed,
                QuitIoLoop, AllJoined, DestroyAcceptor, ListenFatal
  <2> QED
    BY <1>2, <2>1
<1>4. ASSUME NEW s \in Starters, StartIoLoop(s)
      PROVE  lpc'[k] # "run" => lpc[k] # "run" \/ functors[k] = <<>>
  <2>1. i[s] \in Nat /\ loops_ = [n \in 1..i[s] |-> n] /\ i[s] + 1 \in 1..MaxThreads
    BY <1>4, NextIoLoop DEF StartInv, StartIoLoop
  <2>2. lpc[i[s] + 1] = "off"
    <3>1. Len(loops_) = i[s]
      BY <2>1
    <3> QED
      BY <2>1, <3>1 DEF LoopsInv
  <2> QED
    BY <1>4, <2>2 DEF StartIoLoop, TypeInv
<1>5. CASE \E s \in Starters : StartIoLoop(s)
  <2>1. UNCHANGED <<functors, pendingFunctors_>>
    BY <1>5 DEF StartIoLoop
  <2> QED
    BY <1>2, <1>4, <1>5, <2>1
<1>6. ASSUME NEW l \in Loops,
             EnterLoop(l) \/ Poll(l) \/ (EndFunctors(l) /\ ~(quit_[l] /\ l # 0))
      PROVE  /\ Todo(k)' = Todo(k) /\ Waiting(k)' = Waiting(k)
             /\ (lpc[k] # "run" => functors[k] = <<>>)'
  <2>1. UNCHANGED <<functors, pendingFunctors_>>
    BY <1>6 DEF EnterLoop, Poll, EndFunctors
  <2>2. lpc'[k] # "run" => lpc[k] # "run" \/ functors[k] = <<>>
    BY <1>6 DEF EnterLoop, Poll, EndFunctors, TypeInv
  <2> QED
    BY <1>2, <2>1, <2>2
<1>7. ASSUME NEW l \in Loops, SwapFunctors(l)
      PROVE  /\ Todo(k)' = Todo(k) /\ Waiting(k)' = Waiting(k)
             /\ (lpc[k] # "run" => functors[k] = <<>>)'
  <2>1. CASE k = l
    <3>1. functors[l] = <<>> /\ functors'[l] = pendingFunctors_[l]
          /\ pendingFunctors_'[l] = <<>> /\ lpc'[l] = "run"
      BY <1>1, <1>7, <2>1 DEF SwapFunctors, TypeInv
    <3> QED
      BY <2>1, <3>1, SwappedTodo
  <2>2. CASE k # l
    <3>1. functors'[k] = functors[k] /\ pendingFunctors_'[k] = pendingFunctors_[k]
          /\ lpc'[k] = lpc[k]
      BY <1>7, <2>2 DEF SwapFunctors, TypeInv
    <3> QED
      BY <1>1, <3>1, SameTodo
  <2> QED
    BY <2>1, <2>2
<1> QED
  BY <1>3, <1>5, <1>6, <1>7 DEF QuietStep

\* What the steps do that queue a functor.
LEMMA QueuingSteps ==
  ASSUME ServerInv, SNext
  PROVE  /\ \A s \in Starters : StartListening(s) /\ s # main =>
              /\ MayQueue(0, ListenF) /\ pendingFunctors_' = Queue(0, ListenF)
         /\ Accept /\ NextLoop # 0 =>
              /\ MayQueue(NextLoop, UpF(nextConnId_))
              /\ pendingFunctors_' = Queue(NextLoop, UpF(nextConnId_))
         /\ \A c \in Conns : HandleClose(c) =>
              /\ c \in Made /\ conn[c].loop \in Loops
              /\ conn[c].state_ = "kConnected"
              /\ IF conn[c].loop = 0
                 THEN MayQueue(0, DownF(c)) /\ pendingFunctors_' = Queue(0, DownF(c))
                 ELSE MayQueue(0, GoneF(c)) /\ pendingFunctors_' = Queue(0, GoneF(c))
         /\ RemoveConnectionInLoop =>
              LET c == Head(functors[0]).c
              IN  /\ c \in Made /\ c \in connections_ /\ conn[c].state_ = "kDisconnected"
                  /\ conn[c].loop \in Loops /\ conn[c].loop # 0 /\ dpc = "no"
                  /\ MayQueue(conn[c].loop, DownF(c))
                  /\ pendingFunctors_' = Queue(conn[c].loop, DownF(c))
         /\ \A c \in Conns : CloseConnection(c) =>
              /\ c \in Made /\ conn[c].loop \in Loops
              /\ conn[c].loop # 0 =>
                   /\ MayQueue(conn[c].loop, DownF(c))
                   /\ pendingFunctors_' = Queue(conn[c].loop, DownF(c))
<1> USE DEF ServerInv
<1>1. LoopsKept
  BY LoopsKeptStep
<1>2. 0 \in Loops /\ Made \subseteq Conns
  BY TcpServerAssumption DEF Loops, TypeInv, Made, Conns
<1>3. \A c \in Conns : conn[c].loop \in Loops
  BY DEF TypeInv, ConnRecords
<1>4. ASSUME NEW s \in Starters, StartListening(s), s # main
      PROVE  MayQueue(0, ListenF) /\ pendingFunctors_' = Queue(0, ListenF)
  <2>1. ListenF \notin Waiting(0) /\ ListenF.fn = "listen" /\ ListenF.c = 0
    BY <1>4 DEF StartListening, StartInv, ListenF, Bound
  <2> QED
    BY <1>4, <2>1, BoundFunctors DEF MayQueue, StartListening, ListenF
<1>5. ASSUME Accept, NextLoop # 0
      PROVE  /\ MayQueue(NextLoop, UpF(nextConnId_))
             /\ pendingFunctors_' = Queue(NextLoop, UpF(nextConnId_))
  <2> DEFINE n == nextConnId_
             l == NextLoop
  <2>1. n \in Conns /\ n \notin Made /\ Made' = Made \cup {n} /\ l \in Loops
    BY <1>5, AcceptFacts
  <2>2. n # 0
    BY <2>1 DEF Conns
  <2>3. UpF(n) \notin Waiting(l) /\ DownF(n) \notin Waiting(l)
    BY <2>1, <2>2 DEF QueueInv, QueueOK, UpF, DownF, Bound
  <2>4. conn'[n].loop = l
    BY <1>5, <2>1, AcceptFacts DEF Accept, Accepted, TypeInv
  <2>5. pendingFunctors_' = Queue(l, UpF(n))
    BY <1>5 DEF Accept, UpF
  <2>6. UpF(n).fn = "connectEstablished" /\ UpF(n).c = n
    BY DEF UpF, Bound
  <2>7. \A c \in Conns : UpF(n) = UpF(c) => DownF(c) \notin Waiting(l)
    BY <2>1, <2>3, BoundFunctors
  <2> HIDE DEF n, l
  <2>8. MayQueue(l, UpF(n))
    BY <2>1, <2>3, <2>4, <2>6, <2>7 DEF MayQueue
  <2> QED
    BY <2>5, <2>8 DEF n, l
<1>6. ASSUME NEW c \in Made
      PROVE  /\ DownF(c) \notin Waiting(conn[c].loop) => MayQueue(conn[c].loop, DownF(c))
             /\ GoneF(c) \notin Waiting(0) => MayQueue(0, GoneF(c))
  <2>1. /\ DownF(c).c = c /\ DownF(c).fn = "connectDestroyed"
        /\ GoneF(c).c = c /\ GoneF(c).fn = "removeConnectionInLoop"
        /\ \A d \in Conns : DownF(c) # UpF(d) /\ GoneF(c) # UpF(d)
    BY DEF DownF, GoneF, UpF, Bound
  <2>2. c \in Made' /\ conn'[c].loop = conn[c].loop
    BY <1>1 DEF LoopsKept
  <2> QED
    BY <2>1, <2>2 DEF MayQueue
<1>7. ASSUME NEW c \in Conns, HandleClose(c)
      PROVE  /\ c \in Made /\ conn[c].state_ = "kConnected"
             /\ IF conn[c].loop = 0
                THEN MayQueue(0, DownF(c)) /\ pendingFunctors_' = Queue(0, DownF(c))
                ELSE MayQueue(0, GoneF(c)) /\ pendingFunctors_' = Queue(0, GoneF(c))
  <2>1. c # Acc /\ c \in active[conn[c].loop]
    BY <1>7, TcpServerAssumption DEF HandleClose, Handling, Conns, Acc
  <2>2. c \in Made /\ conn[c].state_ = "kConnected"
    BY <1>3, <2>1 DEF ActiveInv
  <2>3. ConnInv(c)
    BY <2>2 DEF ConnsInv
  <2>4. CASE conn[c].loop = 0
    <3>1. DownF(c) \notin Waiting(0)
      BY <2>2, <2>3, <2>4 DEF ConnInv
    <3> QED
      BY <1>2, <1>6, <1>7, <2>2, <2>4, <3>1, BoundFunctors
         DEF HandleClose, DestroyedLoop, DownF
  <2>5. CASE conn[c].loop # 0
    <3>1. GoneF(c) \notin Waiting(0)
      BY <2>2, <2>3 DEF ConnInv
    <3> QED
      BY <1>2, <1>6, <1>7, <2>2, <2>5, <3>1, BoundFunctors DEF HandleClose, GoneF
  <2> QED
    BY <2>2, <2>4, <2>5
<1>8. ASSUME RemoveConnectionInLoop
      PROVE  LET c == Head(functors[0]).c
             IN  /\ c \in Made /\ c \in connections_ /\ conn[c].state_ = "kDisconnected"
                 /\ conn[c].loop \in Loops /\ conn[c].loop # 0 /\ dpc = "no"
                 /\ MayQueue(conn[c].loop, DownF(c))
                 /\ pendingFunctors_' = Queue(conn[c].loop, DownF(c))
  <2> DEFINE c == Head(functors[0]).c
  <2>1. Running(0, "removeConnectionInLoop")
    BY <1>8 DEF RemoveConnectionInLoop
  <2>2. c \in Made /\ c \in Conns /\ GoneF(c) \in Waiting(0)
    BY <1>2, <2>1, RunningFacts DEF GoneF
  <2>3. dpc = "no"
    BY <2>1 DEF Running, LoopsInv
  <2>4. pendingFunctors_' = Queue(conn[c].loop, DownF(c))
    BY <1>8 DEF RemoveConnectionInLoop, DestroyedLoop, DownF
  <2> HIDE DEF c
  <2>5. ConnInv(c)
    BY <2>2 DEF ConnsInv
  <2>6. /\ c \in connections_ /\ conn[c].state_ = "kDisconnected" /\ conn[c].loop # 0
        /\ DownF(c) \notin Waiting(conn[c].loop)
    BY <2>2, <2>3, <2>5 DEF ConnInv
  <2>7. MayQueue(conn[c].loop, DownF(c))
    BY <1>3, <1>6, <2>2, <2>6, BoundFunctors
  <2> QED
    BY <1>3, <2>2, <2>3, <2>4, <2>6, <2>7 DEF c
<1>9. ASSUME NEW c \in Conns, CloseConnection(c)
      PROVE  /\ c \in Made
             /\ conn[c].loop # 0 =>
                  /\ MayQueue(conn[c].loop, DownF(c))
                  /\ pendingFunctors_' = Queue(conn[c].loop, DownF(c))
  <2>1. c \in connections_ /\ c \in Made
    BY <1>9 DEF CloseConnection, TypeInv
  <2>2. DownF(c) \notin Waiting(conn[c].loop)
    BY <2>1 DEF ConnsInv, ConnInv
  <2>3. MayQueue(conn[c].loop, DownF(c))
    BY <1>3, <1>6, <2>1, <2>2, BoundFunctors
  <2> QED
    BY <1>9, <2>1, <2>3 DEF CloseConnection, DownF
<1> QED
  BY <1>3, <1>4, <1>5, <1>7, <1>8, <1>9

\* queueInLoop keeps the queues in order.
LEMMA QueueInvQueue ==
  ASSUME TypeInv, QueueInv, LoopsKept, NEW d \in Loops, NEW h \in Functors,
         MayQueue(d, h), pendingFunctors_' = Queue(d, h), UNCHANGED <<functors, lpc>>
  PROVE  QueueInv'
<1> SUFFICES ASSUME NEW k \in Loops PROVE QueueOK(k)'
  BY DEF QueueInv
<1>1. QueueOK(k) /\ functors'[k] = functors[k] /\ lpc'[k] = lpc[k]
  BY DEF QueueInv
<1>2. Todo(k)' = IF k = d THEN Append(Todo(k), h) ELSE Todo(k)
  BY <1>1, QueuedTodo
<1>3. CASE k = d
  BY <1>1, <1>2, <1>3, QueueAppend
<1>4. CASE k # d
  <2>1. (lpc[k] # "run" => functors[k] = <<>>)'
    BY <1>1 DEF QueueOK
  <2> QED
    BY <1>1, <1>2, <1>4, <2>1, QueueKeep
<1> QED
  BY <1>3, <1>4

\* What the functor that is run leaves of the queues.
LEMMA RunningQueues ==
  ASSUME TypeInv, QueueInv, LoopsKept, NEW l \in Loops, NEW fn, Running(l, fn),
         NEW k \in Loops, pendingFunctors_'[k] = pendingFunctors_[k]
  PROVE  /\ QueueOK(k)'
         /\ Waiting(k)' = IF k = l THEN Waiting(k) \ {Head(functors[k])} ELSE Waiting(k)
         /\ k = l => Head(functors[k]) \in Waiting(k)
         /\ k # l => Todo(k)' = Todo(k)
<1>1. /\ lpc[l] = "run" /\ functors[l] # <<>> /\ lpc' = lpc
      /\ functors'[k] = IF k = l THEN Tail(functors[k]) ELSE functors[k]
  BY DEF Running, TypeInv
<1>2. QueueOK(k)
  BY DEF QueueInv
<1>3. CASE k = l
  BY <1>1, <1>2, <1>3, RanTodo, QueueRun
<1>4. CASE k # l
  <2>1. Todo(k)' = Todo(k) /\ Waiting(k)' = Waiting(k)
    BY <1>1, <1>4, SameTodo
  <2>2. (lpc[k] # "run" => functors[k] = <<>>)'
    BY <1>1, <1>2, <1>4 DEF QueueOK
  <2> QED
    BY <1>2, <1>4, <2>1, <2>2, QueueKeep
<1> QED
  BY <1>3, <1>4

\* removeConnectionInLoop runs on the base loop and queues to another.
LEMMA RemoveQueues ==
  ASSUME ServerInv, SNext, RemoveConnectionInLoop, NEW k \in Loops,
         NEW c, c = Head(functors[0]).c
  PROVE  /\ QueueOK(k)'
         /\ Waiting(k)' = IF k = 0 THEN Waiting(k) \ {GoneF(c)}
                          ELSE IF k = conn[c].loop THEN Waiting(k) \cup {DownF(c)}
                          ELSE Waiting(k)
<1> DEFINE d == conn[c].loop
<1> USE DEF ServerInv
<1>1. LoopsKept /\ 0 \in Loops
  BY LoopsKeptStep, BoundFunctors DEF Acc
<1>2. /\ Running(0, "removeConnectionInLoop") /\ Head(functors[0]) = GoneF(c)
      /\ functors'[0] = Tail(functors[0]) /\ \A l \in Loops : l # 0 => functors'[l] = functors[l]
      /\ lpc' = lpc
  BY <1>1, RunningFacts DEF RemoveConnectionInLoop, GoneF, Running, TypeInv
<1>3. /\ d \in Loops /\ d # 0 /\ MayQueue(d, DownF(c)) /\ pendingFunctors_' = Queue(d, DownF(c))
      /\ DownF(c) \in Functors
  <2>1. c \in Conns
    BY <1>1, RunningFacts DEF RemoveConnectionInLoop
  <2> QED
    BY <2>1, QueuingSteps, BoundFunctors
<1> HIDE DEF d
<1>4. \A l \in Loops : l # d => pendingFunctors_'[l] = pendingFunctors_[l]
  BY <1>3 DEF Queue, TypeInv
<1>5. QueueOK(k)
  BY DEF QueueInv
<1>6. ASSUME k = 0 PROVE QueueOK(k)' /\ Waiting(k)' = Waiting(k) \ {GoneF(c)}
  <2>1. pendingFunctors_'[k] = pendingFunctors_[k]
    BY <1>3, <1>4, <1>6
  <2> QED
    BY <1>1, <1>2, <1>6, <2>1, RunningQueues
<1>7. ASSUME k = d PROVE QueueOK(k)' /\ Waiting(k)' = Waiting(k) \cup {DownF(c)}
  <2>1. functors'[k] = functors[k] /\ lpc'[k] = lpc[k]
    BY <1>2, <1>3, <1>7
  <2>2. /\ Todo(k)' = Append(Todo(k), DownF(c)) /\ Waiting(k)' = Waiting(k) \cup {DownF(c)}
    BY <1>3, <1>7, <2>1, QueuedTodo
  <2> QED
    BY <1>1, <1>3, <1>5, <1>7, <2>1, <2>2, QueueAppend
<1>8. ASSUME k # 0, k # d PROVE QueueOK(k)' /\ Waiting(k)' = Waiting(k)
  <2>1. pendingFunctors_'[k] = pendingFunctors_[k]
    BY <1>4, <1>8
  <2> QED
    BY <1>1, <1>2, <1>8, <2>1, RunningQueues
<1> QED
  BY <1>3, <1>6, <1>7, <1>8 DEF d

\* A loop that goes takes its functors with it.
LEMMA DropQueues ==
  ASSUME ServerInv, LoopsKept, NEW l \in Loops,
         (EndFunctors(l) /\ quit_[l] /\ l # 0) \/ (DestroyBaseLoop /\ l = 0),
         NEW k \in Loops
  PROVE  /\ QueueOK(k)'
         /\ Waiting(k)' = IF k = l THEN {} ELSE Waiting(k)
<1> USE DEF ServerInv
<1>1. QueueOK(k) /\ QueueOK(l)
  BY DEF QueueInv
<1>2. functors'[l] = <<>> /\ pendingFunctors_'[l] = <<>>
  <2>1. CASE EndFunctors(l) /\ quit_[l] /\ l # 0
    BY <2>1 DEF EndFunctors, TypeInv
  <2>2. CASE DestroyBaseLoop /\ l = 0
    BY <1>1, <2>2 DEF DestroyBaseLoop, batchVars, LoopsInv, QueueOK, TypeInv
  <2> QED
    BY <2>1, <2>2
<1>3. CASE k = l
  BY <1>2, <1>3, QueueDrop, DroppedTodo
<1>4. CASE k # l
  <2>1. functors'[k] = functors[k] /\ pendingFunctors_'[k] = pendingFunctors_[k]
        /\ lpc'[k] = lpc[k]
    BY <1>4 DEF EndFunctors, DestroyBaseLoop, batchVars, TypeInv
  <2>2. Todo(k)' = Todo(k) /\ Waiting(k)' = Waiting(k)
    BY <2>1, SameTodo
  <2>3. (lpc[k] # "run" => functors[k] = <<>>)'
    BY <1>1, <2>1 DEF QueueOK
  <2> QED
    BY <1>1, <1>4, <2>2, <2>3, QueueKeep
<1> QED
  BY <1>3, <1>4

\* The queues stay in order.
LEMMA QueueInvStep ==
  ASSUME ServerInv, SNext
  PROVE  QueueInv'
<1> USE DEF ServerInv
<1>1. LoopsKept /\ 0 \in Loops /\ Made \subseteq Conns
  BY LoopsKeptStep, BoundFunctors, TcpServerAssumption DEF Acc, TypeInv, Made, Conns
<1>2. \A k \in Loops : QueueOK(k)
  BY DEF QueueInv
<1>3. CASE QuietStep
  BY <1>1, <1>2, <1>3, QuietQueues, QueueKeep DEF QueueInv
<1>4. ASSUME UNCHANGED <<functors, pendingFunctors_, lpc>> PROVE QueueInv'
  <2> SUFFICES ASSUME NEW k \in Loops PROVE QueueOK(k)'
    BY DEF QueueInv
  <2>1. Todo(k)' = Todo(k) /\ (lpc[k] # "run" => functors[k] = <<>>)'
    BY <1>2, <1>4, SameTodo DEF QueueOK
  <2> QED
    BY <1>1, <1>2, <2>1, QueueKeep
<1>5. ASSUME NEW s \in Starters, StartListening(s), s # main PROVE QueueInv'
  <2>1. UNCHANGED <<functors, lpc>>
    BY <1>5 DEF StartListening, batchVars
  <2> QED
    BY <1>1, <1>5, <2>1, QueuingSteps, QueueInvQueue, BoundFunctors
<1>6. CASE Accept
  <2>1. UNCHANGED <<functors, lpc>>
    BY <1>6 DEF Accept, batchVars
  <2>2. CASE NextLoop = 0
    BY <1>4, <1>6, <2>1, <2>2 DEF Accept
  <2>3. CASE NextLoop # 0
    BY <1>1, <1>6, <2>1, <2>3, QueuingSteps, QueueInvQueue, BoundFunctors, AcceptFacts
  <2> QED
    BY <2>2, <2>3
<1>7. ASSUME NEW c \in Conns, HandleClose(c) PROVE QueueInv'
  <2>1. UNCHANGED <<functors, lpc>>
    BY <1>7 DEF HandleClose, batchVars
  <2> QED
    BY <1>1, <1>7, <2>1, QueuingSteps, QueueInvQueue, BoundFunctors
<1>8. ASSUME NEW c \in Conns, CloseConnection(c) PROVE QueueInv'
  <2>1. UNCHANGED <<functors, lpc>>
    BY <1>8 DEF CloseConnection, batchVars
  <2>2. CASE conn[c].loop = 0
    BY <1>4, <1>8, <2>1, <2>2 DEF CloseConnection
  <2>3. CASE conn[c].loop # 0
    BY <1>1, <1>8, <2>1, <2>3, QueuingSteps, QueueInvQueue, BoundFunctors
  <2> QED
    BY <2>2, <2>3
<1>9. CASE RemoveConnectionInLoop
  BY <1>9, RemoveQueues DEF QueueInv
<1>10. ASSUME NEW l \in Loops, (RunListen /\ l = 0) \/ ConnectEstablished(l) \/ ConnectDestroyed(l)
       PROVE  QueueInv'
  <2>1. pendingFunctors_' = pendingFunctors_ /\ \E fn : Running(l, fn)
    BY <1>10 DEF RunListen, ConnectEstablished, ConnectDestroyed
  <2> QED
    BY <1>1, <2>1, RunningQueues DEF QueueInv
<1>11. ASSUME NEW l \in Loops,
              (EndFunctors(l) /\ quit_[l] /\ l # 0) \/ (DestroyBaseLoop /\ l = 0)
       PROVE  QueueInv'
  BY <1>1, <1>11, DropQueues DEF QueueInv
<1> QED
  BY <1>1, <1>3, <1>5, <1>6, <1>7, <1>8, <1>9, <1>10, <1>11
     DEF SNext, StarterStep, LoopStep, DtorStep, QuietStep

\* What waits after a step that only queues.
LEMMA QueuedWaiting ==
  ASSUME TypeInv, NEW d \in Loops, NEW h \in Functors,
         pendingFunctors_' = Queue(d, h), UNCHANGED functors, NEW k \in Loops
  PROVE  Waiting(k)' = IF k = d THEN Waiting(k) \cup {h} ELSE Waiting(k)
BY QueuedTodo

\* Only start() makes listen wait, and running it takes it away.
LEMMA ListenWaits ==
  ASSUME ServerInv, SNext
  PROVE  /\ ListenF \in Waiting(0)' => \/ ListenF \in Waiting(0)
                                       \/ \E s \in Starters : StartListening(s)
         /\ RunListen => ListenF \in Waiting(0) /\ ListenF \notin Waiting(0)'
<1> USE DEF ServerInv
<1>1. LoopsKept /\ 0 \in Loops /\ Made \subseteq Conns
  BY LoopsKeptStep, BoundFunctors, TcpServerAssumption DEF Acc, TypeInv, Made, Conns
<1>2. \A c \in Conns : ListenF \notin {UpF(c), DownF(c), GoneF(c)}
  BY BoundFunctors
<1>3. ASSUME QuietStep PROVE Waiting(0)' = Waiting(0)
  BY <1>1, <1>3, QuietQueues
<1>4. ASSUME UNCHANGED <<functors, pendingFunctors_>> PROVE Waiting(0)' = Waiting(0)
  BY <1>4, SameTodo
<1>5. ASSUME Accept PROVE Waiting(0)' = Waiting(0)
  <2>1. functors' = functors
    BY <1>5 DEF Accept, batchVars
  <2>2. CASE NextLoop = 0
    BY <1>4, <1>5, <2>1, <2>2 DEF Accept
  <2>3. CASE NextLoop # 0
    BY <1>1, <1>5, <2>1, <2>3, QueuingSteps, QueuedWaiting, BoundFunctors, AcceptFacts
  <2> QED
    BY <2>2, <2>3
<1>6. ASSUME NEW c \in Conns, HandleClose(c)
      PROVE  Waiting(0)' \subseteq Waiting(0) \cup {DownF(c), GoneF(c)}
  <2>1. functors' = functors
    BY <1>6 DEF HandleClose, batchVars
  <2> QED
    BY <1>1, <1>6, <2>1, QueuingSteps, QueuedWaiting, BoundFunctors
<1>7. ASSUME NEW c \in Conns, CloseConnection(c)
      PROVE  Waiting(0)' = Waiting(0)
  <2>1. functors' = functors
    BY <1>7 DEF CloseConnection, batchVars
  <2>2. CASE conn[c].loop = 0
    BY <1>4, <1>7, <2>1, <2>2 DEF CloseConnection
  <2>3. CASE conn[c].loop # 0
    BY <1>1, <1>7, <2>1, <2>3, QueuingSteps, QueuedWaiting, BoundFunctors
  <2> QED
    BY <2>2, <2>3
<1>8. ASSUME RemoveConnectionInLoop PROVE Waiting(0)' \subseteq Waiting(0)
  <2> DEFINE c == Head(functors[0]).c
  <2>1. Waiting(0)' = Waiting(0) \ {GoneF(c)}
    BY <1>1, <1>8, RemoveQueues
  <2> QED
    BY <2>1
<1>9. ASSUME NEW l \in Loops, (RunListen /\ l = 0) \/ ConnectEstablished(l) \/ ConnectDestroyed(l)
      PROVE  /\ Waiting(0)' \subseteq Waiting(0)
             /\ RunListen => ListenF \in Waiting(0) /\ ListenF \notin Waiting(0)'
  <2>1. pendingFunctors_' = pendingFunctors_ /\ \E fn : Running(l, fn)
    BY <1>9 DEF RunListen, ConnectEstablished, ConnectDestroyed
  <2>2. Waiting(0)' \subseteq Waiting(0)
    BY <1>1, <2>1, RunningQueues
  <2>3. ASSUME RunListen
        PROVE  ListenF \in Waiting(0) /\ ListenF \notin Waiting(0)'
    <3>1. Running(0, "listen") /\ pendingFunctors_' = pendingFunctors_
      BY <2>3 DEF RunListen
    <3>2. Head(functors[0]) = ListenF
      BY <1>1, <3>1, RunningFacts
    <3>3. Waiting(0)' = Waiting(0) \ {Head(functors[0])} /\ Head(functors[0]) \in Waiting(0)
      BY <1>1, <3>1, RunningQueues
    <3> QED
      BY <3>2, <3>3
  <2> QED
    BY <2>2, <2>3
<1>10. ASSUME NEW l \in Loops,
              (EndFunctors(l) /\ quit_[l] /\ l # 0) \/ (DestroyBaseLoop /\ l = 0)
       PROVE  Waiting(0)' \subseteq Waiting(0)
  BY <1>1, <1>10, DropQueues
<1>11. RunListen => ListenF \in Waiting(0) /\ ListenF \notin Waiting(0)'
  BY <1>1, <1>9
<1>12. ListenF \in Waiting(0)' => \/ ListenF \in Waiting(0)
                                  \/ \E s \in Starters : StartListening(s)
  <2>1. ASSUME NEW c \in Conns, HandleClose(c), ListenF \in Waiting(0)'
        PROVE  ListenF \in Waiting(0)
    BY <1>2, <1>6, <2>1
  <2> QED
    BY <1>1, <1>3, <1>5, <1>7, <1>8, <1>9, <1>10, <2>1
       DEF SNext, StarterStep, LoopStep, DtorStep, QuietStep
<1> QED
  BY <1>11, <1>12
----------------------------------------------------------------------------
(***************************************************************************)
(* start(), the pool, the Acceptor and getNextLoop.                        *)
(***************************************************************************)

\* EventLoopThreadPool::start appends the loops in order.
LEMMA PoolGrows ==
  ASSUME NEW n \in Nat
  PROVE  Append([m \in 1..n |-> m], n + 1) = [m \in 1..(n + 1) |-> m]
<1> DEFINE p == [m \in 1..n |-> m]
           q == [m \in 1..(n + 1) |-> m]
<1>1. p \in Seq(Nat) /\ q \in Seq(Nat) /\ Len(p) = n /\ Len(q) = n + 1
  OBVIOUS
<1>2. /\ Append(p, n + 1) \in Seq(Nat) /\ Len(Append(p, n + 1)) = n + 1
      /\ \A m \in 1..n : Append(p, n + 1)[m] = p[m]
      /\ Append(p, n + 1)[n + 1] = n + 1
  BY <1>1, AppendProperties
<1>3. \A m \in 1..(n + 1) : Append(p, n + 1)[m] = q[m]
  BY <1>2
<1> QED
  BY <1>1, <1>2, <1>3, SeqEqual

\* started_ is counted up once for each thread that calls start().
LEMMA CallCounts ==
  ASSUME TypeInv, StartInv, NEW s \in Starters, CallStart(s)
  PROVE  /\ started_' = Cardinality({ t \in Starters : spc'[t] # "idle" })
         /\ FirstCall => \A t \in Starters : spc[t] = "idle"
<1> DEFINE C == { t \in Starters : spc[t] # "idle" }
           D == { t \in Starters : spc'[t] # "idle" }
<1>1. IsFiniteSet(C) /\ started_ = Cardinality(C)
  BY TcpServerAssumption, FS_Subset DEF StartInv
<1>2. D = C \cup {s} /\ s \notin C
  BY DEF CallStart, TypeInv
<1>3. Cardinality(D) = Cardinality(C) + 1
  BY <1>1, <1>2, FS_AddElement
<1>4. FirstCall => C = {}
  BY <1>1, FS_EmptySet DEF FirstCall
<1> QED
  BY <1>1, <1>3, <1>4 DEF CallStart

\* A thread in start() has counted started_ up.
LEMMA Started ==
  ASSUME StartInv, NEW s \in Starters, spc[s] = "starting"
  PROVE  started_ # 0
<1> DEFINE C == { t \in Starters : spc[t] # "idle" }
<1>1. IsFiniteSet(C) /\ started_ = Cardinality(C) /\ s \in C
  BY TcpServerAssumption, FS_Subset DEF StartInv
<1> QED
  BY <1>1, FS_EmptySet

\* The loops that start() gets past started_++ == 0 with are its own.
LEMMA StartInvStep ==
  ASSUME ServerInv, SNext
  PROVE  StartInv'
<1> USE DEF ServerInv
<1>1. ASSUME UNCHANGED <<started_, spc, i, loops_, numThreads_, listening_>>,
             ListenF \in Waiting(0)' => ListenF \in Waiting(0),
             ~listening_ => UNCHANGED <<nextConnId_, backlog, next_>>
      PROVE  StartInv'
  BY <1>1 DEF StartInv
<1>2. ListenF \in Waiting(0)' => \/ ListenF \in Waiting(0)
                                 \/ \E s \in Starters : StartListening(s)
  BY ListenWaits
<1>3. ASSUME NEW s \in Starters, CallStart(s) PROVE StartInv'
  <2>1. /\ started_' = Cardinality({ t \in Starters : spc'[t] # "idle" })
        /\ FirstCall => \A t \in Starters : spc[t] = "idle"
    BY <1>3, CallCounts
  <2>2. /\ started_ \in Nat /\ started_' = started_ + 1
        /\ spc' = [spc EXCEPT ![s] = IF FirstCall THEN "starting" ELSE "returned"]
        /\ UNCHANGED <<i, loops_, numThreads_, listening_, nextConnId_, backlog, next_>>
        /\ spc[s] = "idle"
    BY <1>3, StartedCount DEF CallStart, poolVars, accVars, tableVars
  <2>3. ~FirstCall => started_ > 0
    BY <2>2 DEF FirstCall
  <2>4. FirstCall => i[s] = 0 /\ loops_ = <<>> /\ ListenF \notin Waiting(0) /\ ~listening_
    BY <2>1 DEF FirstCall, StartInv
  <2>5. Waiting(0)' = Waiting(0)
    BY <1>3, QuietQueues, BoundFunctors DEF QuietStep, Acc
  <2>6. 0 <= numThreads_ /\ <<>> = [n \in 1..0 |-> n]
    BY DEF TypeInv
  <2>7. CASE FirstCall
    <3>1. \A t \in Starters : spc'[t] = IF t = s THEN "starting" ELSE "idle"
      BY <2>1, <2>2, <2>7 DEF TypeInv
    <3> QED
      BY <2>1, <2>2, <2>4, <2>5, <2>6, <2>7, <3>1 DEF StartInv
  <2>8. CASE ~FirstCall
    <3>1. \A t \in Starters : spc'[t] = IF t = s THEN "returned" ELSE spc[t]
      BY <2>2, <2>8 DEF TypeInv
    <3> QED
      BY <2>1, <2>2, <2>3, <2>5, <2>8, <3>1 DEF StartInv
  <2> QED
    BY <2>7, <2>8
<1>4. ASSUME NEW s \in Starters, StartIoLoop(s) PROVE StartInv'
  <2>1. /\ UNCHANGED <<started_, spc, numThreads_, listening_, nextConnId_, backlog, next_>>
        /\ i' = [i EXCEPT ![s] = @ + 1] /\ loops_' = Append(loops_, i[s] + 1)
        /\ spc[s] = "starting" /\ i[s] < numThreads_ /\ i[s] \in Nat /\ numThreads_ \in Nat
    BY <1>4, NextIoLoop DEF StartIoLoop, poolVars, accVars, tableVars, TypeInv
  <2>2. loops_' = [n \in 1..(i[s] + 1) |-> n]
    BY <2>1, PoolGrows DEF StartInv
  <2>3. Waiting(0)' = Waiting(0)
    BY <1>4, QuietQueues, BoundFunctors DEF QuietStep, Acc
  <2>4. \A t \in Starters : i'[t] = IF t = s THEN i[s] + 1 ELSE i[t]
    BY <2>1 DEF TypeInv
  <2>5. started_ # 0
    BY <2>1, Started
  <2>6. i[s] + 1 <= numThreads_
    BY <2>1
  <2> QED
    BY <2>1, <2>2, <2>3, <2>4, <2>5, <2>6 DEF StartInv
<1>5. ASSUME NEW s \in Starters, StartListening(s) PROVE StartInv'
  <2>1. /\ UNCHANGED <<started_, i, loops_, numThreads_, nextConnId_, backlog, next_>>
        /\ spc' = [spc EXCEPT ![s] = "returned"]
        /\ spc[s] = "starting" /\ i[s] = numThreads_
    BY <1>5 DEF StartListening, PoolStarted, poolVars, tableVars
  <2>2. \A t \in Starters : spc'[t] = IF t = s THEN "returned" ELSE spc[t]
    BY <2>1 DEF TypeInv
  <2>3. \A t \in Starters : spc[t] = "starting" => t = s
    BY <2>1 DEF StartInv
  <2>4. loops_ = [n \in 1..numThreads_ |-> n] /\ ~listening_ /\ ListenF \notin Waiting(0)
    BY <2>1 DEF StartInv
  <2>5. { t \in Starters : spc'[t] # "idle" } = { t \in Starters : spc[t] # "idle" }
    BY <2>1, <2>2
  <2>6. started_ # 0
    BY <2>1, Started
  <2>7. listening_' => ListenF \notin Waiting(0)'
    <3>1. CASE s = main
      <4>1. Waiting(0)' = Waiting(0)
        BY <1>5, <3>1, QuietQueues, BoundFunctors DEF QuietStep, Acc
      <4> QED
        BY <2>4, <4>1
    <3>2. CASE s # main
      BY <1>5, <2>4, <3>2 DEF StartListening, accVars
    <3> QED
      BY <3>1, <3>2
  <2>8. \A t \in Starters : spc'[t] # "starting"
    BY <2>2, <2>3
  <2>9. nextConnId_' = 1 /\ backlog' = 0 /\ next_' = 0
    BY <2>1, <2>4 DEF StartInv
  <2>10. \A t \in Starters : spc'[t] = "idle" => i'[t] = 0
    BY <2>1, <2>2 DEF StartInv
  <2>11. started_' = Cardinality({ t \in Starters : spc'[t] # "idle" })
    BY <2>1, <2>5 DEF StartInv
  <2>12. loops_' = [n \in 1..numThreads_' |-> n]
    BY <2>1, <2>4
  <2> QED
    BY <2>1, <2>6, <2>7, <2>8, <2>9, <2>10, <2>11, <2>12 DEF StartInv
<1>6. CASE RunListen
  <2>1. /\ UNCHANGED <<started_, spc, i, loops_, numThreads_>> /\ listening_' = TRUE
    BY <1>6 DEF RunListen, Running, Listen, startVars, poolVars
  <2>2. ListenF \in Waiting(0) /\ ListenF \notin Waiting(0)'
    BY <1>6, ListenWaits
  <2> QED
    BY <2>1, <2>2 DEF StartInv
<1>7. CASE Accept
  <2>1. UNCHANGED <<started_, spc, i, loops_, numThreads_, listening_>> /\ listening_
    BY <1>7, AcceptFacts DEF Accept, startVars, accVars
  <2>2. \A s \in Starters : ~StartListening(s)
    BY <2>1 DEF StartListening, StartInv
  <2> QED
    BY <1>1, <1>2, <2>1, <2>2
<1>8. CASE ClientConnects \/ AcceptNothing
  <2>1. listening_
    BY <1>8, AccFacts DEF ClientConnects, AcceptNothing
  <2>2. UNCHANGED <<started_, spc, i, loops_, numThreads_, listening_>>
    BY <1>8 DEF ClientConnects, AcceptNothing, startVars, poolVars, accVars
  <2>3. \A s \in Starters : ~StartListening(s)
    BY <2>1 DEF StartListening, StartInv
  <2> QED
    BY <1>1, <1>2, <2>1, <2>2, <2>3
<1>9. ASSUME UNCHANGED <<started_, spc, i, loops_, numThreads_, listening_, nextConnId_,
                         backlog, next_>>
      PROVE  StartInv'
  <2>1. \A s \in Starters : StartListening(s) => spc[s] = "starting" /\ spc'[s] = "returned"
    BY DEF StartListening, TypeInv
  <2> QED
    BY <1>1, <1>2, <1>9, <2>1
<1> USE <1>9 DEF startVars, poolVars, accVars, tableVars, Running
<1>10. ASSUME NEW c \in Conns,
              PeerLeaves(c) \/ Release(c) \/ Destroy(c) \/ HandleClose(c) \/ CloseConnection(c)
       PROVE  StartInv'
  BY <1>10 DEF PeerLeaves, Release, Destroy, HandleClose, CloseConnection
<1>11. ASSUME NEW l \in Loops,
              \/ EnterLoop(l) \/ Poll(l) \/ SwapFunctors(l) \/ EndFunctors(l)
              \/ ConnectEstablished(l) \/ ConnectDestroyed(l)
       PROVE  StartInv'
  BY <1>11 DEF EnterLoop, Poll, SwapFunctors, EndFunctors, ConnectEstablished,
               ConnectDestroyed
<1>12. CASE ListenFatal \/ QuitBaseLoop \/ AcceptFatal \/ RemoveConnectionInLoop
  BY <1>12 DEF ListenFatal, QuitBaseLoop, AcceptFatal, RemoveConnectionInLoop
<1>13. CASE BeginDestroy \/ AllClosed \/ QuitIoLoop \/ AllJoined \/ DestroyAcceptor
            \/ DestroyBaseLoop
  BY <1>13 DEF BeginDestroy, AllClosed, QuitIoLoop, AllJoined, DestroyAcceptor,
               DestroyBaseLoop
<1> QED
  BY <1>3, <1>4, <1>5, <1>6, <1>7, <1>8, <1>10, <1>11, <1>12, <1>13
     DEF SNext, StarterStep, LoopStep, DtorStep

\* How far the pool is while start() fills it, and once it listens.
LEMMA PoolLength ==
  ASSUME TypeInv, StartInv
  PROVE  /\ \A s \in Starters : spc[s] = "starting" =>
              i[s] \in 0..MaxThreads /\ Len(loops_) = i[s] /\ next_ = 0
         /\ loops_ \in Seq(1..MaxThreads)
         /\ Len(loops_) \in 0..MaxThreads
         /\ \A n \in 1..Len(loops_) : loops_[n] = n
<1>1. numThreads_ \in 0..MaxThreads /\ MaxThreads \in Nat
  BY TcpServerAssumption DEF TypeInv
<1>2. ASSUME NEW n \in 0..MaxThreads, loops_ = [m \in 1..n |-> m]
      PROVE  /\ loops_ \in Seq(1..MaxThreads) /\ Len(loops_) = n
             /\ \A m \in 1..Len(loops_) : loops_[m] = m
  BY <1>1, <1>2
<1>3. ASSUME NEW s \in Starters, spc[s] = "starting"
      PROVE  i[s] \in 0..MaxThreads /\ loops_ = [m \in 1..i[s] |-> m] /\ next_ = 0
  BY <1>1, <1>3 DEF StartInv, TypeInv
<1>4. CASE \E s \in Starters : spc[s] = "starting"
  BY <1>2, <1>3, <1>4
<1>5. CASE started_ = 0
  <2>1. loops_ = <<>> /\ <<>> = [m \in 1..0 |-> m]
    BY <1>5 DEF StartInv
  <2>2. \A s \in Starters : spc[s] # "starting"
    BY <1>5, Started
  <2> QED
    BY <1>1, <1>2, <2>1, <2>2
<1>6. CASE started_ > 0 /\ \A s \in Starters : spc[s] # "starting"
  <2>1. loops_ = [m \in 1..numThreads_ |-> m]
    BY <1>6 DEF StartInv
  <2> QED
    BY <1>1, <1>2, <1>6, <2>1
<1>7. started_ \in Nat
  BY StartedCount
<1> QED
  BY <1>4, <1>5, <1>6, <1>7

\* getNextLoop stays within loops_, and the destructor comes after loop() and start().
LEMMA LoopsInvStep ==
  ASSUME ServerInv, SNext
  PROVE  LoopsInv'
<1> USE TcpServerAssumption
    DEF ServerInv, startVars, poolVars, accVars, tableVars, batchVars, loopVars, dtorVars, Running
<1>1. Len(loops_) \in 0..MaxThreads /\ backlog \in Nat /\ nextConnId_ \in Nat
  BY PoolLength DEF TypeInv
<1>2. ASSUME UNCHANGED <<next_, loops_, told>>,
             \A l \in 1..MaxThreads : lpc'[l] = "off" <=> lpc[l] = "off",
             nextConnId_' + backlog' <= MaxConns + 1,
             dpc' # "no" => lpc'[0] = "exited" /\ \A s \in Starters : spc'[s] # "starting"
      PROVE  LoopsInv'
  BY <1>2 DEF LoopsInv
<1>3. ASSUME NEW s \in Starters, CallStart(s) PROVE LoopsInv'
  <2>1. dpc' = "no"
    BY <1>3 DEF CallStart, LoopsInv
  <2> QED
    BY <1>2, <1>3, <2>1 DEF CallStart, LoopsInv
<1>4. ASSUME NEW s \in Starters, StartIoLoop(s) PROVE LoopsInv'
  <2>1. /\ spc[s] = "starting" /\ i[s] \in Nat /\ i[s] + 1 \in 1..MaxThreads
        /\ Len(loops_) = i[s] /\ next_ = 0 /\ loops_ \in Seq(1..MaxThreads)
    BY <1>4, NextIoLoop, PoolLength DEF StartIoLoop
  <2>2. Len(loops_') = i[s] + 1
    BY <1>4, <2>1 DEF StartIoLoop
  <2>3. \A l \in 1..MaxThreads : lpc'[l] = IF l = i[s] + 1 THEN "started" ELSE lpc[l]
    <3>1. lpc' = [lpc EXCEPT ![i[s] + 1] = "started"] /\ DOMAIN lpc = Loops
      BY <1>4 DEF StartIoLoop, TypeInv
    <3>2. \A l \in 1..MaxThreads : l \in Loops
      BY DEF Loops
    <3> QED
      BY <3>1, <3>2
  <2>4. dpc' = "no" /\ UNCHANGED <<next_, nextConnId_, backlog, told>>
    BY <1>4, <2>1 DEF StartIoLoop, LoopsInv
  <2>5. \A l \in 1..MaxThreads : lpc'[l] = "off" <=> l > Len(loops_')
    BY <2>1, <2>2, <2>3 DEF LoopsInv
  <2> QED
    BY <2>1, <2>2, <2>4, <2>5 DEF LoopsInv
<1>5. ASSUME NEW s \in Starters, StartListening(s) PROVE LoopsInv'
  <2>1. dpc' = "no"
    BY <1>5 DEF StartListening, LoopsInv
  <2> QED
    BY <1>2, <1>5, <2>1 DEF StartListening, LoopsInv
<1>6. CASE Accept
  <2>1. listening_ /\ dpc = "no" /\ backlog > 0
    BY <1>6, AcceptFacts
  <2>2. UNCHANGED <<loops_, lpc, told>> /\ dpc' = "no" /\ nextConnId_' + backlog' <= MaxConns + 1
    BY <1>1, <1>6, <2>1 DEF Accept, LoopsInv
  <2>3. next_' \in Nat /\ (loops_ # <<>> => next_' < Len(loops_))
    <3>1. loops_ # <<>> => Len(loops_) > 0
      BY PoolLength, EmptySeq
    <3> QED
      BY <1>1, <1>6, <3>1 DEF Accept, AdvanceNext, LoopsInv
  <2> QED
    BY <2>2, <2>3 DEF LoopsInv
<1>7. CASE ClientConnects
  BY <1>1, <1>2, <1>7 DEF ClientConnects, LoopsInv
<1>8. CASE AcceptNothing
  <2>1. backlog > 0
    BY <1>8, AccFacts DEF AcceptNothing
  <2> QED
    BY <1>1, <1>2, <1>8, <2>1 DEF AcceptNothing, LoopsInv
<1>9. CASE QuitIoLoop
  BY <1>1, <1>9 DEF QuitIoLoop, LoopsInv
<1>10. ASSUME NEW l \in Loops, EnterLoop(l) \/ Poll(l) \/ SwapFunctors(l) \/ EndFunctors(l)
       PROVE  LoopsInv'
  <2>1. /\ lpc[l] # "exited" /\ (l # 0 => lpc[l] # "off")
        /\ \E p : p # "off" /\ lpc' = [lpc EXCEPT ![l] = p]
        /\ UNCHANGED <<next_, loops_, nextConnId_, backlog, dpc, told, spc>>
    BY <1>10 DEF EnterLoop, Poll, SwapFunctors, EndFunctors
  <2>2. \A k \in Loops : lpc'[k] = lpc[k] \/ (k = l /\ lpc'[k] # "off")
    BY <2>1 DEF TypeInv
  <2>3. dpc # "no" => l # 0 /\ lpc'[0] = lpc[0]
    BY <2>1, <2>2, BoundFunctors DEF LoopsInv, Acc
  <2>4. \A k \in 1..MaxThreads : lpc'[k] = "off" <=> lpc[k] = "off"
    BY <2>1, <2>2 DEF Loops
  <2> QED
    BY <1>2, <2>1, <2>3, <2>4 DEF LoopsInv
<1>11. CASE BeginDestroy
  BY <1>2, <1>11 DEF BeginDestroy, LoopsInv
<1>12. ASSUME UNCHANGED <<next_, loops_, nextConnId_, backlog, told, spc, lpc>>,
              dpc' = dpc \/ dpc # "no"
       PROVE  LoopsInv'
  BY <1>2, <1>12 DEF LoopsInv
<1> USE <1>12
<1>13. ASSUME NEW c \in Conns,
              PeerLeaves(c) \/ Release(c) \/ Destroy(c) \/ HandleClose(c) \/ CloseConnection(c)
       PROVE  LoopsInv'
  BY <1>13 DEF PeerLeaves, Release, Destroy, HandleClose, CloseConnection
<1>14. ASSUME NEW l \in Loops, ConnectEstablished(l) \/ ConnectDestroyed(l)
       PROVE  LoopsInv'
  BY <1>14 DEF ConnectEstablished, ConnectDestroyed
<1>15. CASE ListenFatal \/ QuitBaseLoop \/ AcceptFatal \/ RemoveConnectionInLoop \/ RunListen
  BY <1>15 DEF ListenFatal, QuitBaseLoop, AcceptFatal, RemoveConnectionInLoop, RunListen
<1>16. CASE AllClosed \/ AllJoined \/ DestroyAcceptor \/ DestroyBaseLoop
  BY <1>16 DEF AllClosed, AllJoined, DestroyAcceptor, DestroyBaseLoop
<1> QED
  BY <1>3, <1>4, <1>5, <1>6, <1>7, <1>8, <1>9, <1>10, <1>11, <1>13, <1>14, <1>15, <1>16
     DEF SNext, StarterStep, LoopStep, DtorStep

\* acceptChannel_ is enabled by the first listen and removed by ~Acceptor.
LEMMA AccInvStep ==
  ASSUME ServerInv, SNext
  PROVE  AccInv'
<1> USE DEF ServerInv, startVars, poolVars, accVars, tableVars, batchVars, loopVars, dtorVars, Running
<1>1. ASSUME UNCHANGED <<listening_, acc>>,
             dpc' \notin {"baseLoop", "done"} => dpc \notin {"baseLoop", "done"}
      PROVE  AccInv'
  BY <1>1 DEF AccInv
<1>2. ASSUME ~listening_, Listen, UNCHANGED dpc PROVE AccInv'
  <2>1. /\ Consistent(EnableReading(acc)) /\ EnableReading(acc).index = "kAdded"
        /\ ~EnableReading(acc).aborted
    BY <1>2, EnableReadingNew DEF AccInv
  <2> QED
    BY <1>2, <2>1 DEF AccInv, Listen
<1>3. ASSUME NEW s \in Starters, StartListening(s) PROVE AccInv'
  <2>1. ~listening_
    BY <1>3 DEF StartListening, StartInv
  <2> QED
    BY <1>1, <1>2, <1>3, <2>1 DEF StartListening
<1>4. CASE RunListen
  <2>1. ~listening_
    BY <1>4, ListenWaits DEF StartInv
  <2> QED
    BY <1>2, <1>4, <2>1 DEF RunListen
<1>5. CASE DestroyAcceptor
  <2> DEFINE gone == DisableAll(acc)
  <2>1. Consistent(acc) /\ ~acc.aborted /\ acc.index \in {"kNew", "kAdded"}
    BY <1>5 DEF DestroyAcceptor, AccInv, Consistent, Channels
  <2>2. Consistent(gone) /\ gone.index # "kNew" /\ ~gone.aborted
    BY <2>1, DisableAllNew, DisableAllAdded
  <2> HIDE DEF gone
  <2>3. /\ Consistent(RemoveChannel(gone)) /\ RemoveChannel(gone).index = "kNew"
        /\ ~RemoveChannel(gone).aborted
    BY <2>2, RemoveChannelMapped
  <2>4. acc' = RemoveChannel(gone) /\ dpc' = "baseLoop"
    BY <1>5 DEF DestroyAcceptor, gone
  <2> QED
    BY <2>3, <2>4 DEF AccInv
<1> USE <1>1
<1>6. ASSUME NEW c \in Conns,
             \/ PeerLeaves(c) \/ Release(c) \/ Destroy(c) \/ HandleClose(c)
             \/ CloseConnection(c)
      PROVE  AccInv'
  BY <1>6 DEF PeerLeaves, Release, Destroy, HandleClose, CloseConnection
<1>7. ASSUME NEW l \in Loops,
             \/ EnterLoop(l) \/ Poll(l) \/ SwapFunctors(l) \/ EndFunctors(l)
             \/ ConnectEstablished(l) \/ ConnectDestroyed(l)
      PROVE  AccInv'
  BY <1>7 DEF EnterLoop, Poll, SwapFunctors, EndFunctors, ConnectEstablished,
              ConnectDestroyed
<1>8. ASSUME NEW s \in Starters, CallStart(s) \/ StartIoLoop(s) PROVE AccInv'
  BY <1>8 DEF CallStart, StartIoLoop
<1>9. CASE ListenFatal \/ QuitBaseLoop \/ ClientConnects \/ Accept \/ AcceptNothing
           \/ AcceptFatal \/ RemoveConnectionInLoop
  BY <1>9 DEF ListenFatal, QuitBaseLoop, ClientConnects, Accept, AcceptNothing, AcceptFatal,
              RemoveConnectionInLoop
<1>10. CASE BeginDestroy \/ AllClosed \/ QuitIoLoop \/ AllJoined \/ DestroyBaseLoop
  BY <1>10 DEF BeginDestroy, AllClosed, QuitIoLoop, AllJoined, DestroyBaseLoop
<1> QED
  BY <1>3, <1>4, <1>5, <1>6, <1>7, <1>8, <1>9, <1>10
     DEF SNext, StarterStep, LoopStep, DtorStep
----------------------------------------------------------------------------
(***************************************************************************)
(* The connections a step is not about.                                    *)
(***************************************************************************)

\* A step of TcpServer or TcpConnection that is about connection c.
ActsOn(c) ==
    \/ Accept /\ c = nextConnId_
    \/ HandleClose(c) \/ CloseConnection(c)
    \/ \E l \in Loops :
         /\ c = Head(functors[l]).c
         /\ \/ ConnectEstablished(l) \/ ConnectDestroyed(l)
            \/ l = 0 /\ RemoveConnectionInLoop

\* A step that is not about c neither queues nor runs a functor that holds c, and
\* drops one only with its loop.
LEMMA OthersWait ==
  ASSUME ServerInv, SNext, NEW c \in Conns, ~ActsOn(c), NEW f, f.c = c, NEW k \in Loops
  PROVE  /\ f \in Waiting(k)' => f \in Waiting(k)
         /\ f \in Waiting(k) => f \in Waiting(k)' \/ Exited(k)'
<1> USE DEF ServerInv
<1>1. LoopsKept /\ 0 \in Loops /\ Made \subseteq Conns
  BY LoopsKeptStep, BoundFunctors, TcpServerAssumption DEF Acc, TypeInv, Made, Conns
<1>2. /\ f # ListenF
      /\ \A d \in Conns : d # c => f \notin {UpF(d), DownF(d), GoneF(d)}
  BY TcpServerAssumption DEF ListenF, UpF, DownF, GoneF, Bound, Conns
<1>3. ASSUME QuietStep PROVE Waiting(k)' = Waiting(k)
  BY <1>3, QuietQueues
<1>4. ASSUME UNCHANGED <<functors, pendingFunctors_>> PROVE Waiting(k)' = Waiting(k)
  BY <1>4, SameTodo
<1>5. ASSUME Accept PROVE f \in Waiting(k)' <=> f \in Waiting(k)
  <2>1. functors' = functors /\ nextConnId_ # c /\ nextConnId_ \in Conns
    BY <1>5, AcceptFacts DEF Accept, batchVars, ActsOn
  <2>2. CASE NextLoop = 0
    BY <1>4, <1>5, <2>1, <2>2 DEF Accept
  <2>3. CASE NextLoop # 0
    BY <1>2, <1>5, <2>1, <2>3, QueuingSteps, QueuedWaiting, BoundFunctors, AcceptFacts
  <2> QED
    BY <2>2, <2>3
<1>6. ASSUME NEW d \in Conns, HandleClose(d)
      PROVE  f \in Waiting(k)' <=> f \in Waiting(k)
  <2>1. functors' = functors /\ d # c
    BY <1>6 DEF HandleClose, batchVars, ActsOn
  <2> QED
    BY <1>1, <1>2, <1>6, <2>1, QueuingSteps, QueuedWaiting, BoundFunctors
<1>7. ASSUME NEW d \in Conns, CloseConnection(d)
      PROVE  f \in Waiting(k)' <=> f \in Waiting(k)
  <2>1. functors' = functors /\ d # c
    BY <1>7 DEF CloseConnection, batchVars, ActsOn
  <2>2. CASE conn[d].loop = 0
    BY <1>4, <1>7, <2>1, <2>2 DEF CloseConnection
  <2>3. CASE conn[d].loop # 0
    BY <1>1, <1>2, <1>7, <2>1, <2>3, QueuingSteps, QueuedWaiting, BoundFunctors
  <2> QED
    BY <2>2, <2>3
<1>8. ASSUME RemoveConnectionInLoop PROVE f \in Waiting(k)' <=> f \in Waiting(k)
  <2>1. PICK d : d = Head(functors[0]).c
    OBVIOUS
  <2>2. d # c /\ d \in Conns
    <3>1. d # c
      BY <1>1, <1>8, <2>1 DEF ActsOn
    <3>2. Running(0, "removeConnectionInLoop")
      BY <1>8 DEF RemoveConnectionInLoop
    <3> QED
      BY <1>1, <2>1, <3>1, <3>2, RunningFacts
  <2>3. Waiting(k)' = IF k = 0 THEN Waiting(k) \ {GoneF(d)}
                      ELSE IF k = conn[d].loop THEN Waiting(k) \cup {DownF(d)}
                      ELSE Waiting(k)
    BY <1>8, <2>1, RemoveQueues
  <2> QED
    BY <1>2, <2>2, <2>3
<1>9. ASSUME RunListen PROVE f \in Waiting(k)' <=> f \in Waiting(k)
  <2>1. Running(0, "listen") /\ pendingFunctors_' = pendingFunctors_
    BY <1>9 DEF RunListen
  <2>2. Head(functors[0]) = ListenF
    BY <1>1, <2>1, RunningFacts
  <2> QED
    BY <1>1, <1>2, <2>1, <2>2, RunningQueues
<1>10. ASSUME NEW l \in Loops, ConnectEstablished(l) \/ ConnectDestroyed(l)
       PROVE  f \in Waiting(k)' <=> f \in Waiting(k)
  <2>1. pendingFunctors_' = pendingFunctors_ /\ \E fn : Running(l, fn)
    BY <1>10 DEF ConnectEstablished, ConnectDestroyed
  <2>2. Head(functors[l]).c # c
    BY <1>10 DEF ActsOn
  <2>3. f # Head(functors[l])
    BY <2>2
  <2> QED
    BY <1>1, <2>1, <2>3, RunningQueues
<1>11. ASSUME NEW l \in Loops,
              (EndFunctors(l) /\ quit_[l] /\ l # 0) \/ (DestroyBaseLoop /\ l = 0)
       PROVE  /\ f \in Waiting(k)' => f \in Waiting(k)
              /\ f \in Waiting(k) => f \in Waiting(k)' \/ Exited(k)'
  <2>1. Waiting(k)' = IF k = l THEN {} ELSE Waiting(k)
    BY <1>1, <1>11, DropQueues
  <2>2. lpc'[l] = "exited"
    BY <1>11 DEF EndFunctors, DestroyBaseLoop, LoopsInv, TypeInv
  <2> QED
    BY <2>1, <2>2 DEF Exited
<1>12. ASSUME NEW s \in Starters, StartListening(s), s # main
       PROVE  f \in Waiting(k)' <=> f \in Waiting(k)
  <2>1. functors' = functors
    BY <1>12 DEF StartListening, batchVars
  <2> QED
    BY <1>1, <1>2, <1>12, <2>1, QueuingSteps, QueuedWaiting, BoundFunctors
<1> QED
  BY <1>1, <1>3, <1>5, <1>6, <1>7, <1>8, <1>9, <1>10, <1>11, <1>12
     DEF SNext, StarterStep, LoopStep, DtorStep, QuietStep

\* What stays of a connection when its peer leaves or epoll drops it.
Alike(k, m) ==
    /\ m.loop = k.loop /\ m.state_ = k.state_ /\ m.cbs = k.cbs
    /\ m.chan.index = k.chan.index /\ m.chan.mapped = k.chan.mapped
    /\ m.chan.aborted = k.chan.aborted
    /\ Consistent(k.chan) => Consistent(m.chan)

\* The peer leaves, the poller goes (EventLoop::~EventLoop) or close() is called.
LEMMA AlikeSteps ==
  ASSUME NEW k \in ConnRecords
  PROVE  /\ Alike(k, k)
         /\ Alike(k, [k EXCEPT !.peer = "gone"]) /\ [k EXCEPT !.peer = "gone"].life = k.life
         /\ Alike(k, [k EXCEPT !.chan.reg = FALSE]) /\ [k EXCEPT !.chan.reg = FALSE].life = k.life
         /\ Alike(k, [k EXCEPT !.life = "freed", !.chan.reg = FALSE, !.chan.interest = {}])
<1> DEFINE ch == k.chan
           u == [ch EXCEPT !.reg = FALSE]
           v == [ch EXCEPT !.reg = FALSE, !.interest = {}]
<1>1. ch \in Channels
  BY DEF ConnRecords
<1>2. /\ [k EXCEPT !.chan.reg = FALSE] = [k EXCEPT !.chan = u]
      /\ [k EXCEPT !.life = "freed", !.chan.reg = FALSE, !.chan.interest = {}]
           = [k EXCEPT !.life = "freed", !.chan = v]
  BY DEF ConnRecords, Channels
<1>3. /\ u.index = ch.index /\ u.mapped = ch.mapped /\ u.aborted = ch.aborted
      /\ v.index = ch.index /\ v.mapped = ch.mapped /\ v.aborted = ch.aborted
  BY <1>1 DEF Channels
<1>4. Consistent(ch) => Consistent(u) /\ Consistent(v)
  BY Unregistered
<1> HIDE DEF u, v
<1>5. Alike(k, [k EXCEPT !.chan = u]) /\ [k EXCEPT !.chan = u].life = k.life
  BY <1>3, <1>4 DEF Alike, ConnRecords
<1>6. Alike(k, [k EXCEPT !.life = "freed", !.chan = v])
  BY <1>3, <1>4 DEF Alike, ConnRecords
<1>7. Alike(k, k) /\ Alike(k, [k EXCEPT !.peer = "gone"]) /\ [k EXCEPT !.peer = "gone"].life = k.life
  BY DEF Alike, ConnRecords
<1> QED
  BY <1>2, <1>5, <1>6, <1>7

\* A step that is not about c leaves c's state, its place in the map and who holds it.
LEMMA OthersAlike ==
  ASSUME ServerInv, SNext, NEW c \in Conns, ~ActsOn(c)
  PROVE  /\ Alike(conn[c], conn'[c])
         /\ conn'[c].life = conn[c].life \/ Destroy(c)
         /\ conn[c] = NoConn => conn'[c] = NoConn
         /\ c \in connections_' <=> c \in connections_
         /\ c \in held' => c \in held
         /\ \A l \in Loops : c \in batchHolds'[l] => c \in batchHolds[l]
         /\ c \in Made' => c \in Made
<1> DEFINE Unharmed == /\ Alike(conn[c], conn'[c])
                       /\ conn'[c].life = conn[c].life \/ Destroy(c)
                       /\ conn[c] = NoConn => conn'[c] = NoConn
                       /\ c \in connections_' <=> c \in connections_
                       /\ c \in held' => c \in held
                       /\ \A l \in Loops : c \in batchHolds'[l] => c \in batchHolds[l]
                       /\ c \in Made' => c \in Made
<1> SUFFICES Unharmed
  OBVIOUS
<1> USE DEF ServerInv, startVars, poolVars, accVars, tableVars, batchVars, loopVars, dtorVars
<1>1. conn[c] \in ConnRecords /\ DOMAIN conn = Conns /\ 0 \in Loops
  BY BoundFunctors DEF TypeInv, Acc
<1>2. conn'[c] = conn[c] => Alike(conn[c], conn'[c]) /\ conn'[c].life = conn[c].life
  BY <1>1, AlikeSteps
<1>3. ASSUME UNCHANGED nextConnId_ PROVE c \in Made' => c \in Made
  BY <1>3 DEF Made
<1>4. CASE PeerLeaves(c)
  <2>1. conn'[c] = [conn[c] EXCEPT !.peer = "gone"] /\ conn[c].life = "alive"
    BY <1>1, <1>4 DEF PeerLeaves
  <2>2. conn[c] # NoConn
    BY <2>1 DEF NoConn
  <2>3. Alike(conn[c], conn'[c]) /\ conn'[c].life = conn[c].life
    BY <1>1, <2>1, AlikeSteps
  <2> QED
    BY <1>3, <1>4, <2>2, <2>3 DEF PeerLeaves
<1>5. CASE Destroy(c)
  <2>1. /\ conn'[c] = [conn[c] EXCEPT !.life = "freed", !.chan.reg = FALSE, !.chan.interest = {}]
        /\ conn[c].life = "alive"
    BY <1>1, <1>5 DEF Destroy
  <2>2. conn[c] # NoConn
    BY <2>1 DEF NoConn
  <2>3. Alike(conn[c], conn'[c])
    BY <1>1, <2>1, AlikeSteps
  <2> QED
    BY <1>3, <1>5, <2>2, <2>3 DEF Destroy
<1>6. ASSUME NEW l \in Loops, EndFunctors(l)
      PROVE  /\ Alike(conn[c], conn'[c]) /\ conn'[c].life = conn[c].life
             /\ conn[c] = NoConn => conn'[c] = NoConn
             /\ UNCHANGED <<connections_, held, nextConnId_>>
             /\ \A k \in Loops : batchHolds'[k] \subseteq batchHolds[k]
  <2>1. /\ UNCHANGED <<connections_, held, nextConnId_>>
        /\ \A k \in Loops : batchHolds'[k] \subseteq batchHolds[k]
    BY <1>6 DEF EndFunctors, TypeInv
  <2>2. CASE conn' = conn
    BY <1>2, <2>1, <2>2
  <2>3. CASE conn' # conn
    <3>1. /\ l # 0
          /\ conn'[c] = IF conn[c].loop = l THEN [conn[c] EXCEPT !.chan.reg = FALSE] ELSE conn[c]
      BY <1>6, <2>3 DEF EndFunctors
    <3>2. conn[c] = NoConn => conn'[c] = NoConn
      BY <3>1 DEF NoConn
    <3>3. Alike(conn[c], conn'[c]) /\ conn'[c].life = conn[c].life
      BY <1>1, <3>1, AlikeSteps
    <3> QED
      BY <2>1, <3>2, <3>3
  <2> QED
    BY <2>2, <2>3
<1>7. ASSUME conn'[c] = conn[c], c \in connections_' <=> c \in connections_, c \in held' => c \in held,
             \A l \in Loops : c \in batchHolds'[l] => c \in batchHolds[l],
             c \in Made' => c \in Made
      PROVE  /\ Alike(conn[c], conn'[c])
             /\ conn'[c].life = conn[c].life
             /\ conn[c] = NoConn => conn'[c] = NoConn
  BY <1>2, <1>7
<1>8. CASE Accept
  <2>1. /\ c # nextConnId_ /\ nextConnId_ \in Conns /\ Made' = Made \cup {nextConnId_}
    BY <1>8, AcceptFacts DEF ActsOn
  <2>2. conn'[c] = conn[c]
    BY <1>1, <1>8, <2>1 DEF Accept
  <2>3. c \in held' => c \in held
    BY <1>8, <2>1 DEF Accept, Keep
  <2>4. UNCHANGED batchHolds /\ connections_' = connections_ \cup {nextConnId_}
    BY <1>8 DEF Accept
  <2> QED
    BY <1>7, <2>1, <2>2, <2>3, <2>4
<1>9. ASSUME NEW d \in Conns,
             \/ HandleClose(d) \/ CloseConnection(d)
             \/ (d # c /\ (PeerLeaves(d) \/ Destroy(d))) \/ Release(d)
      PROVE  /\ conn'[c] = conn[c] /\ UNCHANGED <<batchHolds, nextConnId_>>
             /\ held' \subseteq held
             /\ c \in connections_' <=> c \in connections_
  <2>1. HandleClose(d) \/ CloseConnection(d) => d # c
    BY DEF ActsOn
  <2> QED
    BY <1>1, <1>9, <2>1 DEF HandleClose, CloseConnection, Erase, PeerLeaves, Destroy, Release
<1>10. ASSUME NEW l \in Loops, NEW fn, Running(l, fn), fn = "listen" \/ Head(functors[l]).c # c
       PROVE  \A k \in Loops : c \in batchHolds'[k] => c \in batchHolds[k]
  <2>1. batchHolds' = [batchHolds EXCEPT ![l] = @ \cup ({Head(functors[l]).c} \ {Acc})]
        /\ DOMAIN batchHolds = Loops
    BY <1>10 DEF Running, TypeInv
  <2>2. c \notin {Head(functors[l]).c} \ {Acc}
    <3>1. fn = "listen" => Head(functors[l]).c = Acc
      <4>1. ListenF.c = Acc
        BY DEF ListenF, Bound, Acc
      <4> QED
        BY <1>10, <4>1, RunningFacts
    <3> QED
      BY <1>10, <3>1
  <2> QED
    BY <2>1, <2>2
<1>11. ASSUME NEW l \in Loops,
              ConnectEstablished(l) \/ ConnectDestroyed(l) \/ (l = 0 /\ RemoveConnectionInLoop)
       PROVE  /\ conn'[c] = conn[c] /\ UNCHANGED nextConnId_
              /\ c \in connections_' <=> c \in connections_
              /\ c \in held' => c \in held
              /\ \A k \in Loops : c \in batchHolds'[k] => c \in batchHolds[k]
  <2>1. Head(functors[l]).c # c /\ \E fn : Running(l, fn)
    BY <1>11 DEF ActsOn, ConnectEstablished, ConnectDestroyed, RemoveConnectionInLoop
  <2>2. conn'[c] = conn[c] /\ UNCHANGED nextConnId_
    BY <1>1, <1>11, <2>1
       DEF ConnectEstablished, ConnectDestroyed, RemoveConnectionInLoop, Running
  <2>3. c \in connections_' <=> c \in connections_
    BY <1>11, <2>1 DEF ConnectEstablished, ConnectDestroyed, RemoveConnectionInLoop, Erase
  <2>4. c \in held' => c \in held
    BY <1>11, <2>1 DEF ConnectEstablished, ConnectDestroyed, RemoveConnectionInLoop, Keep
  <2> QED
    BY <1>10, <2>1, <2>2, <2>3, <2>4
<1>12. CASE RunListen
  <2>1. Running(0, "listen") /\ UNCHANGED <<connections_, conn, held, nextConnId_>>
    BY <1>12 DEF RunListen, Running
  <2> QED
    BY <1>1, <1>3, <1>7, <1>10, <2>1
<1>13. ASSUME UNCHANGED <<conn, connections_, held, batchHolds, nextConnId_>>
       PROVE  Unharmed
  BY <1>3, <1>7, <1>13
<1>14. ASSUME \/ \E s \in Starters : CallStart(s) \/ StarterStep(s)
              \/ ListenFatal \/ ClientConnects \/ QuitBaseLoop \/ QuitIoLoop
              \/ \E l \in Loops : EnterLoop(l) \/ Poll(l) \/ SwapFunctors(l)
              \/ AcceptNothing \/ AcceptFatal
       PROVE  Unharmed
  BY <1>13, <1>14 DEF CallStart, StarterStep, StartIoLoop, StartListening, EnterLoop, ClientConnects,
               ListenFatal, QuitBaseLoop, Poll, SwapFunctors, QuitIoLoop, AcceptNothing, AcceptFatal
<1>15. ASSUME BeginDestroy \/ AllClosed \/ AllJoined \/ DestroyAcceptor \/ DestroyBaseLoop
       PROVE  Unharmed
  BY <1>13, <1>15 DEF BeginDestroy, AllClosed, AllJoined, DestroyAcceptor, DestroyBaseLoop
<1>16. ASSUME NEW d \in Conns,
              PeerLeaves(d) \/ Release(d) \/ Destroy(d) \/ HandleClose(d) \/ CloseConnection(d)
       PROVE  Unharmed
  BY <1>3, <1>4, <1>5, <1>7, <1>9, <1>16
<1>17. ASSUME NEW l \in Loops, EndFunctors(l) PROVE Unharmed
  BY <1>3, <1>6, <1>17
<1>18. ASSUME NEW l \in Loops,
              ConnectEstablished(l) \/ ConnectDestroyed(l) \/ (l = 0 /\ RemoveConnectionInLoop)
       PROVE  Unharmed
  <2>1. /\ conn'[c] = conn[c] /\ UNCHANGED nextConnId_
        /\ c \in connections_' <=> c \in connections_
        /\ c \in held' => c \in held
        /\ \A k \in Loops : c \in batchHolds'[k] => c \in batchHolds[k]
    BY <1>11, <1>18
  <2> QED
    BY <1>3, <1>7, <2>1
<1> HIDE DEF Unharmed
<1>19. ASSUME NEW l \in Loops, LoopStep(l) PROVE Unharmed
  BY <1>8, <1>12, <1>14, <1>16, <1>17, <1>18, <1>19 DEF LoopStep
<1>20. CASE DtorStep
  BY <1>14, <1>15, <1>16, <1>20 DEF DtorStep
<1> QED
  BY <1>14, <1>16, <1>19, <1>20 DEF SNext

\* A loop that has returned from loop() stays so, ~TcpServer does not go back, and the
\* pool does not grow once the server listens.
LEMMA Onwards ==
  ASSUME ServerInv, SNext
  PROVE  /\ \A l \in Loops : Exited(l) => Exited(l)'
         /\ dpc' = "no" => dpc = "no"
         /\ loops_' = loops_ \/ ~listening_
<1> USE DEF ServerInv, startVars, poolVars, accVars, tableVars, batchVars, loopVars, dtorVars, Running
<1> DEFINE Onward == /\ \A l \in Loops : lpc[l] = "exited" => lpc'[l] = "exited"
                     /\ dpc' = "no" => dpc = "no"
                     /\ loops_' = loops_ \/ ~listening_
<1> SUFFICES Onward
  BY DEF Exited
<1>1. ASSUME lpc' = lpc, loops_' = loops_, dpc' = dpc \/ dpc' # "no" PROVE Onward
  BY <1>1
<1>2. ASSUME NEW l \in Loops, lpc[l] # "exited", NEW p, lpc' = [lpc EXCEPT ![l] = p],
             loops_' = loops_ \/ ~listening_, dpc' = dpc
      PROVE  Onward
  <2>1. \A k \in Loops : k # l => lpc'[k] = lpc[k]
    BY <1>2 DEF TypeInv
  <2> QED
    BY <1>2, <2>1
<1>3. ASSUME NEW s \in Starters, StartIoLoop(s) PROVE Onward
  <2>1. i[s] + 1 \in Loops /\ i[s] + 1 \in 1..MaxThreads /\ Len(loops_) = i[s] /\ ~listening_
    BY <1>3, NextIoLoop, PoolLength DEF StartIoLoop, StartInv
  <2>2. lpc[i[s] + 1] = "off"
    BY <1>3, <2>1, NextIoLoop DEF LoopsInv
  <2> QED
    BY <1>2, <1>3, <2>1, <2>2 DEF StartIoLoop
<1>4. ASSUME NEW l \in Loops, EnterLoop(l) PROVE Onward
  BY <1>2, <1>4 DEF EnterLoop
<1>5. ASSUME NEW l \in Loops, Poll(l) \/ SwapFunctors(l) \/ EndFunctors(l) PROVE Onward
  BY <1>2, <1>5 DEF Poll, SwapFunctors, EndFunctors
<1>6. ASSUME NEW c \in Conns,
             \/ PeerLeaves(c) \/ Release(c) \/ Destroy(c) \/ HandleClose(c)
             \/ CloseConnection(c)
      PROVE  Onward
  BY <1>1, <1>6 DEF PeerLeaves, Release, Destroy, HandleClose, CloseConnection
<1>7. ASSUME NEW l \in Loops, ConnectEstablished(l) \/ ConnectDestroyed(l)
      PROVE  Onward
  BY <1>1, <1>7 DEF ConnectEstablished, ConnectDestroyed
<1>8. ASSUME NEW s \in Starters, CallStart(s) \/ StartListening(s) PROVE Onward
  BY <1>1, <1>8 DEF CallStart, StartListening
<1>9. CASE ListenFatal \/ QuitBaseLoop \/ ClientConnects \/ Accept \/ AcceptNothing
           \/ AcceptFatal \/ RunListen \/ RemoveConnectionInLoop
  BY <1>1, <1>9 DEF ListenFatal, QuitBaseLoop, ClientConnects, Accept, AcceptNothing,
                    AcceptFatal, RunListen, RemoveConnectionInLoop
<1>10. CASE BeginDestroy \/ AllClosed \/ QuitIoLoop \/ AllJoined \/ DestroyAcceptor
            \/ DestroyBaseLoop
  BY <1>1, <1>10 DEF BeginDestroy, AllClosed, QuitIoLoop, AllJoined, DestroyAcceptor, DestroyBaseLoop
<1> HIDE DEF Onward
<1> QED
  BY <1>3, <1>4, <1>5, <1>6, <1>7, <1>8, <1>9, <1>10
     DEF SNext, StarterStep, LoopStep, DtorStep

\* Nobody takes a pointer to a connection that the step is not about.
LEMMA OthersReferenced ==
  ASSUME ServerInv, SNext, NEW c \in Conns, ~ActsOn(c), Referenced(c)'
  PROVE  Referenced(c)
<1>1. /\ c \in connections_' <=> c \in connections_
      /\ c \in held' => c \in held
      /\ \A l \in Loops : c \in batchHolds'[l] => c \in batchHolds[l]
  BY OthersAlike
<1>2. \A l \in Loops : \A f \in Waiting(l)' : f.c = c => f \in Waiting(l)
  BY OthersWait
<1>3. \/ c \in connections_' \cup held'
      \/ \E l \in Loops : c \in batchHolds'[l] \/ \E f \in Waiting(l)' : f.c = c
  BY DEF Referenced, Waiting, Todo
<1>4. \/ c \in connections_ \cup held
      \/ \E l \in Loops : c \in batchHolds[l] \/ \E f \in Waiting(l) : f.c = c
  BY <1>1, <1>2, <1>3
<1> QED
  BY <1>4 DEF Referenced, Waiting, Todo

\* activeChannels_ holds the channels of connections that are up, until their turn.
LEMMA ActiveInvStep ==
  ASSUME ServerInv, SNext
  PROVE  ActiveInv'
<1> USE TcpServerAssumption
    DEF ServerInv, startVars, poolVars, accVars, tableVars, batchVars, loopVars, dtorVars, Running
<1>1. 0 \in Loops /\ Made \subseteq Conns /\ 0 \notin Conns
  BY BoundFunctors DEF Acc, TypeInv, Made, Conns
<1>2. LoopsKept
  BY LoopsKeptStep
<1>3. ASSUME NEW l \in Loops, NEW c \in active[l], c # Acc, c \in active'[l]
      PROVE  conn'[c].state_ = conn[c].state_
  <2>1. c \in Made /\ c \in Conns /\ conn[c].loop = l /\ lpc[l] = "events"
    BY <1>1, <1>3 DEF ActiveInv
  <2>2. CASE ~ActsOn(c)
    BY <2>1, <2>2, OthersAlike DEF Alike
  <2>3. CASE Accept /\ c = nextConnId_
    BY <2>1, <2>3, AcceptFacts
  <2>4. CASE HandleClose(c)
    BY <1>3, <2>1, <2>4 DEF HandleClose, Handling, TypeInv
  <2>5. CASE CloseConnection(c)
    BY <2>1, <2>5 DEF CloseConnection, LoopsInv
  <2>6. ASSUME NEW k \in Loops, c = Head(functors[k]).c, ConnectEstablished(k) \/ ConnectDestroyed(k)
        PROVE  FALSE
    BY <2>1, <2>6, RunningFacts DEF ConnectEstablished, ConnectDestroyed
  <2>7. CASE RemoveConnectionInLoop
    BY <2>7 DEF RemoveConnectionInLoop
  <2> QED
    BY <2>2, <2>3, <2>4, <2>5, <2>6, <2>7 DEF ActsOn
<1>4. ASSUME \A l \in Loops : active'[l] \subseteq active[l],
             \A l \in Loops : active'[l] # {} => lpc'[l] = lpc[l],
             Acc \in active'[0] => backlog' >= backlog /\ (listening_ => listening_')
      PROVE  ActiveInv'
  <2> SUFFICES ASSUME NEW l \in Loops, NEW c \in active'[l]
               PROVE  /\ lpc'[l] = "events"
                      /\ c = Acc => l = 0 /\ backlog' > 0 /\ listening_'
                      /\ c # Acc => /\ c \in Made' /\ conn'[c].loop = l
                                    /\ conn'[c].state_ = "kConnected"
    BY DEF ActiveInv
  <2>1. c \in active[l] /\ lpc'[l] = lpc[l] /\ backlog \in Nat
    BY <1>4 DEF TypeInv
  <2>2. c = Acc => l = 0 /\ backlog' > 0 /\ listening_'
    <3>1. c = Acc => l = 0 /\ backlog > 0 /\ listening_
      BY <2>1 DEF ActiveInv
    <3>2. backlog' \in Nat
      BY TypeInvStep DEF TypeInv
    <3> QED
      BY <1>4, <2>1, <3>1, <3>2
  <2>3. c # Acc => c \in Made /\ conn[c].loop = l /\ conn[c].state_ = "kConnected"
    BY <2>1 DEF ActiveInv
  <2> QED
    BY <1>1, <1>2, <1>3, <1>4, <2>1, <2>2, <2>3 DEF ActiveInv, LoopsKept
<1>5. ASSUME NEW l \in Loops, Poll(l) PROVE ActiveInv'
  <2>1. /\ active' = [active EXCEPT ![l] = Ready(l)] /\ lpc' = [lpc EXCEPT ![l] = "events"]
        /\ lpc[l] = "poll" /\ UNCHANGED <<conn, nextConnId_, backlog, listening_>>
    BY <1>5 DEF Poll
  <2>2. \A c \in Ready(l) : /\ c = Acc => l = 0 /\ backlog > 0 /\ listening_
                            /\ c # Acc => /\ c \in Made /\ conn[c].loop = l
                                          /\ conn[c].state_ = "kConnected"
    <3>1. Acc \in Ready(l) => l = 0 /\ backlog > 0 /\ listening_
      BY <1>1 DEF Ready, Acc, AccInv, Consistent
    <3>2. ASSUME NEW c \in Conns, c \in Ready(l), c # Acc
          PROVE  c \in Made /\ conn[c].loop = l /\ conn[c].state_ = "kConnected"
      <4>1. conn[c].loop = l /\ conn[c].chan.reg
        BY <3>2 DEF Ready
      <4>2. c \in Made
        BY <4>1 DEF ConnsInv, NoConn, NewChannel
      <4>3. conn[c].chan.index = "kAdded" /\ conn[c] \in ConnRecords
        BY <1>1, <4>1, <4>2 DEF ConnsInv, ConnInv, Consistent, TypeInv
      <4>4. conn[c].state_ = "kConnected"
        <5>1. conn[c].state_ \in {"kConnecting", "kConnected", "kDisconnected"}
          BY <4>3 DEF ConnRecords
        <5> QED
          BY <4>2, <4>3, <5>1 DEF ConnsInv, ConnInv
      <4> QED
        BY <4>1, <4>2, <4>4
    <3> QED
      BY <3>1, <3>2 DEF Ready
  <2>3. \A k \in Loops : k # l => active'[k] = active[k] /\ lpc'[k] = lpc[k]
    BY <2>1 DEF TypeInv
  <2>4. active'[l] = Ready(l) /\ lpc'[l] = "events"
    BY <2>1 DEF TypeInv
  <2> QED
    BY <2>1, <2>2, <2>3, <2>4 DEF ActiveInv, Made
<1>6. CASE Accept \/ AcceptNothing \/ AcceptFatal
  <2>1. /\ active' = [active EXCEPT ![0] = @ \ {Acc}] /\ lpc' = lpc
    BY <1>6 DEF Accept, AcceptNothing, AcceptFatal, Handling
  <2>2. \A l \in Loops : active'[l] = IF l = 0 THEN active[l] \ {Acc} ELSE active[l]
    BY <2>1 DEF TypeInv
  <2> QED
    BY <1>1, <1>4, <2>1, <2>2
<1>7. ASSUME NEW c \in Conns, HandleClose(c) PROVE ActiveInv'
  <2>1. UNCHANGED <<backlog, listening_, lpc>> /\ \A l \in Loops : active'[l] \subseteq active[l]
    BY <1>7 DEF HandleClose, Handling, TypeInv
  <2> QED
    BY <1>4, <2>1 DEF TypeInv
<1>8. ASSUME NEW l \in Loops, active' = active, active[l] = {}, NEW p, lpc' = [lpc EXCEPT ![l] = p],
             UNCHANGED <<backlog, listening_>>
      PROVE  ActiveInv'
  <2>1. \A k \in Loops : active'[k] # {} => lpc'[k] = lpc[k]
    BY <1>8 DEF TypeInv
  <2> QED
    BY <1>4, <1>8, <2>1 DEF TypeInv
<1>9. ASSUME NEW l \in Loops, EndFunctors(l) \/ SwapFunctors(l) PROVE ActiveInv'
  <2>1. active[l] = {}
    BY <1>9 DEF EndFunctors, SwapFunctors, ActiveInv
  <2> QED
    BY <1>8, <1>9, <2>1 DEF EndFunctors, SwapFunctors
<1>10. ASSUME NEW l \in Loops, EnterLoop(l) PROVE ActiveInv'
  <2>1. active[l] = {}
    BY <1>10 DEF EnterLoop, ActiveInv
  <2> QED
    BY <1>8, <1>10, <2>1 DEF EnterLoop
<1>11. ASSUME NEW s \in Starters, StartIoLoop(s) PROVE ActiveInv'
  <2>1. i[s] + 1 \in Loops /\ i[s] + 1 \in 1..MaxThreads /\ Len(loops_) = i[s] /\ i[s] \in Nat
    BY <1>11, NextIoLoop, PoolLength DEF StartIoLoop
  <2>2. lpc[i[s] + 1] = "off"
    BY <2>1 DEF LoopsInv
  <2>3. active[i[s] + 1] = {}
    BY <2>1, <2>2 DEF ActiveInv
  <2> QED
    BY <1>8, <1>11, <2>1, <2>3 DEF StartIoLoop
<1>12. ASSUME UNCHANGED <<active, lpc>>,
              UNCHANGED <<backlog, listening_>> \/ (backlog' = backlog /\ listening_' = TRUE)
                \/ (backlog' = backlog + 1 /\ listening_' = listening_)
       PROVE  ActiveInv'
  BY <1>4, <1>12 DEF TypeInv
<1>13. ASSUME NEW s \in Starters, CallStart(s) \/ StartListening(s) PROVE ActiveInv'
  BY <1>12, <1>13 DEF CallStart, StartListening, Listen
<1>14. ASSUME NEW c \in Conns,
              PeerLeaves(c) \/ Release(c) \/ Destroy(c) \/ CloseConnection(c)
       PROVE  ActiveInv'
  BY <1>12, <1>14 DEF PeerLeaves, Release, Destroy, CloseConnection
<1>15. ASSUME NEW l \in Loops, ConnectEstablished(l) \/ ConnectDestroyed(l)
       PROVE  ActiveInv'
  BY <1>12, <1>15 DEF ConnectEstablished, ConnectDestroyed
<1>16. CASE \/ ListenFatal \/ QuitBaseLoop \/ QuitIoLoop \/ ClientConnects
            \/ RunListen \/ RemoveConnectionInLoop
  BY <1>12, <1>16 DEF ListenFatal, QuitBaseLoop, QuitIoLoop, ClientConnects, RunListen,
                      Listen, RemoveConnectionInLoop
<1>17. CASE BeginDestroy \/ AllClosed \/ AllJoined \/ DestroyAcceptor \/ DestroyBaseLoop
  BY <1>12, <1>17 DEF BeginDestroy, AllClosed, AllJoined, DestroyAcceptor, DestroyBaseLoop
<1> QED
  BY <1>5, <1>6, <1>7, <1>9, <1>10, <1>11, <1>13, <1>14, <1>15, <1>16, <1>17
     DEF SNext, StarterStep, LoopStep, DtorStep
----------------------------------------------------------------------------
(***************************************************************************)
(* The connection a step is about.                                         *)
(***************************************************************************)

\* ConnInv after a step, for a connection c of loop l.
ConnAfter(c, l) ==
    LET m == conn'[c]
    IN  /\ m.loop = l
        /\ l \in IF loops_' = <<>> THEN {0} ELSE 1..Len(loops_')
        /\ m.life # "none"
        /\ m.life = "freed" => ~Referenced(c)'
        /\ Consistent(m.chan) /\ ~m.chan.aborted
        /\ m.state_ = "kConnecting" =>
             /\ m.cbs = <<>> /\ m.chan.index = "kNew" /\ l # 0
             /\ Exited(l)' \/ UpF(c) \in Waiting(l)'
        /\ m.state_ = "kConnected" =>
             m.cbs = <<"UP">> /\ m.chan.index = "kAdded" /\ (l = 0 => c \in connections_')
        /\ m.state_ = "kDisconnected" =>
             m.cbs = <<"UP", "DOWN">> /\ m.chan.index # "kAdded"
        /\ UpF(c) \in Waiting(l)' => m.state_ = "kConnecting"
        /\ DownF(c) \in Waiting(l)' =>
             c \notin connections_' /\ (m.chan.mapped \/ m.state_ = "kConnecting")
        /\ GoneF(c) \in Waiting(0)' =>
             m.state_ = "kDisconnected" /\ l # 0 /\ (dpc' = "no" => c \in connections_')
        /\ m.chan.mapped \/ m.state_ = "kConnecting" =>
             Exited(l)' \/ c \in connections_' \/ DownF(c) \in Waiting(l)'
        /\ c \in connections_' => m.chan.mapped \/ m.state_ = "kConnecting"
        /\ dpc' = "no" /\ m.state_ # "kDisconnected" => c \in connections_'

\* It is ConnInv indeed.
LEMMA ConnNext ==
  ASSUME NEW c, NEW l, ConnAfter(c, l)
  PROVE  ConnInv(c)'
<1>1. conn'[c].loop = l
  BY DEF ConnAfter
<1>2. /\ Waiting(conn[c].loop)' = Waiting(l)' /\ Exited(conn[c].loop)' = Exited(l)'
  BY <1>1 DEF Waiting, Todo, Exited
<1> QED
  BY <1>1, <1>2 DEF ConnAfter, ConnInv, Waiting, Todo, Exited, UpF, DownF, GoneF

\* A connection that exists was made by a server that listens; its loop stays.
LEMMA LoopStays ==
  ASSUME ServerInv, SNext, NEW c \in Made
  PROVE  /\ c \in Conns /\ c \in Made' /\ conn[c] \in ConnRecords /\ conn[c].loop \in Loops
         /\ ConnInv(c) /\ conn'[c].loop = conn[c].loop
         /\ conn[c].loop \in IF loops_' = <<>> THEN {0} ELSE 1..Len(loops_')
         /\ conn[c].loop = 0 <=> loops_ = <<>>
<1> USE DEF ServerInv
<1>1. c \in Conns /\ conn[c] \in ConnRecords /\ ConnInv(c)
  BY TcpServerAssumption DEF TypeInv, Made, Conns, ConnsInv
<1>2. c \in Made' /\ conn'[c].loop = conn[c].loop
  BY LoopsKeptStep DEF LoopsKept
<1>3. listening_
  BY TcpServerAssumption DEF StartInv, TypeInv, Made
<1>4. loops_' = loops_
  BY <1>3, Onwards
<1> QED
  BY <1>1, <1>2, <1>4 DEF ConnInv, ConnRecords

\* What a connection that is still in use was before it is closed or destroyed.
LEMMA InUse ==
  ASSUME ServerInv, SNext, NEW c \in Made,
         \/ c \in connections_ \/ \E l \in Loops : \E f \in Waiting(l) : f.c = c
  PROVE  conn[c].life = "alive"
<1>1. Referenced(c)
  BY DEF Referenced, Waiting, Todo
<1>2. ConnInv(c) /\ conn[c] \in ConnRecords
  BY LoopStays
<1> QED
  BY <1>1, <1>2 DEF ConnInv, ConnRecords

\* A connection the step is not about stays in order.
LEMMA OthersStay ==
  ASSUME ServerInv, SNext, NEW c \in Made, ~ActsOn(c)
  PROVE  ConnInv(c)'
<1> DEFINE k == conn[c]
           m == conn'[c]
<1>0. PICK l \in Loops : l = conn[c].loop
  BY LoopStays
<1>1. /\ c \in Conns /\ k \in ConnRecords /\ ConnInv(c) /\ m.loop = l /\ l \in Loops /\ 0 \in Loops
      /\ l \in IF loops_' = <<>> THEN {0} ELSE 1..Len(loops_')
  BY <1>0, LoopStays, BoundFunctors DEF Acc
<1>2. /\ Alike(k, m) /\ (m.life = k.life \/ Destroy(c))
      /\ c \in connections_' <=> c \in connections_
  BY <1>1, OthersAlike
<1>3. UpF(c).c = c /\ DownF(c).c = c /\ GoneF(c).c = c
  BY DEF UpF, DownF, GoneF, Bound
<1> HIDE DEF m, k
<1>4. /\ UpF(c) \in Waiting(l)' => UpF(c) \in Waiting(l)
      /\ UpF(c) \in Waiting(l) => UpF(c) \in Waiting(l)' \/ Exited(l)'
      /\ DownF(c) \in Waiting(l)' => DownF(c) \in Waiting(l)
      /\ DownF(c) \in Waiting(l) => DownF(c) \in Waiting(l)' \/ Exited(l)'
  BY <1>1, <1>3, OthersWait
<1>5. GoneF(c) \in Waiting(0)' => GoneF(c) \in Waiting(0)
  BY <1>1, <1>3, OthersWait
<1>6. (Exited(l) => Exited(l)') /\ (dpc' = "no" => dpc = "no")
  BY <1>1, Onwards
<1>7. Referenced(c)' => Referenced(c)
  BY <1>1, OthersReferenced
<1>8. m.life # "none" /\ (m.life = "freed" => ~Referenced(c)')
  <2>1. CASE m.life = k.life
    BY <1>1, <1>7, <2>1 DEF ConnInv, k
  <2>2. CASE Destroy(c)
    <3>1. ~Referenced(c)
      BY <2>2 DEF Destroy
    <3>2. m.life = "freed"
      <4>1. conn' = [conn EXCEPT ![c] = [conn[c] EXCEPT !.life = "freed", !.chan.reg = FALSE,
                                                        !.chan.interest = {}]]
        BY <2>2 DEF Destroy
      <4>2. c \in DOMAIN conn
        BY <1>1 DEF ServerInv, TypeInv
      <4>3. m = [k EXCEPT !.life = "freed", !.chan.reg = FALSE, !.chan.interest = {}]
        BY <4>1, <4>2 DEF k, m
      <4> QED
        BY <1>1, <4>3 DEF ConnRecords
    <3> QED
      BY <1>7, <3>1, <3>2
  <2> QED
    BY <1>2, <2>1, <2>2
<1>9. ConnAfter(c, l)
  BY <1>0, <1>1, <1>2, <1>4, <1>5, <1>6, <1>8 DEF ConnAfter, ConnInv, Alike, k, m
<1> QED
  BY <1>9, ConnNext

\* The callbacks of a connection, in the order they are run.
LEMMA Callbacks ==
  Append(<<>>, "UP") = <<"UP">> /\ Append(<<"UP">>, "DOWN") = <<"UP", "DOWN">>
<1> DEFINE S == {"UP", "DOWN"}
           p == Append(<<>>, "UP")
           q == Append(<<"UP">>, "DOWN")
<1>1. /\ <<>> \in Seq(S) /\ <<"UP">> \in Seq(S) /\ <<"UP", "DOWN">> \in Seq(S)
      /\ "UP" \in S /\ "DOWN" \in S
      /\ Len(<<>>) = 0 /\ Len(<<"UP">>) = 1 /\ Len(<<"UP", "DOWN">>) = 2
  OBVIOUS
<1>2. p \in Seq(S) /\ Len(p) = 1 /\ p[1] = "UP"
  BY <1>1, AppendProperties
<1>3. q \in Seq(S) /\ Len(q) = 2 /\ q[1] = "UP" /\ q[2] = "DOWN"
  BY <1>1, AppendProperties
<1> HIDE DEF p, q
<1>4. p = <<"UP">>
  BY <1>1, <1>2, SeqEqual
<1>5. q = <<"UP", "DOWN">>
  BY <1>1, <1>3, SeqEqual
<1> QED
  BY <1>4, <1>5 DEF p, q

\* connectDestroyed on a connection that has been up and is still in channels_.
LEMMA DisestablishedEnds ==
  ASSUME NEW k \in ConnRecords, Consistent(k.chan), ~k.chan.aborted, k.chan.mapped,
         k.state_ = "kConnected" => k.cbs = <<"UP">> /\ k.chan.index = "kAdded",
         k.state_ = "kDisconnected" => k.cbs = <<"UP", "DOWN">> /\ k.chan.index # "kAdded",
         k.state_ # "kConnecting"
  PROVE  /\ Disestablished(k).state_ = "kDisconnected"
         /\ Disestablished(k).cbs = <<"UP", "DOWN">>
         /\ Consistent(Disestablished(k).chan) /\ ~Disestablished(k).chan.aborted
         /\ Disestablished(k).chan.index = "kNew" /\ ~Disestablished(k).chan.mapped
<1> DEFINE ch == k.chan
           u == DisableAll(ch)
           v == RemoveChannel(u)
           w == RemoveChannel(ch)
<1>1. CASE k.state_ = "kConnected"
  <2>1. Consistent(u) /\ u.index = "kDeleted" /\ ~u.aborted
    BY <1>1, DisableAllAdded
  <2> HIDE DEF u
  <2>2. Consistent(v) /\ v.index = "kNew" /\ ~v.aborted
    BY <2>1, RemoveChannelMapped
  <2>3. Disestablished(k) = [k EXCEPT !.state_ = "kDisconnected", !.chan = v,
                                      !.cbs = Append(k.cbs, "DOWN")]
    BY <1>1 DEF Disestablished, u
  <2> HIDE DEF v
  <2>4. /\ Disestablished(k).state_ = "kDisconnected" /\ Disestablished(k).chan = v
        /\ Disestablished(k).cbs = Append(k.cbs, "DOWN")
    BY <2>3 DEF ConnRecords
  <2> QED
    BY <1>1, <2>2, <2>4, Callbacks DEF Consistent
<1>2. CASE k.state_ = "kDisconnected"
  <2>1. Consistent(w) /\ w.index = "kNew" /\ ~w.aborted
    BY RemoveChannelMapped DEF Consistent
  <2>2. Disestablished(k) = [k EXCEPT !.chan = w]
    BY <1>2 DEF Disestablished
  <2> HIDE DEF w
  <2>3. /\ Disestablished(k).state_ = "kDisconnected" /\ Disestablished(k).chan = w
        /\ Disestablished(k).cbs = k.cbs
    BY <1>2, <2>2 DEF ConnRecords
  <2> QED
    BY <1>2, <2>1, <2>3 DEF Consistent
<1> QED
  BY <1>1, <1>2 DEF ConnRecords

\* newConnection: the connection is up at once on the base loop, and waits for
\* connectEstablished on another.
LEMMA AcceptMakes ==
  ASSUME ServerInv, SNext, Accept, NEW c, c = nextConnId_
  PROVE  ConnInv(c)'
<1> USE DEF ServerInv
<1>1. /\ c \in Conns /\ c \notin Made /\ NextLoop \in Loops /\ Accepted \in ConnRecords
      /\ NextLoop \in IF loops_' = <<>> THEN {0} ELSE 1..Len(loops_')
      /\ Accepted.life = "alive" /\ Accepted.state_ = "kConnecting"
      /\ Accepted.chan = NewChannel /\ Accepted.loop = NextLoop /\ Accepted.cbs = <<>>
      /\ 0 \in Loops
  BY AcceptFacts, BoundFunctors DEF Accept, Acc
<1>2. PICK l \in Loops : l = NextLoop
  BY <1>1
<1>3. \A k \in Loops : {UpF(c), DownF(c), GoneF(c)} \cap Waiting(k) = {}
  BY <1>1 DEF QueueInv, QueueOK, UpF, DownF, GoneF, Bound
<1>4. UNCHANGED <<functors, dpc, lpc>> /\ c \in connections_'
  BY DEF Accept, batchVars, dtorVars
<1>5. Consistent(NewChannel) /\ ~NewChannel.aborted /\ NewChannel.index = "kNew"
      /\ ~NewChannel.mapped
  BY NewIsConsistent DEF NewChannel
<1>6. CASE l = 0
  <2> DEFINE m == Established(Accepted)
  <2>1. conn'[c] = m
    BY <1>1, <1>2, <1>6 DEF Accept, Accepted, TypeInv
  <2>2. /\ m = [Accepted EXCEPT !.state_ = "kConnected", !.chan = EnableReading(NewChannel),
                                !.cbs = Append(<<>>, "UP")]
    BY <1>1, ConnOps
  <2>3. /\ m.loop = 0 /\ m.life = "alive" /\ m.state_ = "kConnected"
        /\ m.chan = EnableReading(NewChannel) /\ m.cbs = <<"UP">>
    BY <1>1, <1>2, <1>6, <2>2, Callbacks DEF ConnRecords
  <2>4. /\ Consistent(m.chan) /\ ~m.chan.aborted /\ m.chan.index = "kAdded"
    BY <1>5, <2>3, EnableReadingNew
  <2>5. Waiting(0)' = Waiting(0)
    BY <1>2, <1>4, <1>6, SameTodo DEF Accept
  <2> HIDE DEF m
  <2>6. ConnAfter(c, l)
    BY <1>1, <1>2, <1>3, <1>4, <1>6, <2>1, <2>3, <2>4, <2>5 DEF ConnAfter, Consistent
  <2> QED
    BY <2>6, ConnNext
<1>7. CASE l # 0
  <2>1. conn'[c] = Accepted
    BY <1>1, <1>2, <1>7 DEF Accept, Accepted, TypeInv
  <2>2. /\ \A k \in Loops : Waiting(k)' = IF k = l THEN Waiting(k) \cup {UpF(c)} ELSE Waiting(k)
        /\ UpF(c) # DownF(c)
    BY <1>1, <1>2, <1>4, <1>7, QueuingSteps, QueuedWaiting, BoundFunctors
  <2>3. UpF(c) \in Waiting(l)' /\ DownF(c) \notin Waiting(l)' /\ GoneF(c) \notin Waiting(0)'
    BY <1>1, <1>2, <1>3, <1>7, <2>2
  <2>4. ConnAfter(c, l)
    BY <1>1, <1>2, <1>4, <1>5, <1>7, <2>1, <2>3 DEF ConnAfter
  <2> QED
    BY <2>4, ConnNext
<1> QED
  BY <1>6, <1>7

\* handleClose, with removeConnection.
LEMMA HandleCloseStays ==
  ASSUME ServerInv, SNext, NEW c \in Conns, HandleClose(c)
  PROVE  ConnInv(c)'
<1> USE DEF ServerInv
<1>1. c \in Made /\ conn[c].state_ = "kConnected" /\ 0 \in Loops
  BY QueuingSteps, BoundFunctors DEF Acc
<1>2. PICK l \in Loops : l = conn[c].loop
  BY <1>1, LoopStays
<1>3. PICK k \in ConnRecords : k = conn[c]
  BY <1>1, LoopStays
<1>4. /\ ConnInv(c) /\ conn'[c].loop = l
      /\ l \in IF loops_' = <<>> THEN {0} ELSE 1..Len(loops_')
  BY <1>1, <1>2, LoopStays
<1>5. /\ conn'[c] = Closed(k) /\ lpc[l] = "events" /\ UNCHANGED <<functors, lpc, dpc>>
      /\ IF l = 0 THEN connections_' = connections_ \ {c} ELSE connections_' = connections_
  BY <1>2, <1>3 DEF HandleClose, Handling, Erase, TypeInv, batchVars, dtorVars
<1>6. /\ Consistent(k.chan) /\ ~k.chan.aborted /\ k.chan.index = "kAdded" /\ k.cbs = <<"UP">>
      /\ k.chan.mapped
  BY <1>1, <1>3, <1>4 DEF ConnInv, Consistent
<1>7. Closed(k) = [k EXCEPT !.state_ = "kDisconnected", !.chan = DisableAll(k.chan),
                            !.cbs = Append(<<"UP">>, "DOWN")]
  BY <1>6, ConnOps
<1>8. /\ Closed(k).state_ = "kDisconnected" /\ Closed(k).chan = DisableAll(k.chan)
      /\ Closed(k).cbs = <<"UP", "DOWN">> /\ Closed(k).life = k.life
  BY <1>7, Callbacks DEF ConnRecords
<1>9. /\ Consistent(Closed(k).chan) /\ ~Closed(k).chan.aborted
      /\ Closed(k).chan.index = "kDeleted" /\ Closed(k).chan.mapped
  BY <1>6, <1>8, DisableAllAdded DEF Consistent
<1>10. c \in connections_ \/ DownF(c) \in Waiting(l)
  BY <1>1, <1>2, <1>3, <1>4, <1>5, <1>6 DEF ConnInv, Exited
<1>11. k.life = "alive"
  BY <1>1, <1>3, <1>10, InUse DEF DownF, Bound
<1>12. UpF(c) \notin Waiting(l) /\ GoneF(c) \notin Waiting(0)
  BY <1>1, <1>2, <1>3, <1>4 DEF ConnInv
<1>13. l # 0 /\ DownF(c) \in Waiting(l) => c \notin connections_
  BY <1>2, <1>4 DEF ConnInv
<1>14. dpc = "no" => c \in connections_
  BY <1>1, <1>3, <1>4 DEF ConnInv
<1>15. /\ UpF(c) # DownF(c) /\ GoneF(c) # DownF(c) /\ UpF(c) # GoneF(c)
  BY BoundFunctors
<1>16. CASE l = 0
  <2>1. Waiting(0)' = Waiting(0) \cup {DownF(c)}
    BY <1>1, <1>2, <1>5, <1>16, QueuingSteps, QueuedWaiting, BoundFunctors
  <2>2. ConnAfter(c, l)
    BY <1>4, <1>5, <1>8, <1>9, <1>11, <1>12, <1>15, <1>16, <2>1 DEF ConnAfter
  <2> QED
    BY <2>2, ConnNext
<1>17. CASE l # 0
  <2>1. \A j \in Loops : Waiting(j)' = IF j = 0 THEN Waiting(j) \cup {GoneF(c)} ELSE Waiting(j)
    BY <1>1, <1>2, <1>5, <1>17, QueuingSteps, QueuedWaiting, BoundFunctors
  <2>2. Waiting(l)' = Waiting(l)
    BY <1>17, <2>1
  <2>3. ConnAfter(c, l)
    BY <1>4, <1>5, <1>8, <1>9, <1>10, <1>11, <1>12, <1>13, <1>14, <1>17, <2>2 DEF ConnAfter
  <2> QED
    BY <2>3, ConnNext
<1> QED
  BY <1>16, <1>17

\* connectEstablished, run as a functor of an I/O loop.
LEMMA EstablishedStays ==
  ASSUME ServerInv, SNext, NEW l \in Loops, ConnectEstablished(l), NEW c,
         c = Head(functors[l]).c
  PROVE  ConnInv(c)'
<1> USE DEF ServerInv
<1>1. Running(l, "connectEstablished") /\ UNCHANGED <<connections_, pendingFunctors_, lpc, dpc>>
      /\ lpc[l] = "run"
  BY DEF ConnectEstablished, Running, dtorVars
<1>2. /\ Head(functors[l]) = UpF(c) /\ UpF(c) \in Waiting(l) /\ c \in Made /\ c \in Conns
      /\ l = conn[c].loop /\ 0 \in Loops
  BY <1>1, RunningFacts, BoundFunctors DEF UpF, Acc
<1>3. PICK k \in ConnRecords : k = conn[c]
  BY <1>2, LoopStays
<1>4. /\ ConnInv(c) /\ conn'[c].loop = l
      /\ l \in IF loops_' = <<>> THEN {0} ELSE 1..Len(loops_')
  BY <1>2, LoopStays
<1>5. \A j \in Loops : Waiting(j)' = IF j = l THEN Waiting(j) \ {UpF(c)} ELSE Waiting(j)
  BY <1>1, <1>2, LoopsKeptStep, RunningQueues
<1>6. /\ k.state_ = "kConnecting" /\ k.cbs = <<>> /\ k.chan.index = "kNew" /\ l # 0
      /\ Consistent(k.chan) /\ ~k.chan.aborted
  BY <1>2, <1>3, <1>4 DEF ConnInv
<1>7. conn'[c] = Established(k)
  BY <1>2, <1>3 DEF ConnectEstablished, TypeInv
<1>8. Established(k) = [k EXCEPT !.state_ = "kConnected", !.chan = EnableReading(k.chan),
                                 !.cbs = Append(<<>>, "UP")]
  BY <1>6, ConnOps
<1>9. /\ Established(k).state_ = "kConnected" /\ Established(k).chan = EnableReading(k.chan)
      /\ Established(k).cbs = <<"UP">> /\ Established(k).life = k.life
  BY <1>8, Callbacks DEF ConnRecords
<1>10. /\ Consistent(Established(k).chan) /\ ~Established(k).chan.aborted
       /\ Established(k).chan.index = "kAdded" /\ Established(k).chan.mapped
  BY <1>6, <1>9, EnableReadingNew DEF Consistent
<1>11. k.life = "alive"
  BY <1>2, <1>3, InUse DEF UpF, Bound
<1>12. /\ DownF(c) \in Waiting(l) => c \notin connections_
       /\ c \in connections_ \/ DownF(c) \in Waiting(l)
       /\ GoneF(c) \notin Waiting(0)
       /\ dpc = "no" => c \in connections_
  BY <1>1, <1>2, <1>3, <1>4, <1>6 DEF ConnInv, Exited
<1>13. UpF(c) # DownF(c)
  BY <1>2, BoundFunctors
<1>14. /\ UpF(c) \notin Waiting(l)' /\ GoneF(c) \notin Waiting(0)'
       /\ DownF(c) \in Waiting(l)' <=> DownF(c) \in Waiting(l)
  BY <1>2, <1>5, <1>12, <1>13
<1>15. ConnAfter(c, l)
  BY <1>1, <1>4, <1>6, <1>7, <1>9, <1>10, <1>11, <1>12, <1>14 DEF ConnAfter
<1> QED
  BY <1>15, ConnNext

\* removeConnectionInLoop on the base loop.
LEMMA RemoveStays ==
  ASSUME ServerInv, SNext, RemoveConnectionInLoop, NEW c, c = Head(functors[0]).c
  PROVE  ConnInv(c)'
<1> USE DEF ServerInv
<1>1. /\ Running(0, "removeConnectionInLoop") /\ UNCHANGED <<conn, lpc, dpc>>
      /\ connections_' = connections_ \ {c} /\ 0 \in Loops
  BY BoundFunctors DEF RemoveConnectionInLoop, Running, Erase, Acc, dtorVars
<1>2. /\ GoneF(c) \in Waiting(0) /\ c \in Conns
  BY <1>1, RunningFacts DEF GoneF
<1>3. c \in Made /\ c \in connections_ /\ conn[c].state_ = "kDisconnected" /\ conn[c].loop # 0
  BY QueuingSteps
<1>4. PICK l \in Loops : l = conn[c].loop
  BY <1>3, LoopStays
<1>5. PICK k \in ConnRecords : k = conn[c]
  BY <1>3, LoopStays
<1>6. /\ ConnInv(c) /\ conn'[c] = k /\ k.loop = l /\ l # 0
      /\ l \in IF loops_' = <<>> THEN {0} ELSE 1..Len(loops_')
  BY <1>1, <1>3, <1>4, <1>5, LoopStays
<1>7. \A j \in Loops : Waiting(j)' = IF j = 0 THEN Waiting(j) \ {GoneF(c)}
                                     ELSE IF j = l THEN Waiting(j) \cup {DownF(c)}
                                     ELSE Waiting(j)
  BY <1>4, RemoveQueues
<1>8. UpF(c) # DownF(c)
  BY <1>2, BoundFunctors
<1>9. /\ DownF(c) \in Waiting(l)' /\ GoneF(c) \notin Waiting(0)'
      /\ UpF(c) \in Waiting(l)' => UpF(c) \in Waiting(l)
  BY <1>1, <1>6, <1>7, <1>8
<1>10. k.life = "alive"
  BY <1>3, <1>5, InUse
<1>11. ConnAfter(c, l)
  BY <1>1, <1>3, <1>4, <1>5, <1>6, <1>9, <1>10 DEF ConnAfter, ConnInv
<1> QED
  BY <1>11, ConnNext

\* connectDestroyed, run as a functor: connectEstablished was run before.
LEMMA DestroyedStays ==
  ASSUME ServerInv, SNext, NEW l \in Loops, ConnectDestroyed(l), NEW c,
         c = Head(functors[l]).c
  PROVE  ConnInv(c)'
<1> USE DEF ServerInv
<1>1. Running(l, "connectDestroyed") /\ UNCHANGED <<connections_, pendingFunctors_, lpc, dpc>>
      /\ lpc[l] = "run" /\ functors[l] # <<>>
  BY DEF ConnectDestroyed, Running, dtorVars
<1>2. /\ Head(functors[l]) = DownF(c) /\ DownF(c) \in Waiting(l) /\ c \in Made /\ c \in Conns
      /\ l = conn[c].loop /\ 0 \in Loops
  BY <1>1, RunningFacts, BoundFunctors DEF DownF, Acc
<1>3. PICK k \in ConnRecords : k = conn[c]
  BY <1>2, LoopStays
<1>4. /\ ConnInv(c) /\ conn'[c].loop = l
      /\ l \in IF loops_' = <<>> THEN {0} ELSE 1..Len(loops_')
  BY <1>2, LoopStays
<1>5. \A j \in Loops : Waiting(j)' = IF j = l THEN Waiting(j) \ {DownF(c)} ELSE Waiting(j)
  BY <1>1, <1>2, LoopsKeptStep, RunningQueues
<1>6. UpF(c) \notin Waiting(l)
  <2>1. Todo(l) \in Seq(Functors) /\ Todo(l) # <<>> /\ Head(Todo(l)) = DownF(c)
    <3>1. functors'[l] = Tail(functors[l]) /\ pendingFunctors_'[l] = pendingFunctors_[l]
      BY <1>1 DEF Running, TypeInv
    <3> QED
      BY <1>1, <1>2, <3>1, TodoType, RanTodo DEF QueueInv
  <2>2. Before(Todo(l), UpF(c), DownF(c)) /\ UpF(c) # DownF(c)
    BY <1>2, BoundFunctors DEF QueueInv, QueueOK
  <2> QED
    BY <2>1, <2>2, HeadBefore DEF Waiting
<1>7. k.state_ # "kConnecting" /\ k.chan.mapped /\ c \notin connections_
  BY <1>1, <1>2, <1>3, <1>4, <1>6 DEF ConnInv, Exited
<1>8. conn'[c] = Disestablished(k)
  BY <1>2, <1>3 DEF ConnectDestroyed, TypeInv
<1>9. /\ Consistent(k.chan) /\ ~k.chan.aborted
      /\ k.state_ = "kConnected" => k.cbs = <<"UP">> /\ k.chan.index = "kAdded"
      /\ k.state_ = "kDisconnected" => k.cbs = <<"UP", "DOWN">> /\ k.chan.index # "kAdded"
  BY <1>3, <1>4 DEF ConnInv
<1>10. /\ Disestablished(k).state_ = "kDisconnected" /\ Disestablished(k).cbs = <<"UP", "DOWN">>
       /\ Consistent(Disestablished(k).chan) /\ ~Disestablished(k).chan.aborted
       /\ Disestablished(k).chan.index = "kNew" /\ ~Disestablished(k).chan.mapped
       /\ Disestablished(k).life = k.life
  BY <1>7, <1>9, DisestablishedEnds, ConnOps
<1>11. k.life = "alive"
  BY <1>2, <1>3, InUse DEF DownF, Bound
<1>12. GoneF(c) \in Waiting(0) => l # 0 /\ dpc # "no"
  BY <1>2, <1>4, <1>7 DEF ConnInv
<1>13. /\ UpF(c) \notin Waiting(l)' /\ DownF(c) \notin Waiting(l)'
       /\ GoneF(c) \in Waiting(0)' => GoneF(c) \in Waiting(0)
  BY <1>2, <1>5, <1>6
<1>14. ConnAfter(c, l)
  BY <1>1, <1>4, <1>7, <1>8, <1>10, <1>11, <1>12, <1>13 DEF ConnAfter
<1> QED
  BY <1>14, ConnNext

\* ~TcpServer closes a connection.
LEMMA CloseConnectionStays ==
  ASSUME ServerInv, SNext, NEW c \in Conns, CloseConnection(c)
  PROVE  ConnInv(c)'
<1> USE DEF ServerInv
<1>1. /\ dpc = "closing" /\ c \in connections_ /\ connections_' = connections_ \ {c}
      /\ UNCHANGED <<functors, lpc, dpc>> /\ c \in Made /\ 0 \in Loops
  BY BoundFunctors DEF CloseConnection, Erase, batchVars, TypeInv, Acc, dtorVars
<1>2. PICK l \in Loops : l = conn[c].loop
  BY <1>1, LoopStays
<1>3. PICK k \in ConnRecords : k = conn[c]
  BY <1>1, LoopStays
<1>4. /\ ConnInv(c) /\ conn'[c].loop = l
      /\ l \in IF loops_' = <<>> THEN {0} ELSE 1..Len(loops_')
  BY <1>1, <1>2, LoopStays
<1>5. k.life = "alive"
  BY <1>1, <1>3, InUse
<1>6. DownF(c) \notin Waiting(l) /\ (k.chan.mapped \/ k.state_ = "kConnecting")
  BY <1>1, <1>2, <1>3, <1>4 DEF ConnInv
<1>7. CASE l = 0
  <2>1. conn'[c] = Disestablished(k) /\ pendingFunctors_' = pendingFunctors_
    BY <1>2, <1>3, <1>7 DEF CloseConnection, TypeInv
  <2>2. /\ Consistent(k.chan) /\ ~k.chan.aborted /\ k.chan.mapped /\ k.state_ # "kConnecting"
        /\ k.state_ = "kConnected" => k.cbs = <<"UP">> /\ k.chan.index = "kAdded"
        /\ k.state_ = "kDisconnected" => k.cbs = <<"UP", "DOWN">> /\ k.chan.index # "kAdded"
    BY <1>2, <1>3, <1>4, <1>6, <1>7 DEF ConnInv
  <2>3. /\ Disestablished(k).state_ = "kDisconnected" /\ Disestablished(k).cbs = <<"UP", "DOWN">>
        /\ Consistent(Disestablished(k).chan) /\ ~Disestablished(k).chan.aborted
        /\ Disestablished(k).chan.index = "kNew" /\ ~Disestablished(k).chan.mapped
        /\ Disestablished(k).life = k.life
    BY <2>2, DisestablishedEnds, ConnOps
  <2>4. Waiting(0)' = Waiting(0)
    BY <1>1, <2>1, SameTodo
  <2>5. UpF(c) \notin Waiting(0) /\ GoneF(c) \notin Waiting(0)
    BY <1>2, <1>3, <1>4, <1>7, <2>2 DEF ConnInv
  <2>6. ConnAfter(c, l)
    BY <1>1, <1>4, <1>5, <1>6, <1>7, <2>1, <2>3, <2>4, <2>5 DEF ConnAfter
  <2> QED
    BY <2>6, ConnNext
<1>8. CASE l # 0
  <2>1. conn'[c] = k /\ k.loop = l
    BY <1>2, <1>3, <1>8 DEF CloseConnection
  <2>2. \A j \in Loops : Waiting(j)' = IF j = l THEN Waiting(j) \cup {DownF(c)} ELSE Waiting(j)
    BY <1>1, <1>2, <1>8, QueuingSteps, QueuedWaiting, BoundFunctors
  <2>3. UpF(c) # DownF(c)
    BY BoundFunctors
  <2>4. /\ DownF(c) \in Waiting(l)' /\ Waiting(0)' = Waiting(0)
        /\ UpF(c) \in Waiting(l)' <=> UpF(c) \in Waiting(l)
    BY <1>1, <1>8, <2>2, <2>3
  <2>5. ConnAfter(c, l)
    BY <1>1, <1>2, <1>3, <1>4, <1>5, <1>6, <1>8, <2>1, <2>4 DEF ConnAfter, ConnInv, Exited
  <2> QED
    BY <2>5, ConnNext
<1> QED
  BY <1>7, <1>8

\* Every connection stays in order.
LEMMA ConnsInvStep ==
  ASSUME ServerInv, SNext
  PROVE  ConnsInv'
<1>1. ASSUME NEW c \in Made' PROVE ConnInv(c)'
  <2>1. c \in Conns
    BY TypeInvStep, TcpServerAssumption DEF TypeInv, Made, Conns
  <2>2. CASE ~ActsOn(c)
    <3>1. c \in Made
      BY <1>1, <2>1, <2>2, OthersAlike
    <3> QED
      BY <2>2, <3>1, OthersStay
  <2>3. CASE ActsOn(c)
    BY <2>1, <2>3, AcceptMakes, HandleCloseStays, EstablishedStays, RemoveStays, DestroyedStays,
       CloseConnectionStays DEF ActsOn
  <2> QED
    BY <2>2, <2>3
<1>2. ASSUME NEW c \in Conns, c \notin Made' PROVE conn'[c] = NoConn
  <2>1. c \notin Made
    BY <1>2, LoopsKeptStep DEF LoopsKept
  <2>2. conn[c] = NoConn
    BY <2>1 DEF ServerInv, ConnsInv
  <2>3. CASE ~ActsOn(c)
    BY <2>2, <2>3, OthersAlike
  <2>4. CASE ActsOn(c)
    <3>1. CASE Accept /\ c = nextConnId_
      BY <1>2, <3>1, AcceptFacts DEF ServerInv
    <3>2. CASE HandleClose(c) \/ CloseConnection(c)
      BY <2>1, <3>2, QueuingSteps
    <3>3. ASSUME NEW l \in Loops, c = Head(functors[l]).c,
                 \/ ConnectEstablished(l) \/ ConnectDestroyed(l)
                 \/ l = 0 /\ RemoveConnectionInLoop
          PROVE  c \in Made
      BY <3>3, RunningFacts
         DEF ServerInv, ConnectEstablished, ConnectDestroyed, RemoveConnectionInLoop
    <3> QED
      BY <2>1, <2>4, <3>1, <3>2, <3>3 DEF ActsOn
  <2> QED
    BY <2>3, <2>4
<1> QED
  BY <1>1, <1>2 DEF ConnsInv
----------------------------------------------------------------------------
(***************************************************************************)
(* getNextLoop.                                                            *)
(***************************************************************************)

\* Only accepting a client asks getNextLoop for a loop.
LEMMA OnlyAcceptAssigns ==
  ASSUME ServerInv, SNext
  PROVE  Accept \/ UNCHANGED <<next_, numThreads_, nextConnId_>>
<1> USE DEF poolVars, tableVars, Running
<1>1. ASSUME NEW s \in Starters, CallStart(s) \/ StartIoLoop(s) \/ StartListening(s)
      PROVE  UNCHANGED <<next_, numThreads_, nextConnId_>>
  BY <1>1 DEF CallStart, StartIoLoop, StartListening
<1>2. ASSUME NEW c \in Conns,
             \/ PeerLeaves(c) \/ Release(c) \/ Destroy(c) \/ HandleClose(c)
             \/ CloseConnection(c)
      PROVE  UNCHANGED <<next_, numThreads_, nextConnId_>>
  BY <1>2 DEF PeerLeaves, Release, Destroy, HandleClose, CloseConnection
<1>3. ASSUME NEW l \in Loops,
             \/ EnterLoop(l) \/ Poll(l) \/ SwapFunctors(l) \/ EndFunctors(l)
             \/ ConnectEstablished(l) \/ ConnectDestroyed(l)
      PROVE  UNCHANGED <<next_, numThreads_, nextConnId_>>
  BY <1>3 DEF EnterLoop, Poll, SwapFunctors, EndFunctors, ConnectEstablished, ConnectDestroyed
<1>4. ASSUME ListenFatal \/ QuitBaseLoop \/ ClientConnects \/ AcceptNothing
             \/ AcceptFatal \/ RunListen \/ RemoveConnectionInLoop
      PROVE  UNCHANGED <<next_, numThreads_, nextConnId_>>
  BY <1>4 DEF ListenFatal, QuitBaseLoop, ClientConnects, AcceptNothing, AcceptFatal, RunListen,
              RemoveConnectionInLoop
<1>5. ASSUME BeginDestroy \/ AllClosed \/ QuitIoLoop \/ AllJoined \/ DestroyAcceptor
             \/ DestroyBaseLoop
      PROVE  UNCHANGED <<next_, numThreads_, nextConnId_>>
  BY <1>5 DEF BeginDestroy, AllClosed, QuitIoLoop, AllJoined, DestroyAcceptor, DestroyBaseLoop
<1> QED
  BY <1>1, <1>2, <1>3, <1>4, <1>5 DEF SNext, StarterStep, LoopStep, DtorStep

\* The I/O loops stay in balance.
LEMMA BalanceInvStep ==
  ASSUME ServerInv, SNext
  PROVE  BalanceInv'
<1> USE DEF ServerInv
<1>1. numThreads_ \in Nat /\ LoopsKept /\ next_ \in Nat
  BY TcpServerAssumption, LoopsKeptStep DEF TypeInv, LoopsInv
<1>2. CASE UNCHANGED <<next_, numThreads_, nextConnId_>>
  <2>1. \A l \in Nat : Assigned(l)' = Assigned(l)
    BY <1>1, <1>2 DEF Assigned, LoopsKept, Made
  <2> QED
    BY <1>1, <1>2, <2>1 DEF BalanceInv
<1>3. CASE Accept
  <2> DEFINE n == nextConnId_
  <2>1. /\ n \in Conns /\ n \notin Made /\ Made' = Made \cup {n} /\ listening_
        /\ NextLoop = IF numThreads_ = 0 THEN 0 ELSE next_ + 1
        /\ Accepted \in ConnRecords /\ Accepted.loop = NextLoop
    BY <1>3, AcceptFacts
  <2>2. conn'[n].loop = NextLoop
    <3>1. conn'[n] = Accepted \/ conn'[n] = Established(Accepted)
      BY <1>3, <2>1 DEF Accept, Accepted, TypeInv
    <3> QED
      BY <2>1, <3>1, ConnOps
  <2>3. /\ numThreads_' = numThreads_ /\ Len(loops_) = numThreads_
        /\ loops_ = <<>> <=> numThreads_ = 0
    BY <1>3, <2>1, PoolFull DEF Accept
  <2> HIDE DEF n
  <2>4. \A l \in Nat : Assigned(l)' = IF l = NextLoop THEN Assigned(l) \cup {n} ELSE Assigned(l)
    <3>1. \A l \in Nat : Assigned(l) = { c \in Made : conn[c].loop = l }
      BY DEF Assigned, Made
    <3>2. \A l \in Nat : Assigned(l)' = { c \in Made' : conn'[c].loop = l }
      BY DEF Assigned, Made
    <3>3. \A d \in Made' :
            \/ d = n /\ conn'[d].loop = NextLoop
            \/ d # n /\ d \in Made /\ conn'[d].loop = conn[d].loop
      BY <1>1, <2>1, <2>2 DEF LoopsKept
    <3>4. Made' = Made \cup {n} /\ n \notin Made
      BY <2>1
    <3> HIDE DEF Made
    <3> QED
      BY <3>1, <3>2, <3>3, <3>4
  <2>5. \A l \in Nat : IsFiniteSet(Assigned(l)) /\ n \notin Assigned(l)
    <3>1. \A l \in Nat : Assigned(l) \subseteq Made
      BY DEF Assigned, Made
    <3>2. IsFiniteSet(Made)
      BY TcpServerAssumption, FS_Interval DEF TypeInv, Made
    <3> QED
      BY <2>1, <3>1, <3>2, FS_Subset
  <2>6. \A l \in Nat : /\ Cardinality(Assigned(l)) \in Nat
                       /\ Cardinality(Assigned(l) \cup {n}) = Cardinality(Assigned(l)) + 1
    BY <2>5, FS_AddElement, FS_CardinalityType
  <2>7. \A l \in Nat : Cardinality(Assigned(l))' =
          IF l = NextLoop THEN Cardinality(Assigned(l)) + 1 ELSE Cardinality(Assigned(l))
    BY <2>4, <2>6
  <2> SUFFICES ASSUME numThreads_ > 0 PROVE BalanceInv'
    BY <1>1, <2>3 DEF BalanceInv
  <2>8. NextLoop = next_ + 1 /\ Assigned(0) = {} /\ Assigned(0)' = {}
    BY <1>1, <2>1, <2>4 DEF BalanceInv
  <2>9. PICK b \in Nat : \A l \in 1..numThreads_ :
          Cardinality(Assigned(l)) = IF l <= next_ THEN b + 1 ELSE b
    BY DEF BalanceInv
  <2>10. \A l \in 1..numThreads_ :
           Cardinality(Assigned(l))' = IF l <= next_ + 1 THEN b + 1 ELSE b
    BY <1>1, <2>7, <2>8, <2>9
  <2>11. next_ < numThreads_ /\ next_' = IF next_ + 1 >= numThreads_ THEN 0 ELSE next_ + 1
    BY <1>1, <1>3, <2>3 DEF Accept, AdvanceNext, LoopsInv
  <2>12. \E d \in Nat : \A l \in 1..numThreads_ :
           Cardinality(Assigned(l))' = IF l <= next_' THEN d + 1 ELSE d
    <3>1. CASE next_ + 1 < numThreads_
      <4>1. next_' = next_ + 1
        BY <1>1, <2>11, <3>1
      <4> QED
        BY <2>10, <4>1
    <3>2. CASE next_ + 1 = numThreads_
      <4>1. next_' = 0
        BY <1>1, <2>11, <3>2
      <4>2. \A l \in 1..numThreads_ : Cardinality(Assigned(l))' = b + 1 /\ ~(l <= 0)
        BY <1>1, <2>10, <3>2
      <4> WITNESS b + 1 \in Nat
      <4> QED
        BY <4>1, <4>2
    <3> QED
      BY <1>1, <2>11, <3>1, <3>2
  <2> QED
    BY <2>3, <2>8, <2>12 DEF BalanceInv
<1> QED
  BY <1>2, <1>3, OnlyAcceptAssigns
----------------------------------------------------------------------------
(***************************************************************************)
(* The invariant, and what follows from it.                                *)
(***************************************************************************)

\* A server that has just been constructed, with its loops and no client yet.
LEMMA ServerInvInit == SInit => ServerInv
<1> SUFFICES ASSUME SInit PROVE ServerInv
  OBVIOUS
<1> USE TcpServerAssumption
<1>1. Made = {}
  BY DEF SInit, Made
<1>2. NoConn \in ConnRecords /\ NewChannel \in Channels
  <2>1. NewChannel \in Channels
    BY NewIsConsistent DEF Consistent
  <2>2. <<>> \in Seq({"UP", "DOWN"}) /\ 0 \in Loops /\ 0 \in 0..MaxFds
    BY DEF Loops
  <2> QED
    BY <2>1, <2>2 DEF NoConn, ConnRecords
<1>3. \A l \in Loops : Todo(l) = <<>> /\ Waiting(l) = {} /\ functors[l] = <<>>
  <2>1. <<>> \o <<>> = <<>>
    BY TwoQueues
  <2> QED
    BY <2>1, EmptyQueue DEF SInit, Todo, Waiting
<1>4. 0 \in Loops
  BY DEF Loops
<1>5. TypeInv
  <2>1. conn \in [Conns -> ConnRecords] /\ \A c \in Conns : conn[c] \in ConnRecords
    BY <1>2 DEF SInit
  <2>2. /\ active \in [Loops -> SUBSET (Conns \cup {Acc})]
        /\ pendingFunctors_ \in [Loops -> Seq(Functors)]
        /\ functors \in [Loops -> Seq(Functors)]
        /\ batchHolds \in [Loops -> SUBSET Made]
    <3>1. <<>> \in Seq(Functors)
      BY EmptyQueue
    <3> QED
      BY <3>1 DEF SInit
  <2>3. nextConnId_ \in 1..(MaxConns + 1) /\ numThreads_ \in 0..MaxThreads
    BY DEF SInit
  <2> QED
    BY <1>1, <2>1, <2>2, <2>3 DEF SInit, TypeInv, DtorPc, LoopPc
<1>6. StartInv
  <2>1. Cardinality({ s \in Starters : spc[s] # "idle" }) = 0
    <3>1. { s \in Starters : spc[s] # "idle" } = {}
      BY DEF SInit
    <3> QED
      BY <3>1, FS_EmptySet
  <2> QED
    BY <1>3, <1>4, <2>1 DEF SInit, StartInv
<1>7. LoopsInv
  BY DEF SInit, LoopsInv, Loops
<1>8. AccInv
  BY NewIsConsistent DEF SInit, AccInv, NewChannel
<1>9. QueueInv
  BY <1>3, EmptyQueue DEF QueueInv, QueueOK
<1>10. ActiveInv /\ ConnsInv
  BY <1>1 DEF SInit, ActiveInv, ConnsInv
<1>11. BalanceInv
  <2>1. \A l \in Nat : Cardinality(Assigned(l)) = 0
    <3>1. \A l \in Nat : Assigned(l) = {}
      BY DEF SInit, Assigned
    <3> QED
      BY <3>1, FS_EmptySet
  <2>2. \A l \in 1..numThreads_ : l \in Nat /\ ~(l <= next_)
    BY DEF SInit
  <2>3. \A l \in 1..numThreads_ : Cardinality(Assigned(l)) = IF l <= next_ THEN 0 + 1 ELSE 0
    BY <2>1, <2>2
  <2>4. \A l \in Nat : Assigned(l) = {}
    BY DEF SInit, Assigned
  <2> QED
    BY <2>3, <2>4 DEF BalanceInv
<1> QED
  BY <1>5, <1>6, <1>7, <1>8, <1>9, <1>10, <1>11 DEF ServerInv

\* Every step of the server keeps it, and so does one that changes nothing.
LEMMA ServerInvStep == ServerInv /\ [SNext]_sVars => ServerInv'
<1> SUFFICES ASSUME ServerInv, [SNext]_sVars PROVE ServerInv'
  OBVIOUS
<1>1. CASE SNext
  BY <1>1, TypeInvStep, StartInvStep, LoopsInvStep, AccInvStep, QueueInvStep, ActiveInvStep,
     ConnsInvStep, BalanceInvStep DEF ServerInv
<1>2. CASE UNCHANGED sVars
  <2> USE <1>2 DEF sVars, poolVars, accVars, tableVars, loopVars, batchVars, dtorVars, startVars
  <2>1. TypeInv'
    BY DEF ServerInv, TypeInv, Made
  <2>2. StartInv'
    BY DEF ServerInv, StartInv, Waiting, Todo
  <2>3. LoopsInv' /\ AccInv'
    BY DEF ServerInv, LoopsInv, AccInv
  <2>4. QueueInv'
    BY DEF ServerInv, QueueInv, QueueOK, Waiting, Todo, Made
  <2>5. ActiveInv'
    BY DEF ServerInv, ActiveInv, Made
  <2>6. ConnsInv'
    BY DEF ServerInv, ConnsInv, ConnInv, Made, Waiting, Todo, Exited, Referenced
  <2>7. BalanceInv'
    BY DEF ServerInv, BalanceInv, Assigned
  <2> QED
    BY <2>1, <2>2, <2>3, <2>4, <2>5, <2>6, <2>7 DEF ServerInv
<1> QED
  BY <1>1, <1>2

\* The inductive invariant of start(), the loops, the queues and the connections.
THEOREM ServerInvariant == SSpec => []ServerInv
BY ServerInvInit, ServerInvStep, PTL DEF SSpec

\* Types of the server, its loops and its connections (TcpServer.h, Acceptor.h,
\* EventLoopThreadPool.h); next_ is a legal index of loops_.
THEOREM ServerTypes == SSpec => []STypeOK
<1>1. ServerInv => STypeOK
  <2> SUFFICES ASSUME ServerInv PROVE STypeOK
    OBVIOUS
  <2>1. TypeInv /\ StartInv /\ LoopsInv /\ Consistent(acc)
    BY DEF ServerInv, AccInv
  <2>2. started_ \in 0..Cardinality(Starters) /\ loops_ \in Seq(1..MaxThreads)
    BY <2>1, StartedCount, PoolLength
  <2>3. /\ acc \in Channels /\ next_ \in Nat /\ (loops_ # <<>> => next_ < Len(loops_))
        /\ told \in 0..Len(loops_)
    BY <2>1, <2>2 DEF Consistent, LoopsInv
  <2>4. batchHolds \in [Loops -> SUBSET Conns] /\ connections_ \cup held \subseteq 1..(nextConnId_ - 1)
    BY <2>1, TcpServerAssumption DEF TypeInv, Made, Conns
  <2>5. \A c \in Conns : conn[c] \in ConnRecords
    BY <2>1 DEF TypeInv
  <2>6. \A c \in Conns :
          /\ conn[c].life \in {"none", "alive", "freed"}
          /\ conn[c].state_ \in {"kConnecting", "kConnected", "kDisconnected"}
          /\ conn[c].chan \in Channels
          /\ conn[c].fd \in 0..MaxFds /\ conn[c].loop \in Loops
    BY <2>5 DEF ConnRecords
  <2> QED
    BY <2>1, <2>2, <2>3, <2>4, <2>6 DEF STypeOK, TypeInv
<1> QED
  BY <1>1, ServerInvariant, PTL

\* However many threads call start(), the server listens only when startLoop has
\* returned for every loop of the pool (TcpServer::start, EventLoopThreadPool::start).
THEOREM ListensAfterPool == SSpec => []ListensAfterPoolFilled
<1>1. ServerInv => ListensAfterPoolFilled
  BY PoolFull DEF ServerInv, ListensAfterPoolFilled
<1> QED
  BY <1>1, ServerInvariant, PTL

\* The loops of the pool get connections in turn (EventLoopThreadPool::getNextLoop).
THEOREM PoolInBalance == SSpec => []RoundRobin
<1>1. ServerInv => RoundRobin
  <2> SUFFICES ASSUME ServerInv PROVE RoundRobin
    OBVIOUS
  <2>1. numThreads_ \in Nat /\ next_ \in Nat
    BY TcpServerAssumption DEF ServerInv, TypeInv, LoopsInv
  <2>2. CASE numThreads_ = 0
    BY <2>2 DEF RoundRobin
  <2>3. CASE numThreads_ > 0
    <3>1. PICK b \in Nat : \A l \in 1..numThreads_ :
            Cardinality(Assigned(l)) = IF l <= next_ THEN b + 1 ELSE b
      BY <2>3 DEF ServerInv, BalanceInv
    <3>2. \A l, k \in 1..numThreads_ : Cardinality(Assigned(l)) <= Cardinality(Assigned(k)) + 1
      BY <2>1, <3>1
    <3> QED
      BY <2>3, <3>2 DEF ServerInv, BalanceInv, RoundRobin
  <2> QED
    BY <2>1, <2>2, <2>3
<1> QED
  BY <1>1, ServerInvariant, PTL

\* No poller and no activeChannels_ keeps a pointer to the channel of a connection that
\* was destroyed (TcpServer::removeConnectionInLoop, TcpConnection::connectDestroyed).
THEOREM NoneDangles == SSpec => []NoDanglingChannel
<1>1. ServerInv => NoDanglingChannel
  <2> SUFFICES ASSUME ServerInv, NEW c \in Conns,
                      \/ c \in active[conn[c].loop]
                      \/ conn[c].chan.mapped /\ ~Exited(conn[c].loop)
               PROVE  conn[c].life = "alive"
    BY DEF NoDanglingChannel
  <2> USE DEF ServerInv
  <2>1. conn[c] \in ConnRecords /\ conn[c].loop \in Loops /\ c # Acc
    BY TcpServerAssumption DEF TypeInv, ConnRecords, Conns, Acc
  <2>2. c \in Made
    BY <2>1 DEF ConnsInv, NoConn, NewChannel, ActiveInv
  <2>3. ConnInv(c)
    BY <2>2 DEF ConnsInv
  <2>4. c \in active[conn[c].loop] =>
          conn[c].chan.mapped /\ ~Exited(conn[c].loop)
    BY <2>1, <2>3 DEF ActiveInv, ConnInv, Consistent, Exited
  <2>5. c \in connections_ \/ DownF(c) \in Waiting(conn[c].loop)
    BY <2>3, <2>4 DEF ConnInv
  <2>6. Referenced(c)
    BY <2>1, <2>5 DEF Referenced, Waiting, Todo, DownF, Bound
  <2> QED
    BY <2>1, <2>3, <2>6 DEF ConnInv, ConnRecords
<1> QED
  BY <1>1, ServerInvariant, PTL

\* What touches a connection's channel waits on its own loop only, and what touches
\* connections_ on the base loop only (TcpServer::newConnection, removeConnection,
\* removeConnectionInLoop, ~TcpServer).
THEOREM OneLoopPerConnection == SSpec => []FunctorsOnOwnLoop
<1>1. ServerInv => FunctorsOnOwnLoop
  BY DEF ServerInv, QueueInv, QueueOK, FunctorsOnOwnLoop, Waiting, Todo
<1> QED
  BY <1>1, ServerInvariant, PTL

\* The assert of start() and those of EPollPoller hold, and no epoll_ctl fails
\* (TcpServer::start, EPollPoller::updateChannel, removeChannel).
THEOREM AssertsHold == SSpec => []NoAbort
<1>1. ServerInv => NoAbort
  <2> SUFFICES ASSUME ServerInv PROVE NoAbort
    OBVIOUS
  <2>1. process # "aborted" /\ ~acc.aborted
    BY DEF ServerInv, TypeInv, AccInv
  <2>2. ASSUME NEW c \in Conns PROVE ~conn[c].chan.aborted
    <3>1. c \notin Made => conn[c].chan = NewChannel
      BY DEF ServerInv, ConnsInv, NoConn
    <3>2. c \in Made => ~conn[c].chan.aborted
      BY DEF ServerInv, ConnsInv, ConnInv
    <3> QED
      BY <3>1, <3>2, NewIsConsistent
  <2> QED
    BY <2>1, <2>2 DEF NoAbort
<1> QED
  BY <1>1, ServerInvariant, PTL
----------------------------------------------------------------------------
(***************************************************************************)
(* The server implements ConnectionTable.                                  *)
(***************************************************************************)

\* How far a connection is, by its state instead of its callbacks.
PhaseOf(k) ==
    IF k.life \in {"none", "freed"} THEN k.life
    ELSE IF k.state_ = "kConnecting" THEN "made"
    ELSE IF k.state_ = "kConnected" THEN "up"
    ELSE "down"

PhasesNow == [c \in Conns |-> PhaseOf(conn[c])]

\* The phases in the refinement mapping.
TablePhases == [c \in Conns |-> ServerPhase(c)]

\* setState in connectEstablished and handleClose.
LEMMA OpsStates ==
  ASSUME NEW k \in ConnRecords
  PROVE  Established(k).state_ = "kConnected" /\ Closed(k).state_ = "kDisconnected"
<1> DEFINE s == Append(k.cbs, "UP")
           t == Append(k.cbs, "DOWN")
           u == EnableReading(k.chan)
           v == DisableAll(k.chan)
<1>1. /\ Established(k) = [k EXCEPT !.state_ = "kConnected", !.chan = u, !.cbs = s]
      /\ Closed(k) = [k EXCEPT !.state_ = "kDisconnected", !.chan = v, !.cbs = t]
  BY ConnOps
<1> HIDE DEF s, t, u, v
<1> QED
  BY <1>1 DEF ConnRecords

\* The callbacks a connection has run follow its state (setState, connectEstablished,
\* handleClose, connectDestroyed).
LEMMA PhaseIs == ServerInv => TablePhases = PhasesNow
<1> SUFFICES ASSUME ServerInv, NEW c \in Conns PROVE ServerPhase(c) = PhaseOf(conn[c])
  BY DEF PhasesNow, TablePhases
<1>1. CASE c \notin Made
  <2>1. conn[c].life = "none"
    BY <1>1 DEF ServerInv, ConnsInv, NoConn
  <2> QED
    BY <2>1 DEF ServerPhase, PhaseOf
<1>2. CASE c \in Made
  <2>1. PICK k \in ConnRecords : k = conn[c]
    BY DEF ServerInv, TypeInv
  <2>2. /\ k.life # "none"
        /\ k.state_ = "kConnecting" => k.cbs = <<>>
        /\ k.state_ = "kConnected" => k.cbs = <<"UP">>
        /\ k.state_ = "kDisconnected" => k.cbs = <<"UP", "DOWN">>
    BY <1>2, <2>1 DEF ServerInv, ConnsInv, ConnInv
  <2>3. /\ k.life \in {"none", "alive", "freed"}
        /\ k.state_ \in {"kConnecting", "kConnected", "kDisconnected"}
    BY DEF ConnRecords
  <2>4. <<>> # <<"UP">> /\ <<>> # <<"UP", "DOWN">> /\ <<"UP">> # <<"UP", "DOWN">>
    OBVIOUS
  <2>5. CASE k.life = "freed"
    BY <2>1, <2>5 DEF ServerPhase, PhaseOf
  <2>6. CASE k.life = "alive" /\ k.state_ = "kConnecting"
    <3>1. k.cbs = <<>>
      BY <2>2, <2>6
    <3> QED
      BY <2>1, <2>4, <2>6, <3>1 DEF ServerPhase, PhaseOf
  <2>7. CASE k.life = "alive" /\ k.state_ = "kConnected"
    <3>1. k.cbs = <<"UP">>
      BY <2>2, <2>7
    <3> QED
      BY <2>1, <2>4, <2>7, <3>1 DEF ServerPhase, PhaseOf
  <2>8. CASE k.life = "alive" /\ k.state_ = "kDisconnected"
    <3>1. k.cbs = <<"UP", "DOWN">>
      BY <2>2, <2>8
    <3> QED
      BY <2>1, <2>4, <2>8, <3>1 DEF ServerPhase, PhaseOf
  <2> QED
    BY <2>2, <2>3, <2>5, <2>6, <2>7, <2>8
<1> QED
  BY <1>1, <1>2

\* And after a step.
LEMMA PhasesAfter == ServerInv' => (TablePhases = PhasesNow)'
BY PhaseIs, PTL

\* What a step of the table is, in the server's terms.
LEMMA TableMoves ==
  ASSUME ServerInv, ServerInv', NEW c \in Conns, NEW ph,
         PhasesNow' = [PhasesNow EXCEPT ![c] = ph], dpc' = dpc,
         \/ /\ dpc = "no" /\ PhasesNow[c] = "none" /\ ph \in {"made", "up"}
            /\ connections_' = connections_ \cup {c}
         \/ PhasesNow[c] = "made" /\ ph = "up" /\ connections_' = connections_
         \/ /\ PhasesNow[c] = "up" /\ ph = "down"
            /\ connections_' \in {connections_, connections_ \ {c}}
         \/ /\ c \in connections_ /\ (dpc = "no" => PhasesNow[c] = "down")
            /\ connections_' = connections_ \ {c} /\ ph = PhasesNow[c]
         \/ /\ c \notin connections_ /\ ph = "freed" /\ connections_' = connections_
            /\ PhasesNow[c] \in IF dpc = "no" THEN {"down"} ELSE {"made", "up", "down"}
  PROVE  CT!CTNext
<1>1. TablePhases = PhasesNow /\ TablePhases' = PhasesNow'
  BY PhaseIs, PhasesAfter
<1>2. /\ [d \in Conns |-> ServerPhase(d)][c] = PhasesNow[c]
      /\ [d \in Conns |-> ServerPhase(d)]' = [[d \in Conns |-> ServerPhase(d)] EXCEPT ![c] = ph]
      /\ UNCHANGED (dpc = "no")
  BY <1>1 DEF TablePhases
<1>3. ph = PhasesNow[c] => UNCHANGED [d \in Conns |-> ServerPhase(d)]
  <2>1. [PhasesNow EXCEPT ![c] = PhasesNow[c]] = PhasesNow
    BY DEF PhasesNow
  <2> QED
    BY <1>1, <2>1 DEF TablePhases
<1>4. ASSUME dpc = "no", PhasesNow[c] = "none", ph \in {"made", "up"},
             connections_' = connections_ \cup {c}
      PROVE  CT!Make(c)
  BY <1>2, <1>4, Zenon DEF CT!Make
<1>5. ASSUME PhasesNow[c] = "made", ph = "up", connections_' = connections_
      PROVE  CT!ReportUp(c)
  BY <1>2, <1>5 DEF CT!ReportUp
<1>6. ASSUME PhasesNow[c] = "up", ph = "down",
             connections_' \in {connections_, connections_ \ {c}}
      PROVE  CT!ReportDown(c)
  BY <1>2, <1>6, Zenon DEF CT!ReportDown
<1>7. ASSUME c \in connections_, dpc = "no" => PhasesNow[c] = "down",
             connections_' = connections_ \ {c}, ph = PhasesNow[c]
      PROVE  CT!Remove(c)
  BY <1>2, <1>3, <1>7, Zenon DEF CT!Remove
<1>8. ASSUME c \notin connections_, ph = "freed", connections_' = connections_,
             PhasesNow[c] \in IF dpc = "no" THEN {"down"} ELSE {"made", "up", "down"}
      PROVE  CT!Free(c)
  BY <1>2, <1>8, Zenon DEF CT!Free
<1>9. CT!Make(c) \/ CT!ReportUp(c) \/ CT!ReportDown(c) \/ CT!Remove(c) \/ CT!Free(c) => CT!CTNext
  BY DEF CT!CTNext
<1> QED
  BY <1>4, <1>5, <1>6, <1>7, <1>8, <1>9

\* A step that makes one connection's record m makes its phase that of m.
LEMMA PhaseMoves ==
  ASSUME ServerInv, NEW c \in Conns, NEW m, conn' = [conn EXCEPT ![c] = m]
  PROVE  PhasesNow' = [PhasesNow EXCEPT ![c] = PhaseOf(m)]
<1>1. \A d \in Conns : conn'[d] = IF d = c THEN m ELSE conn[d]
  BY DEF ServerInv, TypeInv
<1>2. PhasesNow' = [d \in Conns |-> PhaseOf(conn'[d])]
  BY DEF PhasesNow, PhaseOf
<1>3. \A d \in Conns : PhaseOf(conn'[d]) = IF d = c THEN PhaseOf(m) ELSE PhaseOf(conn[d])
  BY <1>1
<1> QED
  BY <1>2, <1>3 DEF PhasesNow

\* The steps of the table that a step of the server is (newConnection,
\* connectEstablished, handleClose, removeConnectionInLoop, connectDestroyed,
\* ~TcpServer, ~TcpConnection).
LEMMA AcceptMoves == ASSUME ServerInv, ServerInv', Accept PROVE CT!CTNext
<1> USE DEF ServerInv
<1> DEFINE c == nextConnId_
<1>1. /\ c \in Conns /\ c \notin Made /\ NextLoop \in Loops /\ Accepted \in ConnRecords
      /\ Accepted.life = "alive" /\ Accepted.state_ = "kConnecting"
  BY AcceptFacts
<1>2. PhasesNow[c] = "none"
  BY <1>1 DEF ConnsInv, PhasesNow, PhaseOf, NoConn
<1>3. dpc = "no" /\ dpc' = dpc /\ connections_' = connections_ \cup {c}
  BY DEF Accept, Handling, LoopsInv
<1>4. PhaseOf(Accepted) = "made"
  BY <1>1 DEF PhaseOf
<1>5. PhaseOf(Established(Accepted)) = "up"
  <2>1. Established(Accepted).state_ = "kConnected" /\ Established(Accepted).life = "alive"
    BY <1>1, ConnOps, OpsStates
  <2> QED
    BY <2>1 DEF PhaseOf
<1>6. \/ conn' = [conn EXCEPT ![c] = Accepted]
      \/ conn' = [conn EXCEPT ![c] = Established(Accepted)]
  BY DEF Accept, Accepted
<1>7. PICK ph \in {"made", "up"} : PhasesNow' = [PhasesNow EXCEPT ![c] = ph]
  BY <1>1, <1>4, <1>5, <1>6, PhaseMoves
<1> HIDE DEF c
<1> QED
  BY <1>1, <1>2, <1>3, <1>7, TableMoves

\* handleClose reports DOWN, and on the base loop takes the connection out of the map.
LEMMA CloseMoves ==
  ASSUME ServerInv, ServerInv', SNext, NEW c \in Conns, HandleClose(c)
  PROVE  CT!CTNext
<1> USE DEF ServerInv
<1>1. c \in Made /\ conn[c].state_ = "kConnected" /\ conn[c] \in ConnRecords /\ ConnInv(c)
  BY QueuingSteps, LoopStays
<1>2. conn[c].life = "alive"
  <2>1. PICK l \in Loops : l = conn[c].loop
    BY <1>1, LoopStays
  <2>2. conn[c].chan.mapped /\ lpc[l] = "events"
    BY <1>1, <2>1 DEF ConnInv, Consistent, HandleClose, Handling
  <2>3. c \in connections_ \/ DownF(c) \in Waiting(l)
    BY <1>1, <2>1, <2>2 DEF ConnInv, Exited
  <2> QED
    BY <1>1, <2>1, <2>3, InUse DEF DownF, Bound
<1>3. PhasesNow[c] = "up"
  BY <1>1, <1>2 DEF PhasesNow, PhaseOf
<1>4. PhaseOf(Closed(conn[c])) = "down"
  <2>1. Closed(conn[c]).state_ = "kDisconnected" /\ Closed(conn[c]).life = "alive"
    BY <1>1, <1>2, ConnOps, OpsStates
  <2> QED
    BY <2>1 DEF PhaseOf
<1>5. /\ conn' = [conn EXCEPT ![c] = Closed(conn[c])] /\ dpc' = dpc
      /\ connections_' \in {connections_, connections_ \ {c}}
  BY DEF HandleClose, Erase, dtorVars
<1>6. PhasesNow' = [PhasesNow EXCEPT ![c] = "down"]
  BY <1>4, <1>5, PhaseMoves
<1> QED
  BY <1>3, <1>5, <1>6, TableMoves

\* connectEstablished reports UP.
LEMMA EstablishMoves ==
  ASSUME ServerInv, ServerInv', SNext, NEW l \in Loops, ConnectEstablished(l)
  PROVE  CT!CTNext
<1> USE DEF ServerInv
<1>1. PICK c : c = Head(functors[l]).c
  OBVIOUS
<1>2. UpF(c) \in Waiting(l) /\ c \in Made /\ c \in Conns /\ l = conn[c].loop
  BY <1>1, RunningFacts DEF ConnectEstablished, UpF
<1>3. conn[c] \in ConnRecords /\ conn[c].state_ = "kConnecting" /\ conn[c].life = "alive"
  BY <1>2, LoopStays, InUse DEF ConnInv, UpF, Bound
<1>4. PhasesNow[c] = "made"
  BY <1>2, <1>3 DEF PhasesNow, PhaseOf
<1>5. PhaseOf(Established(conn[c])) = "up"
  <2>1. Established(conn[c]).state_ = "kConnected" /\ Established(conn[c]).life = "alive"
    BY <1>3, ConnOps, OpsStates
  <2> QED
    BY <2>1 DEF PhaseOf
<1>6. /\ conn' = [conn EXCEPT ![c] = Established(conn[c])] /\ dpc' = dpc
      /\ connections_' = connections_
  BY <1>1 DEF ConnectEstablished, Running, dtorVars
<1>7. PhasesNow' = [PhasesNow EXCEPT ![c] = "up"]
  BY <1>2, <1>5, <1>6, PhaseMoves
<1> QED
  BY <1>2, <1>4, <1>6, <1>7, TableMoves

\* removeConnectionInLoop takes a connection that was reported as down out of the map.
LEMMA RemoveMoves ==
  ASSUME ServerInv, ServerInv', SNext, RemoveConnectionInLoop
  PROVE  CT!CTNext
<1> USE DEF ServerInv
<1>1. PICK c : c = Head(functors[0]).c
  OBVIOUS
<1>2. c \in Made /\ c \in connections_ /\ conn[c].state_ = "kDisconnected"
  BY <1>1, QueuingSteps
<1>3. c \in Conns /\ conn[c].life = "alive"
  BY <1>2, LoopStays, InUse
<1>4. PhasesNow[c] = "down"
  BY <1>2, <1>3 DEF PhasesNow, PhaseOf
<1>5. conn' = conn /\ dpc' = dpc /\ connections_' = connections_ \ {c}
  BY <1>1 DEF RemoveConnectionInLoop, Running, Erase, dtorVars
<1>6. PhasesNow' = [PhasesNow EXCEPT ![c] = PhasesNow[c]]
  BY <1>5 DEF PhasesNow, PhaseOf
<1> QED
  BY <1>2, <1>3, <1>4, <1>5, <1>6, TableMoves

\* What connectDestroyed makes of a connection's phase.
LEMMA DisestablishedPhase ==
  ASSUME NEW k \in ConnRecords, k.life = "alive"
  PROVE  PhaseOf(Disestablished(k)) = IF PhaseOf(k) = "up" THEN "down" ELSE PhaseOf(k)
<1> DEFINE v == RemoveChannel(DisableAll(k.chan))
           w == RemoveChannel(k.chan)
           t == Append(k.cbs, "DOWN")
<1>1. CASE k.state_ = "kConnected"
  <2>1. Disestablished(k) = [k EXCEPT !.state_ = "kDisconnected", !.chan = v, !.cbs = t]
    BY <1>1 DEF Disestablished
  <2> HIDE DEF v, t
  <2>2. Disestablished(k).state_ = "kDisconnected" /\ Disestablished(k).life = "alive"
    BY <2>1 DEF ConnRecords
  <2> QED
    BY <1>1, <2>2 DEF PhaseOf
<1>2. CASE k.state_ # "kConnected"
  <2>1. Disestablished(k) = [k EXCEPT !.chan = w]
    BY <1>2 DEF Disestablished
  <2> HIDE DEF w
  <2>2. Disestablished(k).state_ = k.state_ /\ Disestablished(k).life = k.life
    BY <2>1 DEF ConnRecords
  <2> QED
    BY <1>2, <2>2 DEF PhaseOf
<1> QED
  BY <1>1, <1>2

\* connectDestroyed reports DOWN if the connection was still up, and nothing otherwise.
LEMMA DestroyedMoves ==
  ASSUME ServerInv, ServerInv', SNext, NEW l \in Loops, ConnectDestroyed(l)
  PROVE  CT!CTNext \/ (PhasesNow' = PhasesNow /\ connections_' = connections_ /\ dpc' = dpc)
<1> USE DEF ServerInv
<1>1. PICK c : c = Head(functors[l]).c
  OBVIOUS
<1>2. DownF(c) \in Waiting(l) /\ c \in Made /\ c \in Conns
  BY <1>1, RunningFacts DEF ConnectDestroyed, DownF
<1>3. conn[c] \in ConnRecords /\ conn[c].life = "alive"
  BY <1>2, LoopStays, InUse DEF DownF, Bound
<1>4. PhasesNow[c] = PhaseOf(conn[c])
  BY <1>2 DEF PhasesNow
<1>5. /\ conn' = [conn EXCEPT ![c] = Disestablished(conn[c])] /\ dpc' = dpc
      /\ connections_' = connections_
  BY <1>1 DEF ConnectDestroyed, Running, dtorVars
<1>6. PhasesNow' = [PhasesNow EXCEPT ![c] = PhaseOf(Disestablished(conn[c]))]
  BY <1>2, <1>5, PhaseMoves
<1>7. CASE PhasesNow[c] = "up"
  <2>1. PhasesNow' = [PhasesNow EXCEPT ![c] = "down"]
    BY <1>3, <1>4, <1>6, <1>7, DisestablishedPhase
  <2> QED
    BY <1>2, <1>5, <1>7, <2>1, TableMoves
<1>8. CASE PhasesNow[c] # "up"
  <2>1. PhasesNow' = [PhasesNow EXCEPT ![c] = PhasesNow[c]]
    BY <1>3, <1>4, <1>6, <1>8, DisestablishedPhase
  <2>2. PhasesNow' = PhasesNow
    BY <2>1 DEF PhasesNow
  <2> QED
    BY <1>5, <2>2
<1> QED
  BY <1>7, <1>8

\* ~TcpServer takes a connection out of the map, and one of the base loop is reported
\* as down in the same step if it was up.
LEMMA CloseConnectionMoves ==
  ASSUME ServerInv, ServerInv', SNext, NEW c \in Conns, CloseConnection(c)
  PROVE  CT!CTNext
<1> USE DEF ServerInv
<1>1. /\ dpc = "closing" /\ c \in connections_ /\ connections_' = connections_ \ {c}
      /\ dpc' = dpc /\ c \in Made
  BY DEF CloseConnection, Erase, TypeInv, dtorVars
<1>2. conn[c] \in ConnRecords /\ conn[c].life = "alive"
  BY <1>1, LoopStays, InUse
<1>3. PhasesNow[c] = PhaseOf(conn[c])
  BY DEF PhasesNow
<1>4. CASE conn[c].loop = 0
  <2>1. conn' = [conn EXCEPT ![c] = Disestablished(conn[c])]
    BY <1>4 DEF CloseConnection
  <2>2. PhasesNow' = [PhasesNow EXCEPT ![c] = PhaseOf(Disestablished(conn[c]))]
    BY <2>1, PhaseMoves
  <2>3. CASE PhasesNow[c] = "up"
    <3>1. PhasesNow' = [PhasesNow EXCEPT ![c] = "down"]
      BY <1>2, <1>3, <2>2, <2>3, DisestablishedPhase
    <3> QED
      BY <1>1, <2>3, <3>1, TableMoves
  <2>4. CASE PhasesNow[c] # "up"
    <3>1. PhasesNow' = [PhasesNow EXCEPT ![c] = PhasesNow[c]]
      BY <1>2, <1>3, <2>2, <2>4, DisestablishedPhase
    <3> QED
      BY <1>1, <3>1, TableMoves
  <2> QED
    BY <2>3, <2>4
<1>5. CASE conn[c].loop # 0
  <2>1. conn' = conn
    BY <1>5 DEF CloseConnection
  <2>2. PhasesNow' = [PhasesNow EXCEPT ![c] = PhasesNow[c]]
    BY <2>1 DEF PhasesNow, PhaseOf
  <2> QED
    BY <1>1, <2>2, TableMoves
<1> QED
  BY <1>4, <1>5

\* ~TcpConnection runs when nothing holds the connection: it has left the map, and
\* while the server is up it was reported as down.
LEMMA DestroyMoves ==
  ASSUME ServerInv, ServerInv', NEW c \in Conns, Destroy(c)
  PROVE  CT!CTNext
<1> USE DEF ServerInv
<1> DEFINE m == [conn[c] EXCEPT !.life = "freed", !.chan.reg = FALSE, !.chan.interest = {}]
<1>1. conn[c] \in ConnRecords /\ conn[c].life = "alive" /\ ~Referenced(c)
  BY DEF Destroy, TypeInv
<1>2. c \in Made
  BY <1>1 DEF ConnsInv, NoConn
<1>3. c \notin connections_
  BY <1>1 DEF Referenced
<1>4. dpc = "no" => conn[c].state_ = "kDisconnected"
  BY <1>2, <1>3 DEF ConnsInv, ConnInv
<1>5. PhasesNow[c] \in IF dpc = "no" THEN {"down"} ELSE {"made", "up", "down"}
  BY <1>1, <1>4 DEF PhasesNow, PhaseOf
<1>6. m.life = "freed"
  BY <1>1 DEF ConnRecords
<1>7. conn' = [conn EXCEPT ![c] = m] /\ dpc' = dpc /\ connections_' = connections_
  BY DEF Destroy, tableVars, dtorVars
<1> HIDE DEF m
<1>8. PhasesNow' = [PhasesNow EXCEPT ![c] = "freed"]
  BY <1>6, <1>7, PhaseMoves DEF PhaseOf
<1> QED
  BY <1>3, <1>5, <1>7, <1>8, TableMoves

\* Any other step is none of the table's, or it is the start of ~TcpServer.
LEMMA OthersMove ==
  ASSUME ServerInv, ServerInv', SNext, \A c \in Conns : ~ActsOn(c) /\ ~Destroy(c)
  PROVE  /\ PhasesNow' = PhasesNow /\ connections_' = connections_
         /\ dpc' = "no" => dpc = "no"
<1>1. ASSUME NEW c \in Conns PROVE PhaseOf(conn'[c]) = PhaseOf(conn[c])
  <2>1. conn'[c].state_ = conn[c].state_ /\ conn'[c].life = conn[c].life
    BY OthersAlike DEF Alike
  <2> QED
    BY <2>1 DEF PhaseOf
<1>2. PhasesNow' = [c \in Conns |-> PhaseOf(conn'[c])]
  BY DEF PhasesNow, PhaseOf
<1>3. \A c \in Conns : c \in connections_' <=> c \in connections_
  BY OthersAlike
<1>4. connections_ \subseteq Conns /\ connections_' \subseteq Conns
  <2>1. Made \subseteq Conns
    BY TcpServerAssumption DEF ServerInv, TypeInv, Made, Conns
  <2>2. connections_ \subseteq Made /\ connections_' \subseteq Made'
    BY DEF ServerInv, TypeInv
  <2>3. Made' \subseteq Conns
    <3> DEFINE n == nextConnId_'
    <3>1. n \in 1..(MaxConns + 1) /\ Made' = 1..(n - 1)
      BY DEF ServerInv, TypeInv, Made
    <3> HIDE DEF n
    <3> QED
      BY <3>1, TcpServerAssumption DEF Conns
  <2> QED
    BY <2>1, <2>2, <2>3
<1>5. dpc' = "no" => dpc = "no"
  BY Onwards
<1> QED
  BY <1>1, <1>2, <1>3, <1>4, <1>5 DEF PhasesNow

\* Every step of the server is a step of the table, or none.
LEMMA TableStep ==
  ASSUME ServerInv, ServerInv', [SNext]_sVars
  PROVE  [CT!CTNext]_(CT!ctVars)
<1>1. TablePhases = PhasesNow /\ TablePhases' = PhasesNow'
  BY PhaseIs, PhasesAfter
<1>2. /\ [d \in Conns |-> ServerPhase(d)] = PhasesNow
      /\ [d \in Conns |-> ServerPhase(d)]' = PhasesNow'
  BY <1>1 DEF TablePhases
<1>3. ASSUME PhasesNow' = PhasesNow, connections_' = connections_, dpc = "no" <=> dpc' = "no"
      PROVE  UNCHANGED CT!ctVars
  BY <1>1, <1>2, <1>3 DEF CT!ctVars
<1>4. CASE UNCHANGED sVars
  <2>1. UNCHANGED <<conn, connections_, dpc>>
    BY <1>4 DEF sVars, tableVars, dtorVars
  <2> QED
    BY <1>3, <2>1 DEF PhasesNow, PhaseOf
<1>5. ASSUME SNext, NEW c \in Conns, ActsOn(c) PROVE CT!CTNext \/ UNCHANGED CT!ctVars
  <2>1. ASSUME NEW l \in Loops, ConnectDestroyed(l) PROVE CT!CTNext \/ UNCHANGED CT!ctVars
    BY <1>3, <1>5, <2>1, DestroyedMoves
  <2> QED
    BY <1>5, <2>1, AcceptMoves, CloseMoves, CloseConnectionMoves, EstablishMoves, RemoveMoves
       DEF ActsOn
<1>6. ASSUME NEW c \in Conns, Destroy(c) PROVE CT!CTNext
  BY <1>6, DestroyMoves
<1>7. ASSUME SNext, \A c \in Conns : ~ActsOn(c) /\ ~Destroy(c)
      PROVE  CT!CTNext \/ UNCHANGED CT!ctVars
  <2>1. /\ PhasesNow' = PhasesNow /\ connections_' = connections_
        /\ dpc' = "no" => dpc = "no"
    BY <1>7, OthersMove
  <2>2. CASE dpc = "no" /\ dpc' # "no"
    <3>1. CT!StopServing
      BY <1>1, <1>2, <2>1, <2>2 DEF CT!StopServing
    <3> QED
      BY <3>1 DEF CT!CTNext
  <2> QED
    BY <1>3, <2>1, <2>2
<1> QED
  BY <1>4, <1>5, <1>6, <1>7

\* Each connection is reported as up, then as down, leaves the map, and is freed, on
\* any mixture of loops (TcpServer::newConnection, removeConnection,
\* removeConnectionInLoop, ~TcpServer).
THEOREM ServerImplements == SSpec => ServerImplementsTable
<1>1. SInit => CT!CTInit
  <2> SUFFICES ASSUME SInit PROVE CT!CTInit
    OBVIOUS
  <2>1. \A c \in Conns : ServerPhase(c) = "none"
    <3>1. \A c \in Conns : conn[c].life = "none"
      BY DEF SInit, NoConn
    <3> QED
      BY <3>1 DEF ServerPhase
  <2> QED
    BY <2>1 DEF SInit, CT!CTInit
<1> QED
  BY <1>1, TableStep, ServerInvariant, PTL DEF SSpec, ServerImplementsTable, CT!CTSpec
=============================================================================
