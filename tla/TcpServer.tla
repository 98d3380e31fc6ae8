------------------------------ MODULE TcpServer ------------------------------
(***************************************************************************)
(* A TcpServer with its Acceptor, its EventLoopThreadPool, the loops they  *)
(* use and the connections they make and lose (TcpServer.cc, Acceptor.cc,  *)
(* EventLoopThreadPool.cc, Socket.cc), from start(), which several threads *)
(* may call, to the destructor.                                            *)
(*                                                                         *)
(* Loop 0 is the base loop, 1..numThreads_ are those of the pool.  A loop  *)
(* is seen through what EventLoop.tla shows of it: it is woken up when a   *)
(* functor is queued or quit() is called, handles what epoll reported,     *)
(* then runs the functors queued so far, in order.  Of a connection only   *)
(* the way it comes and goes is kept, TcpConnection.tla has the rest: the  *)
(* peer leaves, which its loop sees as an event for handleClose.           *)
(***************************************************************************)
EXTENDS Channel, Integers, FiniteSets, Sequences, SequencesExt

CONSTANTS
    MaxThreads,     \* setThreadNum is given at most this
    MaxConns,       \* how many clients connect
    MaxFds,         \* how many descriptors the process has for connections
    Starters,       \* the threads that call start(), once each
    main            \* the one among them whose loop is the base loop

ASSUME TcpServerAssumption ==
    /\ MaxThreads \in Nat /\ MaxConns \in Nat /\ MaxFds \in Nat
    /\ IsFiniteSet(Starters) /\ main \in Starters

VARIABLES
    (* the TcpServer, its EventLoopThreadPool and its Acceptor *)
    started_, numThreads_, loops_, next_,
    listening_,
    acc,                \* acceptChannel_ and its entry in the base loop's poller
    nextConnId_,
    connections_,       \* the connections in the map
    (* the connections, by their number *)
    conn,
    (* the loops *)
    lpc,                \* where each loop is, see LoopPc
    quit_,
    active,             \* the channels of activeChannels_ still to be handled
    pendingFunctors_,
    functors,           \* those of the batch still to be run
    batchHolds,         \* connections bound in functors the batch has run
    (* the threads *)
    spc,                \* a starter is "idle", "starting" or has "returned"
    i,                  \* a starter's counter in EventLoopThreadPool::start
    dpc,                \* where the main thread is in ~TcpServer, see DtorPc
    told,               \* how many of threads_ ~TcpServer has told to quit
    (* around the server *)
    backlog,            \* clients waiting to be accepted
    held,               \* connections the application keeps a pointer to
    process             \* "runs", "exited" (LOG_FATAL) or "aborted" (assert)

poolVars  == <<numThreads_, loops_, next_>>
accVars   == <<listening_, acc>>
tableVars == <<nextConnId_, connections_>>
batchVars == <<functors, batchHolds>>
loopVars  == <<lpc, quit_, active, pendingFunctors_, batchVars>>
startVars == <<started_, spc, i>>
dtorVars  == <<dpc, told>>
sVars == <<started_, poolVars, accVars, tableVars, conn, loopVars, spc, i, dtorVars,
           backlog, held, process>>

Conns == 1..MaxConns
Loops == 0..MaxThreads
Acc   == 0      \* stands for acceptChannel_ among the channels of loop 0

\* off        nobody has called loop(); an I/O thread is not created
\* started    an I/O loop is published and startLoop has returned it, while its
\*            thread is still on the way into loop()
\* poll       in poll
\* events     going through activeChannels_
\* run        running functors, or at the test of quit_
\* exited     loop() has returned
LoopPc == {"off", "started", "poll", "events", "run", "exited"}

\* no         the server is up
\* closing    ~TcpServer goes through connections_
\* joining    threadPool_ goes: each loop in turn is told to quit and joined
\* acceptor   acceptor_ goes
\* baseLoop   the server is gone, the base EventLoop is next
\* done       and gone
DtorPc == {"no", "closing", "joining", "acceptor", "baseLoop", "done"}

NoConn ==
    [life |-> "none", state_ |-> "kConnecting", chan |-> NewChannel, fd |-> 0,
     loop |-> 0, peer |-> "open", cbs |-> <<>>]

\* What std::bind makes; each of these but listen holds a TcpConnectionPtr.
Bound(fn, c) == [fn |-> fn, c |-> c]

Queue(l, f) == [pendingFunctors_ EXCEPT ![l] = Append(@, f)]

SInit ==
    /\ started_ = 0 /\ numThreads_ \in 0..MaxThreads /\ loops_ = <<>> /\ next_ = 0
    /\ listening_ = FALSE /\ acc = NewChannel
    /\ nextConnId_ = 1 /\ connections_ = {}
    /\ conn = [c \in Conns |-> NoConn]
    /\ lpc = [l \in Loops |-> "off"] /\ quit_ = [l \in Loops |-> FALSE]
    /\ active = [l \in Loops |-> {}]
    /\ pendingFunctors_ = [l \in Loops |-> <<>>]
    /\ functors = [l \in Loops |-> <<>>] /\ batchHolds = [l \in Loops |-> {}]
    /\ spc = [s \in Starters |-> "idle"] /\ i = [s \in Starters |-> 0]
    /\ dpc = "no" /\ told = 0 /\ backlog = 0 /\ held = {} /\ process = "runs"
----------------------------------------------------------------------------
(* TcpServer::start.                                                       *)

\* Mutant: every call starts the pool.
EveryCall == TRUE

\* Mutant: started_ is compared after the increment.
SecondCall == started_ = 1

\* started_ is 0 before the increment.
FirstCall == started_ = 0

\* started_++ == 0, at any time before ~TcpServer: the main thread calls start()
\* before loop(), in a callback of the base loop or after loop().
CallStart(s) ==
    /\ spc[s] = "idle" /\ dpc = "no"
    /\ started_' = started_ + 1
    /\ spc' = [spc EXCEPT ![s] = IF FirstCall THEN "starting" ELSE "returned"]
    /\ UNCHANGED <<i, poolVars, accVars, tableVars, conn, loopVars, dtorVars, backlog,
                   held, process>>

\* One turn of EventLoopThreadPool::start: a thread is created and startLoop()
\* returns the loop that threadFunc has published, before it calls loop().
StartIoLoop(s) ==
    /\ spc[s] = "starting" /\ i[s] < numThreads_
    /\ i' = [i EXCEPT ![s] = @ + 1]
    /\ loops_' = Append(loops_, i[s] + 1)
    /\ lpc' = [lpc EXCEPT ![i[s] + 1] = "started"]
    /\ UNCHANGED <<started_, spc, numThreads_, next_, accVars, tableVars, conn,
                   quit_, active, pendingFunctors_, batchVars, dtorVars, backlog,
                   held, process>>

\* Acceptor::listen
Listen ==
    /\ listening_' = TRUE
    /\ acc' = EnableReading(acc)

\* Mutant: the pool is still being started.
PoolStartedEarly(s) == TRUE

PoolStarted(s) == i[s] = numThreads_

\* The rest of start(): the assert, then runInLoop(listen).
StartListening(s) ==
    /\ spc[s] = "starting" /\ PoolStarted(s)
    /\ spc' = [spc EXCEPT ![s] = "returned"]
    /\ process' = IF listening_ THEN "aborted" ELSE process
    /\ IF s = main
       THEN Listen /\ UNCHANGED pendingFunctors_
       ELSE /\ pendingFunctors_' = Queue(0, Bound("listen", 0))
            /\ UNCHANGED accVars
    /\ UNCHANGED <<started_, i, poolVars, tableVars, conn, lpc, quit_, active,
                   batchVars, dtorVars, backlog, held>>

\* acceptSocket_.listen() fails, in start() or in the functor: LOG_FATAL.
ListenFatal ==
    /\ \/ spc[main] = "starting" /\ PoolStarted(main) /\ ~listening_
       \/ lpc[0] = "run" /\ functors[0] # <<>> /\ Head(functors[0]).fn = "listen"
    /\ process' = "exited"
    /\ UNCHANGED <<startVars, poolVars, accVars, tableVars, conn, loopVars, dtorVars,
                   backlog, held>>

\* The main thread calls loop() on the base loop, an I/O thread on its own: quit_ is
\* reset, whoever has set it, and about to be tested.
EnterLoop(l) ==
    /\ lpc[l] = IF l = 0 THEN "off" ELSE "started"
    /\ lpc' = [lpc EXCEPT ![l] = "run"]
    /\ quit_' = [quit_ EXCEPT ![l] = FALSE]
    /\ UNCHANGED <<startVars, poolVars, accVars, tableVars, conn, active,
                   pendingFunctors_, batchVars, dtorVars, backlog, held, process>>
----------------------------------------------------------------------------
(* TcpConnection, as far as it concerns the server.  Each says what becomes *)
(* of the connection's record.                                             *)

Established(k) ==
    [k EXCEPT !.state_ = "kConnected", !.chan = EnableReading(@),
              !.cbs = Append(@, "UP")]

Closed(k) ==
    [k EXCEPT !.state_ = "kDisconnected", !.chan = DisableAll(@),
              !.cbs = Append(@, "DOWN")]

\* Mutant: connectDestroyed reports DOWN whatever the state.
DisestablishedAgain(k) ==
    [k EXCEPT !.state_ = "kDisconnected",
              !.chan = IF k.state_ = "kConnected" THEN RemoveChannel(DisableAll(@))
                                                  ELSE RemoveChannel(@),
              !.cbs = Append(@, "DOWN")]

\* connectDestroyed
Disestablished(k) ==
    IF k.state_ = "kConnected"
    THEN [k EXCEPT !.state_ = "kDisconnected",
                   !.chan = RemoveChannel(DisableAll(@)),
                   !.cbs = Append(@, "DOWN")]
    ELSE [k EXCEPT !.chan = RemoveChannel(@)]
----------------------------------------------------------------------------
(* Clients and the application.                                            *)

ClientConnects ==
    /\ listening_ /\ dpc = "no" /\ nextConnId_ + backlog <= MaxConns
    /\ backlog' = backlog + 1
    /\ UNCHANGED <<startVars, poolVars, accVars, tableVars, conn, loopVars, dtorVars,
                   held, process>>

PeerLeaves(c) ==
    /\ conn[c].life = "alive" /\ conn[c].peer = "open"
    /\ conn' = [conn EXCEPT ![c].peer = "gone"]
    /\ UNCHANGED <<startVars, poolVars, accVars, tableVars, loopVars, dtorVars, backlog,
                   held, process>>

\* A thread of the application drops the TcpConnectionPtr that it took in the
\* callback that reported UP.
Release(c) ==
    /\ c \in held
    /\ held' = held \ {c}
    /\ UNCHANGED <<startVars, poolVars, accVars, tableVars, conn, loopVars, dtorVars,
                   backlog, process>>

\* The callback that reports UP may keep the TcpConnectionPtr, one at a time.
Keep(c) == held' = held \/ (held = {} /\ held' = {c})

\* Some thread, or a callback, calls quit() on the base loop, perhaps before loop().
QuitBaseLoop ==
    /\ lpc[0] # "exited"
    /\ quit_' = [quit_ EXCEPT ![0] = TRUE]
    /\ UNCHANGED <<startVars, poolVars, accVars, tableVars, conn, lpc, active,
                   pendingFunctors_, batchVars, dtorVars, backlog, held, process>>
----------------------------------------------------------------------------
(* The loops: events.                                                      *)

\* The channels of loop l that epoll has an event for.
Ready(l) ==
    { c \in Conns : /\ conn[c].loop = l /\ conn[c].chan.reg
                    /\ "R" \in conn[c].chan.interest /\ conn[c].peer = "gone" }
    \cup IF l = 0 /\ acc.reg /\ "R" \in acc.interest /\ backlog > 0
         THEN {Acc} ELSE {}

\* poll returns, and fillActiveChannels.
Poll(l) ==
    /\ lpc[l] = "poll" /\ Ready(l) # {}
    /\ lpc' = [lpc EXCEPT ![l] = "events"]
    /\ active' = [active EXCEPT ![l] = Ready(l)]
    /\ UNCHANGED <<startVars, poolVars, accVars, tableVars, conn, quit_,
                   pendingFunctors_, batchVars, dtorVars, backlog, held, process>>

Handling(l, c) ==
    /\ lpc[l] = "events" /\ c \in active[l]
    /\ active' = [active EXCEPT ![l] = @ \ {c}]

UsedFds == { conn[c].fd : c \in { d \in Conns : conn[d].life = "alive" } }
FreeFds == 1..MaxFds \ UsedFds

\* Mutant: next_ stays.
SameLoopAgain == next_' = next_

\* Mutant: one too late.
AdvanceNextPastEnd == next_' = IF next_ + 1 > Len(loops_) THEN 0 ELSE next_ + 1

\* ++next_, back to 0 at the end.
AdvanceNext == next_' = IF next_ + 1 >= Len(loops_) THEN 0 ELSE next_ + 1

\* The loop getNextLoop chooses.
NextLoop == IF loops_ = <<>> THEN 0 ELSE loops_[next_ + 1]

\* accept succeeds, and newConnection: the connection's callbacks are set and
\* connectEstablished is run in its loop, at once if that is this one.
Accept ==
    /\ Handling(0, Acc) /\ FreeFds # {}
    /\ backlog' = backlog - 1
    /\ IF loops_ = <<>> THEN UNCHANGED next_ ELSE AdvanceNext
    /\ nextConnId_' = nextConnId_ + 1
    /\ connections_' = connections_ \cup {nextConnId_}
    /\ LET c == nextConnId_
           k == [NoConn EXCEPT !.life = "alive", !.fd = Min(FreeFds),
                               !.loop = NextLoop]
       IN  IF NextLoop = 0
           THEN /\ conn' = [conn EXCEPT ![c] = Established(k)]
                /\ Keep(c)
                /\ UNCHANGED pendingFunctors_
           ELSE /\ conn' = [conn EXCEPT ![c] = k]
                /\ pendingFunctors_' = Queue(NextLoop, Bound("connectEstablished", c))
                /\ UNCHANGED held
    /\ UNCHANGED <<startVars, numThreads_, loops_, accVars, lpc, quit_, batchVars,
                   dtorVars, process>>

\* accept fails with an error that is only logged: the client is gone again.
AcceptNothing ==
    /\ Handling(0, Acc) /\ FreeFds # {}
    /\ backlog' = backlog - 1
    /\ UNCHANGED <<startVars, poolVars, accVars, tableVars, conn, lpc, quit_,
                   pendingFunctors_, batchVars, dtorVars, held, process>>

\* accept fails with EMFILE, or with ENFILE and the like: LOG_FATAL.
AcceptFatal ==
    /\ Handling(0, Acc)
    /\ process' = "exited"
    /\ UNCHANGED <<startVars, poolVars, accVars, tableVars, conn, lpc, quit_,
                   pendingFunctors_, batchVars, dtorVars, backlog, held>>

\* Mutant: connections_ keeps its TcpConnectionPtr.
EraseNothing(c) == UNCHANGED connections_

\* connections_.erase(conn->name())
Erase(c) == connections_' = connections_ \ {c}

\* Mutant: connectDestroyed is queued to the base loop.
DestroyedLoopBase(c) == 0

\* The loop that removeConnectionInLoop queues connectDestroyed to.
DestroyedLoop(c) == conn[c].loop

\* handleClose, and removeConnection as its closeCallback_.
HandleClose(c) ==
    LET l == conn[c].loop
    IN  /\ Handling(l, c)
        /\ conn' = [conn EXCEPT ![c] = Closed(@)]
        /\ IF l = 0
           THEN /\ Erase(c)
                /\ pendingFunctors_' = Queue(DestroyedLoop(c), Bound("connectDestroyed", c))
           ELSE /\ pendingFunctors_' = Queue(0, Bound("removeConnectionInLoop", c))
                /\ UNCHANGED connections_
        /\ UNCHANGED <<startVars, poolVars, accVars, nextConnId_, lpc, quit_,
                       batchVars, dtorVars, backlog, held, process>>
----------------------------------------------------------------------------
(* The loops: functors.                                                    *)

\* Every event is handled, or poll was woken up for a functor or by quit().
SwapFunctors(l) ==
    /\ \/ lpc[l] = "events" /\ active[l] = {}
       \/ lpc[l] = "poll" /\ (pendingFunctors_[l] # <<>> \/ quit_[l])
    /\ lpc' = [lpc EXCEPT ![l] = "run"]
    /\ functors' = [functors EXCEPT ![l] = pendingFunctors_[l]]
    /\ pendingFunctors_' = [pendingFunctors_ EXCEPT ![l] = <<>>]
    /\ UNCHANGED <<startVars, poolVars, accVars, tableVars, conn, quit_, active,
                   batchHolds, dtorVars, backlog, held, process>>

Running(l, fn) ==
    /\ lpc[l] = "run" /\ functors[l] # <<>> /\ Head(functors[l]).fn = fn
    /\ functors' = [functors EXCEPT ![l] = Tail(@)]
    /\ batchHolds' = [batchHolds EXCEPT ![l] = @ \cup ({Head(functors[l]).c} \ {Acc})]
    /\ UNCHANGED <<startVars, poolVars, nextConnId_, lpc, quit_, active, dtorVars,
                   backlog, process>>

RunListen ==
    /\ Running(0, "listen")
    /\ Listen
    /\ UNCHANGED <<connections_, conn, pendingFunctors_, held>>

ConnectEstablished(l) ==
    LET c == Head(functors[l]).c
    IN  /\ Running(l, "connectEstablished")
        /\ conn' = [conn EXCEPT ![c] = Established(@)]
        /\ Keep(c)
        /\ UNCHANGED <<accVars, connections_, pendingFunctors_>>

RemoveConnectionInLoop ==
    LET c == Head(functors[0]).c
    IN  /\ Running(0, "removeConnectionInLoop")
        /\ Erase(c)
        /\ pendingFunctors_' = Queue(DestroyedLoop(c), Bound("connectDestroyed", c))
        /\ UNCHANGED <<accVars, conn, held>>

ConnectDestroyed(l) ==
    LET c == Head(functors[l]).c
    IN  /\ Running(l, "connectDestroyed")
        /\ conn' = [conn EXCEPT ![c] = Disestablished(@)]
        /\ UNCHANGED <<accVars, connections_, pendingFunctors_, held>>

\* The batch is done and while(!quit_) is tested.  An I/O loop that leaves loop()
\* is destroyed, with the functors that came too late and its poller.
EndFunctors(l) ==
    /\ lpc[l] = "run" /\ functors[l] = <<>>
    /\ batchHolds' = [batchHolds EXCEPT ![l] = {}]
    /\ lpc' = [lpc EXCEPT ![l] = IF quit_[l] THEN "exited" ELSE "poll"]
    /\ IF quit_[l] /\ l # 0
       THEN /\ pendingFunctors_' = [pendingFunctors_ EXCEPT ![l] = <<>>]
            /\ conn' = [c \in Conns |->
                          IF conn[c].loop = l THEN [conn[c] EXCEPT !.chan.reg = FALSE]
                                              ELSE conn[c]]
       ELSE UNCHANGED <<pendingFunctors_, conn>>
    /\ UNCHANGED <<startVars, poolVars, accVars, tableVars, quit_, active, functors,
                   dtorVars, backlog, held, process>>
----------------------------------------------------------------------------
(* ~TcpServer, on the main thread once loop() has returned.                *)

\* Nobody is inside start() any more.
BeginDestroy ==
    /\ dpc = "no" /\ lpc[0] = "exited"
    /\ \A s \in Starters : spc[s] # "starting"
    /\ dpc' = "closing"
    /\ UNCHANGED <<startVars, poolVars, accVars, tableVars, conn, loopVars, told,
                   backlog, held, process>>

\* One turn of its loop: runInLoop(connectDestroyed).
CloseConnection(c) ==
    /\ dpc = "closing" /\ c \in connections_
    /\ Erase(c)
    /\ IF conn[c].loop = 0
       THEN /\ conn' = [conn EXCEPT ![c] = Disestablished(@)]
            /\ UNCHANGED pendingFunctors_
       ELSE /\ pendingFunctors_' =
                 Queue(conn[c].loop, Bound("connectDestroyed", c))
            /\ UNCHANGED conn
    /\ UNCHANGED <<startVars, poolVars, accVars, nextConnId_, lpc, quit_, active,
                   batchVars, dtorVars, backlog, held, process>>

AllClosed ==
    /\ dpc = "closing" /\ connections_ = {}
    /\ dpc' = "joining"
    /\ UNCHANGED <<startVars, poolVars, accVars, tableVars, conn, loopVars, told,
                   backlog, held, process>>

Exited(l) == lpc[l] = "exited"

\* The thread of threads_ that was told to quit last is joined.
Joined == told > 0 => Exited(loops_[told])

\* Mutant: ~EventLoopThread goes straight to join().
JoinWithoutQuit ==
    /\ dpc = "joining" /\ told < Len(loops_) /\ Joined
    /\ told' = told + 1
    /\ UNCHANGED <<startVars, poolVars, accVars, tableVars, conn, loopVars, dpc,
                   backlog, held, process>>

\* ~EventLoopThread for the next of threads_: quit(), then join().
QuitIoLoop ==
    /\ dpc = "joining" /\ told < Len(loops_) /\ Joined
    /\ told' = told + 1
    /\ quit_' = [quit_ EXCEPT ![loops_[told + 1]] = TRUE]
    /\ UNCHANGED <<startVars, poolVars, accVars, tableVars, conn, lpc, active,
                   pendingFunctors_, batchVars, dpc, backlog, held, process>>

AllJoined ==
    /\ dpc = "joining" /\ told = Len(loops_) /\ Joined
    /\ dpc' = "acceptor"
    /\ UNCHANGED <<startVars, poolVars, accVars, tableVars, conn, loopVars, told,
                   backlog, held, process>>

\* ~Acceptor, whether it ever listened or not.
DestroyAcceptor ==
    /\ dpc = "acceptor"
    /\ acc' = RemoveChannel(DisableAll(acc))
    /\ dpc' = "baseLoop"
    /\ UNCHANGED <<startVars, poolVars, listening_, tableVars, conn, loopVars,
                   told, backlog, held, process>>

\* The base EventLoop goes and drops its functors.
DestroyBaseLoop ==
    /\ dpc = "baseLoop"
    /\ pendingFunctors_' = [pendingFunctors_ EXCEPT ![0] = <<>>]
    /\ dpc' = "done"
    /\ UNCHANGED <<startVars, poolVars, accVars, tableVars, conn, lpc, quit_, active,
                   batchVars, told, backlog, held, process>>
----------------------------------------------------------------------------
(* The end of a connection.                                                *)

\* Mutant: a functor keeps no TcpConnectionPtr.
MapReferences(c) == c \in connections_ \cup held

Referenced(c) ==
    \/ c \in connections_ \cup held
    \/ \E l \in Loops :
         \/ c \in batchHolds[l]
         \/ \E f \in ToSet(functors[l] \o pendingFunctors_[l]) : f.c = c

\* ~TcpConnection, on the thread that dropped the last TcpConnectionPtr; close()
\* takes the descriptor out of epoll and makes it free.
Destroy(c) ==
    /\ conn[c].life = "alive" /\ ~Referenced(c)
    /\ conn' = [conn EXCEPT ![c].life = "freed", ![c].chan.reg = FALSE,
                            ![c].chan.interest = {}]
    /\ UNCHANGED <<startVars, poolVars, accVars, tableVars, loopVars, dtorVars, backlog,
                   held, process>>
----------------------------------------------------------------------------
StarterStep(s) == StartIoLoop(s) \/ StartListening(s)

\* The base loop waits while a callback of it is inside start().
LoopStep(l) ==
    /\ l = 0 => spc[main] # "starting"
    /\ \/ EnterLoop(l) \/ Poll(l)
       \/ l = 0 /\ (Accept \/ AcceptNothing \/ AcceptFatal)
       \/ \E c \in Conns : conn[c].loop = l /\ HandleClose(c)
       \/ SwapFunctors(l) \/ EndFunctors(l)
       \/ l = 0 /\ (RunListen \/ RemoveConnectionInLoop)
       \/ ConnectEstablished(l) \/ ConnectDestroyed(l)

DtorStep ==
    \/ BeginDestroy
    \/ \E c \in Conns : CloseConnection(c)
    \/ AllClosed \/ QuitIoLoop \/ AllJoined \/ DestroyAcceptor \/ DestroyBaseLoop

SNext ==
    /\ process = "runs"
    /\ \/ \E s \in Starters : CallStart(s) \/ StarterStep(s)
       \/ ListenFatal
       \/ ClientConnects
       \/ \E c \in Conns : PeerLeaves(c) \/ Release(c) \/ Destroy(c)
       \/ QuitBaseLoop
       \/ \E l \in Loops : LoopStep(l)
       \/ DtorStep

SSpec == SInit /\ [][SNext]_sVars

(***************************************************************************)
(* Fairness: every thread runs when it can, the main thread calls loop(),  *)
(* and the application lets go of the connections it keeps.  Whether       *)
(* start() is called, whether clients come and go and whether the base     *)
(* loop is told to quit is left open.                                      *)
(***************************************************************************)
Going(A) == process = "runs" /\ A

MainStep == StarterStep(main) \/ LoopStep(0) \/ DtorStep

SFairSpec ==
    /\ SSpec
    /\ WF_sVars(Going(MainStep))
    /\ \A s \in Starters \ {main} : WF_sVars(Going(StarterStep(s)))
    /\ \A l \in Loops \ {0} : WF_sVars(Going(LoopStep(l)))
    /\ WF_sVars(Going(\E c \in Conns : Destroy(c)))
    /\ WF_sVars(Going(\E c \in Conns : Release(c)))
----------------------------------------------------------------------------
(* Properties.                                                             *)

\* Type invariant of the server, its loops and its connections.
STypeOK ==
    /\ started_ \in 0..Cardinality(Starters)
    /\ numThreads_ \in 0..MaxThreads /\ loops_ \in Seq(1..MaxThreads)
    /\ next_ \in Nat /\ (loops_ # <<>> => next_ < Len(loops_))
    /\ listening_ \in BOOLEAN /\ acc \in Channels
    /\ nextConnId_ \in 1..(MaxConns + 1)
    /\ connections_ \cup held \subseteq 1..(nextConnId_ - 1)
    /\ \A c \in Conns :
         /\ conn[c].life \in {"none", "alive", "freed"}
         /\ conn[c].state_ \in {"kConnecting", "kConnected", "kDisconnected"}
         /\ conn[c].chan \in Channels
         /\ conn[c].fd \in 0..MaxFds /\ conn[c].loop \in Loops
    /\ lpc \in [Loops -> LoopPc] /\ quit_ \in [Loops -> BOOLEAN]
    /\ active \in [Loops -> SUBSET (Conns \cup {Acc})]
    /\ batchHolds \in [Loops -> SUBSET Conns]
    /\ spc \in [Starters -> {"idle", "starting", "returned"}]
    /\ dpc \in DtorPc /\ told \in 0..Len(loops_) /\ backlog \in Nat
    /\ process \in {"runs", "exited", "aborted"}

\* start() listens only when startLoop has returned for every loop of the pool, each
\* once and in order, whichever threads call it: no connection is handed to a pool
\* still being filled (TcpServer::start, EventLoopThreadPool::start).
ListensAfterPoolFilled == listening_ => loops_ = [n \in 1..numThreads_ |-> n]

Assigned(l) == { c \in 1..(nextConnId_ - 1) : conn[c].loop = l }

\* "New connections are assigned on a round-robin basis" (TcpServer::setThreadNum):
\* no I/O loop is two connections ahead of another, and with I/O loops the base
\* loop gets none.
RoundRobin ==
    /\ \A l, k \in 1..numThreads_ : Cardinality(Assigned(l)) <= Cardinality(Assigned(k)) + 1
    /\ numThreads_ > 0 => Assigned(0) = {}

\* The pollers and activeChannels_ hold bare Channel pointers: each belongs to an
\* object that exists, although its descriptor may already be another connection's
\* (TcpServer::removeConnectionInLoop, TcpConnection::connectDestroyed).
NoDanglingChannel ==
    \A c \in Conns :
        c \in active[conn[c].loop] \/ (conn[c].chan.mapped /\ ~Exited(conn[c].loop))
          => conn[c].life = "alive"

\* One loop per connection: what touches a connection's channel is run by its own
\* loop, what touches connections_ by the base loop (TcpServer.h: "in loop").
FunctorsOnOwnLoop ==
    \A l \in Loops : \A f \in ToSet(functors[l] \o pendingFunctors_[l]) :
        l = IF f.fn \in {"connectEstablished", "connectDestroyed"}
            THEN conn[f.c].loop ELSE 0

\* No assert of start() or EPollPoller fails and no epoll_ctl fails, whatever
\* descriptor is used again.
NoAbort ==
    /\ process # "aborted" /\ ~acc.aborted
    /\ \A c \in Conns : ~conn[c].chan.aborted

\* The assert of ~TcpConnection, state_ == kDisconnected, however the connection and
\* its loop come to their end (TcpServer::~TcpServer, EventLoop::loop).
FreedDisconnected ==
    \A c \in Conns : conn[c].life = "freed" => conn[c].state_ = "kDisconnected"

\* A connection, as an entry of the server's table.
ServerPhase(c) ==
    IF conn[c].life # "alive" THEN conn[c].life
    ELSE CASE conn[c].cbs = <<>>             -> "made"
           [] conn[c].cbs = <<"UP">>         -> "up"
           [] conn[c].cbs = <<"UP", "DOWN">> -> "down"
           [] OTHER                          -> "reported wrongly"

CT == INSTANCE ConnectionTable WITH
        phase   <- [c \in Conns |-> ServerPhase(c)],
        listed  <- connections_,
        serving <- dpc = "no"

\* Each connection is reported as up, then as down, leaves the map, and is freed,
\* on any mixture of loops (TcpServer::newConnection, removeConnection,
\* removeConnectionInLoop, ~TcpServer).
ServerImplementsTable == CT!CTSpec

\* The base loop has been told to quit; quit() before loop() is lost, quit_ is reset.
Stopping == (quit_[0] /\ lpc[0] # "off") \/ process # "runs"

\* A call of start() makes the server listen, unless it is stopped first.
StartListens == started_ > 0 ~> (listening_ \/ Stopping)

\* A connection whose peer leaves gives its descriptor back.
LeaverFreed ==
    \A c \in Conns :
        (conn[c].life = "alive" /\ conn[c].peer = "gone") ~>
            (conn[c].life = "freed" \/ Stopping)

\* Every thread of the pool has come into loop().
PoolRuns == \A l \in 1..numThreads_ : lpc[l] \notin {"off", "started"}

\* Destroying the server ends, when the base loop is told to quit and every I/O
\* thread is inside loop() before ~TcpServer tells the first of them to quit: each
\* thread is joined, and every connection is freed once the application has let go of
\* it.  (A quit() that comes before loop() may be lost, and join() then hangs: see
\* DestructorReturns of EventLoopThread.)
DestructionFrees ==
    (Stopping /\ PoolRuns /\ told = 0) ~>
        \/ process # "runs"
        \/ dpc = "done" /\ \A c \in Conns : conn[c].life # "alive"
==============================================================================
