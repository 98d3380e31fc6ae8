--------------------------- MODULE TcpConnection ---------------------------
(***************************************************************************)
(* One connection of a TcpServer whose I/O loop is not its main loop:      *)
(* TcpConnection.cc with its Channel, the TcpServer functions that create  *)
(* and remove it, the I/O loop that runs its handlers and functors, the    *)
(* socket, and user threads that hold a TcpConnectionPtr.                  *)
(*                                                                         *)
(* The loops are those of EventLoop.tla, seen through what is proved of    *)
(* them: queues whose functors are run once, in order.  The I/O loop keeps *)
(* its two vectors, pendingFunctors_ and the batch `functors', because a   *)
(* reference bound in a functor lives until its batch ends.                *)
(*                                                                         *)
(* Everything that only the I/O thread touches changes in one step per     *)
(* handler.  state_ is shared: a user thread's test of it and its store to *)
(* it are separate steps.  A byte is <<m, i>>, the i-th byte of message m. *)
(* The application is taken to ignore SIGPIPE, which the code leaves at    *)
(* its default, and to leave the string it passes to send() alone until    *)
(* the loop has read it.                                                   *)
(***************************************************************************)
EXTENDS Channel, Integers, Sequences, SequencesExt

CONSTANTS
    Users,            \* application threads other than the I/O thread
    Senders,          \* those that call send()
    Shutters,         \* those that call shutdown()
    Messages,         \* the messages; each is sent once
    Size,             \* the length of a message
    Callbacks,        \* those set of "writeComplete" and "highWaterMark"
    HighWaterMark,    \* highWaterMark_
    CallbackShutdown, \* TRUE if callbacks on the I/O thread call shutdown()
    ServerDies,       \* TRUE if the TcpServer may be destroyed
    MaxArrivals       \* how often data arrives from the peer

ASSUME TcpConnectionAssumption ==
    /\ Senders \subseteq Users /\ Shutters \subseteq Users
    /\ {CallbackShutdown, ServerDies} \subseteq BOOLEAN
    /\ Size \in [Messages -> Nat \ {0}]
    /\ Callbacks \subseteq {"writeComplete", "highWaterMark"}
    /\ HighWaterMark \in Nat /\ MaxArrivals \in Nat
    /\ ServerDies => Users = {}   \* users do not outlive the I/O loop

VARIABLES
    (* the TcpConnection object *)
    life,             \* "none", "alive" or "destroyed"
    state_,
    chan,             \* channel_ and its entry in the poller
    outputBuffer_,
    (* its I/O loop *)
    lpc,              \* "poll", "event", "run" or "exited"
    pendingFunctors_,
    functors,
    batchHolds,       \* a functor run in this batch binds a TcpConnectionPtr
    todo,             \* what handleEventWithGuard has still to call
    inCallback,       \* inside a user callback that may send or shut down
    (* its TcpServer and the main loop *)
    connections_,     \* the map holds the connection
    mainq,            \* queued removeConnectionInLoop functors
    server,           \* "up" or "down"
    (* the socket *)
    peer,             \* "open", "fin" or "rst": what the peer has sent
    soError,          \* SO_ERROR is set
    arrivals,         \* how often data may still arrive
    readable,         \* data waits to be read
    wrShut,           \* the write side is shut down: FIN is sent
    wire,             \* the bytes the kernel has taken
    (* the users *)
    upc,              \* where a user thread is, see UserPc
    buf,              \* the argument of a user's send()
    sent,             \* the messages passed to send()
    (* history *)
    accepted,         \* the messages sendInLoop has taken over, in order
    cbs,              \* the calls of connectionCallback_
    destroyedRuns     \* how often connectDestroyed has run

connVars   == <<life, state_, chan, outputBuffer_>>
loopVars   == <<lpc, pendingFunctors_, functors, batchHolds, todo, inCallback>>
serverVars == <<connections_, mainq, server>>
sockVars   == <<peer, soError, arrivals, readable, wrShut, wire>>
userVars   == <<upc, buf, sent>>
history    == <<accepted, cbs, destroyedRuns>>
eventRest  == <<lpc, pendingFunctors_, functors, batchHolds, inCallback>>
runRest    == <<lpc, pendingFunctors_, todo>>
queueRest  == <<lpc, functors, batchHolds, todo, inCallback>>
cVars      == <<connVars, loopVars, serverVars, sockVars, userVars, history>>

\* none        has no TcpConnectionPtr yet
\* ready       holds one
\* sending     in send(), state_ tested
\* shutLoaded  in shutdown(), state_ tested
\* shutStored  in shutdown(), kDisconnecting stored
\* gone        has released its TcpConnectionPtr
UserPc == {"none", "ready", "sending", "shutLoaded", "shutStored", "gone"}

States == {"kConnecting", "kConnected", "kDisconnecting", "kDisconnected"}

\* What std::bind makes of a member function; m is the argument of sendInLoop.
Bound(fn)    == [fn |-> fn, msg |-> ""]
BoundSend(m) == [fn |-> "sendInLoop", msg |-> m]

\* Mutant: connectDestroyed is bound to the bare pointer too.
RawDestroyed(f) == f.fn \in {"sendInLoop", "shutdownInLoop", "connectDestroyed"}

\* These bind `this', not shared_from_this().
Raw(f) == f.fn \in {"sendInLoop", "shutdownInLoop"}

Queued == functors \o pendingFunctors_

CInit ==
    /\ life = "none" /\ state_ = "kConnecting" /\ chan = NewChannel
    /\ outputBuffer_ = <<>>
    /\ lpc = "poll" /\ pendingFunctors_ = <<>> /\ functors = <<>>
    /\ batchHolds = FALSE /\ todo = {} /\ inCallback = FALSE
    /\ connections_ = FALSE /\ mainq = 0 /\ server = "up"
    /\ peer = "open" /\ soError = FALSE /\ arrivals = MaxArrivals
    /\ readable = FALSE /\ wrShut = FALSE /\ wire = <<>>
    /\ upc = [u \in Users |-> "none"] /\ buf = [u \in Users |-> ""]
    /\ sent = {}
    /\ accepted = <<>> /\ cbs = <<>> /\ destroyedRuns = 0
----------------------------------------------------------------------------
(* TcpServer, on the main loop's thread.                                   *)

\* newConnection, from the constructor of TcpConnection on.
NewConnection ==
    /\ server = "up" /\ life = "none"
    /\ life' = "alive"
    /\ connections_' = TRUE
    /\ pendingFunctors_' = Append(pendingFunctors_, Bound("connectEstablished"))
    /\ UNCHANGED <<state_, chan, outputBuffer_, queueRest, mainq, server,
                   sockVars, userVars, history>>

RemovalQueued == mainq > 0

\* Mutant: the entry stays.
KeepEntry == connections_

\* connections_.erase(conn->name())
EraseEntry == FALSE

RemoveConnectionInLoop ==
    /\ server = "up" /\ RemovalQueued
    /\ mainq' = mainq - 1
    /\ connections_' = EraseEntry
    /\ pendingFunctors_' = Append(pendingFunctors_, Bound("connectDestroyed"))
    /\ UNCHANGED <<connVars, queueRest, server, sockVars, userVars, history>>

\* The main loop has stopped, which leaves its functors where they are, and
\* ~TcpServer runs.
DestroyServer ==
    /\ ServerDies /\ server = "up"
    /\ server' = "down"
    /\ connections_' = FALSE
    /\ pendingFunctors_' =
         IF connections_ THEN Append(pendingFunctors_, Bound("connectDestroyed"))
                         ELSE pendingFunctors_
    /\ UNCHANGED <<connVars, queueRest, mainq, sockVars, userVars, history>>

\* ~EventLoopThreadPool: the I/O loop sees quit_ and goes; what is still in
\* pendingFunctors_ goes with it, and so does its epoll set.
IoLoopExits ==
    /\ server = "down" /\ lpc = "poll"
    /\ lpc' = "exited"
    /\ pendingFunctors_' = <<>>
    /\ chan' = [chan EXCEPT !.reg = FALSE]
    /\ UNCHANGED <<life, state_, outputBuffer_, functors, batchHolds, todo,
                   inCallback, serverVars, sockVars, userVars, history>>

\* ~EventLoop of the main loop drops its functors.
MainLoopDestroyed ==
    /\ lpc = "exited" /\ mainq > 0
    /\ mainq' = 0
    /\ UNCHANGED <<connVars, loopVars, connections_, server, sockVars, userVars,
                   history>>
----------------------------------------------------------------------------
(* The socket, as its peer and the kernel drive it.                        *)

DataArrives ==
    /\ life = "alive" /\ peer = "open" /\ arrivals > 0
    /\ arrivals' = arrivals - 1
    /\ readable' = TRUE
    /\ UNCHANGED <<connVars, loopVars, serverVars, peer, soError, wrShut, wire,
                   userVars, history>>

PeerCloses ==
    /\ life = "alive" /\ peer = "open"
    /\ peer' = "fin"
    /\ UNCHANGED <<connVars, loopVars, serverVars, soError, arrivals, readable,
                   wrShut, wire, userVars, history>>

PeerResets ==
    /\ life = "alive" /\ peer # "rst"
    /\ peer' = "rst"
    /\ soError' = TRUE
    /\ UNCHANGED <<connVars, loopVars, serverVars, arrivals, readable, wrShut,
                   wire, userVars, history>>

Fault == -1

\* What write() of n bytes may return.  0 stands for EWOULDBLOCK and the other
\* errors the code treats alike, Fault for EPIPE and ECONNRESET.
WriteResults(n) == IF wrShut \/ peer = "rst" THEN {Fault} ELSE 0..n

Hup == peer = "rst" \/ (peer = "fin" /\ wrShut)

\* What handleEventWithGuard may call, and what it calls before each.
Calls == {"handleClose", "handleError", "handleRead", "handleWrite"}

Earlier ==
    [handleClose |-> {}, handleError |-> {"handleClose"},
     handleRead  |-> {"handleClose", "handleError"},
     handleWrite |-> {"handleClose", "handleError", "handleRead"}]

\* What epoll reports of the socket now, as those calls; `writable' tells
\* whether the send buffer has room.
Reported(writable) ==
    LET in == "R" \in chan.interest /\ (readable \/ peer # "open")
    IN  { c \in Calls :
            \/ c = "handleClose" /\ Hup /\ ~in
            \/ c = "handleError" /\ soError
            \/ c = "handleRead"  /\ in
            \/ c = "handleWrite" /\ "W" \in chan.interest
                                 /\ (writable \/ wrShut \/ peer = "rst") }
----------------------------------------------------------------------------
(* TcpConnection's functions on the I/O thread.  Each says what becomes of *)
(* the variables it names; the actions below add the rest.                 *)

Bytes(m) == [i \in 1..Size[m] |-> <<m, i>>]

\* Mutant: writeCompleteCallback_ is called after a direct write only.
SendCallbacksWhenDirect(n) ==
    IF n = 0 /\ outputBuffer_ = <<>> /\ "writeComplete" \in Callbacks
    THEN <<Bound("writeComplete")>> ELSE <<>>

\* The callbacks sendInLoop queues when n bytes are left over.
SendCallbacks(n) ==
    LET oldLen == Len(outputBuffer_)
    IN  IF n = 0
        THEN IF "writeComplete" \in Callbacks THEN <<Bound("writeComplete")>> ELSE <<>>
        ELSE IF /\ oldLen + n >= HighWaterMark
                /\ oldLen < HighWaterMark
                /\ "highWaterMark" \in Callbacks
             THEN <<Bound("highWaterMark")>> ELSE <<>>

\* Mutant: a message is written past what is still in outputBuffer_.
WritesAlways == TRUE

\* "if no thing in output queue, try writing directly"
WritesAtOnce == ~IsWriting(chan) /\ outputBuffer_ = <<>>

\* Mutant: the rest is buffered but EPOLLOUT is not asked for.
BufferRestSilently(rest) ==
    /\ outputBuffer_' = outputBuffer_ \o rest
    /\ chan' = chan

BufferRest(rest) ==
    /\ outputBuffer_' = outputBuffer_ \o rest
    /\ chan' = IF rest # <<>> /\ ~IsWriting(chan) THEN EnableWriting(chan) ELSE chan

\* sendInLoop: outputBuffer_, chan, wire, soError, accepted, pendingFunctors_.
SendInLoop(m) ==
    IF state_ = "kDisconnected"
    THEN UNCHANGED <<outputBuffer_, chan, wire, soError, accepted, pendingFunctors_>>
    ELSE \E n \in IF WritesAtOnce THEN WriteResults(Size[m]) ELSE {0} :
           IF n = Fault
           THEN /\ soError' = FALSE
                /\ UNCHANGED <<outputBuffer_, chan, wire, accepted, pendingFunctors_>>
           ELSE /\ wire' = wire \o SubSeq(Bytes(m), 1, n)
                /\ BufferRest(SubSeq(Bytes(m), n + 1, Size[m]))
                /\ accepted' = Append(accepted, m)
                /\ pendingFunctors_' = pendingFunctors_ \o SendCallbacks(Size[m] - n)
                /\ UNCHANGED soError

\* Mutant: FIN is sent although data waits.
ShutdownAtOnce(ch) == wrShut' = TRUE

\* shutdownInLoop, with ch the channel at its call: wrShut.
ShutdownInLoop(ch) == wrShut' = (wrShut \/ ~IsWriting(ch))

\* Mutant: handleClose does not set the state.
CloseKeepsState ==
    /\ chan' = DisableAll(chan)
    /\ cbs' = Append(cbs, "DOWN")
    /\ mainq' = mainq + 1
    /\ UNCHANGED state_

\* Mutant: handleClose does not call closeCallback_.
CloseUntold ==
    /\ state_' = "kDisconnected"
    /\ chan' = DisableAll(chan)
    /\ cbs' = Append(cbs, "DOWN")
    /\ UNCHANGED mainq

\* handleClose and, through closeCallback_, TcpServer::removeConnection: state_,
\* chan, cbs, mainq.
HandleClose ==
    /\ state_' = "kDisconnected"
    /\ chan' = DisableAll(chan)
    /\ cbs' = Append(cbs, "DOWN")
    /\ mainq' = mainq + 1
----------------------------------------------------------------------------
(* The I/O loop: events.                                                   *)

\* poll returns with the channel among the active ones.  tie_.lock() succeeds:
\* see RegisteredChannelExists.
Event(writable) ==
    /\ lpc = "poll" /\ chan.reg /\ ~chan.aborted
    /\ Reported(writable) # {}
    /\ todo' = Reported(writable)
    /\ lpc' = "event"
    /\ UNCHANGED <<connVars, pendingFunctors_, functors, batchHolds, inCallback,
                   serverVars, sockVars, userVars, history>>

\* The I/O thread goes no further once the poller has aborted the process.
Calling(c) ==
    /\ ~chan.aborted /\ lpc = "event" /\ ~inCallback
    /\ c \in todo /\ Earlier[c] \cap todo = {}
    /\ todo' = todo \ {c}

OnClose ==
    /\ Calling("handleClose")
    /\ HandleClose
    /\ UNCHANGED <<life, outputBuffer_, eventRest, connections_, server,
                   sockVars, userVars, accepted, destroyedRuns>>

\* handleError: reading SO_ERROR clears it; the rest is logging.
OnError ==
    /\ Calling("handleError")
    /\ soError' = FALSE
    /\ UNCHANGED <<connVars, eventRest, serverVars, peer, arrivals, readable,
                   wrShut, wire, userVars, history>>

\* handleRead, n > 0: messageCallback_ is called last.
OnReadData ==
    /\ Calling("handleRead") /\ readable
    /\ readable' = FALSE
    /\ inCallback' = TRUE
    /\ UNCHANGED <<connVars, lpc, pendingFunctors_, functors, batchHolds,
                   serverVars, peer, soError, arrivals, wrShut, wire, userVars,
                   history>>

\* handleRead, n < 0: handleError, and the connection stays.
OnReadError ==
    /\ Calling("handleRead") /\ ~readable /\ (soError \/ peer = "open")
    /\ soError' = FALSE
    /\ UNCHANGED <<connVars, eventRest, serverVars, peer, arrivals, readable,
                   wrShut, wire, userVars, history>>

\* handleRead, n = 0.
OnReadEof ==
    /\ Calling("handleRead") /\ ~readable /\ ~soError /\ peer # "open"
    /\ HandleClose
    /\ UNCHANGED <<life, outputBuffer_, eventRest, connections_, server,
                   sockVars, userVars, accepted, destroyedRuns>>

\* Mutant: the bytes stay in outputBuffer_ after they were written.
RetrieveNothing(n) == outputBuffer_

\* Buffer::writeFd's retrieve(n).
Retrieve(n) == SubSeq(outputBuffer_, n + 1, Len(outputBuffer_))

\* Mutant: shutdown is left to shutdown() alone.
FinWhenDrainedNever(ch) == UNCHANGED wrShut

\* handleWrite once outputBuffer_ is empty.
FinWhenDrained(ch) ==
    IF state_ = "kDisconnecting" THEN ShutdownInLoop(ch) ELSE UNCHANGED wrShut

\* handleWrite with n > 0 bytes written.
OnWrite ==
    /\ Calling("handleWrite") /\ IsWriting(chan)
    /\ \E n \in WriteResults(Len(outputBuffer_)) \ {0, Fault} :
         /\ wire' = wire \o SubSeq(outputBuffer_, 1, n)
         /\ outputBuffer_' = Retrieve(n)
         /\ IF outputBuffer_' = <<>>
            THEN /\ chan' = DisableWriting(chan)
                 /\ pendingFunctors_' = pendingFunctors_ \o SendCallbacks(0)
                 /\ FinWhenDrained(chan')
            ELSE UNCHANGED <<chan, pendingFunctors_, wrShut>>
    /\ UNCHANGED <<life, state_, lpc, functors, batchHolds, inCallback,
                   serverVars, peer, soError, arrivals, readable, userVars,
                   history>>

\* handleWrite that writes nothing: the write fails, for EPIPE and ECONNRESET or
\* for a moment, or a close handled just before has ended all interest.
OnWriteNothing ==
    /\ Calling("handleWrite")
    /\ soError' = (soError /\ (IsWriting(chan) => 0 \in WriteResults(Len(outputBuffer_))))
    /\ UNCHANGED <<connVars, eventRest, serverVars, peer, arrivals, readable,
                   wrShut, wire, userVars, history>>

\* The events of this round are handled, or there was none for the connection
\* and the loop was woken up: doPendingFunctors swaps.
SwapFunctors ==
    /\ \/ lpc = "event" /\ todo = {} /\ ~inCallback
       \/ lpc = "poll" /\ pendingFunctors_ # <<>>
    /\ lpc' = "run"
    /\ functors' = pendingFunctors_
    /\ pendingFunctors_' = <<>>
    /\ UNCHANGED <<connVars, batchHolds, todo, inCallback, serverVars, sockVars,
                   userVars, history>>

EndFunctors ==
    /\ lpc = "run" /\ functors = <<>> /\ ~inCallback
    /\ lpc' = "poll"
    /\ batchHolds' = FALSE
    /\ UNCHANGED <<connVars, pendingFunctors_, functors, todo, inCallback,
                   serverVars, sockVars, userVars, history>>
----------------------------------------------------------------------------
(* The I/O loop: functors.                                                 *)

Running(fn) ==
    /\ ~chan.aborted /\ lpc = "run" /\ ~inCallback /\ functors # <<>>
    /\ Head(functors).fn = fn
    /\ functors' = Tail(functors)
    /\ batchHolds' = (batchHolds \/ ~Raw(Head(functors)))

\* Its assert holds: this is the connection's first functor.
ConnectEstablished ==
    /\ Running("connectEstablished")
    /\ state_ = "kConnecting"
    /\ state_' = "kConnected"
    /\ chan' = EnableReading(chan)
    /\ cbs' = Append(cbs, "UP")
    /\ inCallback' = TRUE
    /\ UNCHANGED <<life, outputBuffer_, runRest, serverVars, sockVars, userVars,
                   accepted, destroyedRuns>>

\* Mutant: connectDestroyed reports DOWN whatever the state.
ReportsAlways == TRUE

ReportsDown == state_ = "kConnected"

ConnectDestroyed ==
    /\ Running("connectDestroyed")
    /\ IF ReportsDown
       THEN /\ state_' = "kDisconnected"
            /\ chan' = RemoveChannel(DisableAll(chan))
            /\ cbs' = Append(cbs, "DOWN")
       ELSE /\ chan' = RemoveChannel(chan)
            /\ UNCHANGED <<state_, cbs>>
    /\ destroyedRuns' = destroyedRuns + 1
    /\ UNCHANGED <<life, outputBuffer_, runRest, inCallback, serverVars,
                   sockVars, userVars, accepted>>

\* sendInLoop as a functor.  What it does to a destroyed connection is undefined
\* and not followed.
RunSendInLoop ==
    /\ Running("sendInLoop") /\ life = "alive"
    /\ SendInLoop(Head(functors).msg)
    /\ UNCHANGED <<life, state_, lpc, todo, inCallback, serverVars, peer,
                   arrivals, readable, wrShut, userVars, cbs, destroyedRuns>>

RunShutdownInLoop ==
    /\ Running("shutdownInLoop") /\ life = "alive"
    /\ ShutdownInLoop(chan)
    /\ UNCHANGED <<connVars, runRest, inCallback, serverVars, peer, soError,
                   arrivals, readable, wire, userVars, history>>

\* writeCompleteCallback_ and highWaterMarkCallback_.
RunUserCallback ==
    /\ Running("writeComplete") \/ Running("highWaterMark")
    /\ inCallback' = TRUE
    /\ UNCHANGED <<connVars, runRest, serverVars, sockVars, userVars, history>>
----------------------------------------------------------------------------
(* User code in a callback on the I/O thread.  In the callbacks that report *)
(* DOWN, send() and shutdown() do nothing: they are not among these.        *)

CallbackSends(m) ==
    /\ inCallback /\ m \notin sent /\ state_ = "kConnected"
    /\ sent' = sent \cup {m}
    /\ SendInLoop(m)
    /\ UNCHANGED <<life, state_, queueRest, serverVars, peer, arrivals,
                   readable, wrShut, upc, buf, cbs, destroyedRuns>>

CallbackShutsDown ==
    /\ CallbackShutdown /\ inCallback /\ state_ = "kConnected"
    /\ state_' = "kDisconnecting"
    /\ ShutdownInLoop(chan)
    /\ UNCHANGED <<life, chan, outputBuffer_, loopVars, serverVars, peer,
                   soError, arrivals, readable, wire, userVars, history>>

\* The callback gives another thread a TcpConnectionPtr.
CallbackShares(u) ==
    /\ inCallback /\ upc[u] = "none"
    /\ upc' = [upc EXCEPT ![u] = "ready"]
    /\ UNCHANGED <<connVars, loopVars, serverVars, sockVars, buf, sent,
                   history>>

CallbackReturns ==
    /\ inCallback
    /\ inCallback' = FALSE
    /\ UNCHANGED <<connVars, runRest, functors, batchHolds, serverVars,
                   sockVars, userVars, history>>
----------------------------------------------------------------------------
(* User threads.                                                           *)

\* send() on another thread: the test of state_ ...
SendTests(u, m) ==
    /\ u \in Senders /\ upc[u] = "ready" /\ m \notin sent
    /\ state_ = "kConnected"
    /\ upc' = [upc EXCEPT ![u] = "sending"]
    /\ buf' = [buf EXCEPT ![u] = m]
    /\ sent' = sent \cup {m}
    /\ UNCHANGED <<connVars, loopVars, serverVars, sockVars, history>>

\* ... and runInLoop with `this' and buf.c_str() bound.
SendQueues(u) ==
    /\ upc[u] = "sending"
    /\ pendingFunctors_' = Append(pendingFunctors_, BoundSend(buf[u]))
    /\ upc' = [upc EXCEPT ![u] = "ready"]
    /\ UNCHANGED <<connVars, queueRest, serverVars, sockVars, buf, sent,
                   history>>

\* shutdown() on another thread: the test of state_, the store, runInLoop.
ShutdownTests(u) ==
    /\ u \in Shutters /\ upc[u] = "ready"
    /\ state_ = "kConnected"
    /\ upc' = [upc EXCEPT ![u] = "shutLoaded"]
    /\ UNCHANGED <<connVars, loopVars, serverVars, sockVars, buf, sent,
                   history>>

ShutdownStores(u) ==
    /\ upc[u] = "shutLoaded"
    /\ state_' = "kDisconnecting"
    /\ upc' = [upc EXCEPT ![u] = "shutStored"]
    /\ UNCHANGED <<life, chan, outputBuffer_, loopVars, serverVars, sockVars,
                   buf, sent, history>>

ShutdownQueues(u) ==
    /\ upc[u] = "shutStored"
    /\ pendingFunctors_' = Append(pendingFunctors_, Bound("shutdownInLoop"))
    /\ upc' = [upc EXCEPT ![u] = "ready"]
    /\ UNCHANGED <<connVars, queueRest, serverVars, sockVars, buf, sent,
                   history>>

\* The thread drops its TcpConnectionPtr, which it need not keep until what it
\* handed to the loop has run.
Releases(u) ==
    /\ upc[u] = "ready"
    /\ upc' = [upc EXCEPT ![u] = "gone"]
    /\ UNCHANGED <<connVars, loopVars, serverVars, sockVars, buf, sent,
                   history>>
----------------------------------------------------------------------------
(* The end of the object.                                                  *)

\* Some TcpConnectionPtr to the connection exists: in the map, bound in a
\* functor of either loop, held by handleEvent or by a user thread.
Referenced ==
    \/ connections_ \/ mainq > 0 \/ batchHolds
    \/ todo # {} \/ inCallback
    \/ \E f \in ToSet(Queued) : ~Raw(f)
    \/ \E u \in Users : upc[u] \notin {"none", "gone"}

\* ~TcpConnection, on the thread that drops the last reference.  The channel goes
\* first, then the socket, whose close() takes the fd out of the epoll set.
Destroy ==
    /\ life = "alive" /\ ~Referenced
    /\ life' = "destroyed"
    /\ chan' = [chan EXCEPT !.reg = FALSE, !.interest = {}]
    /\ UNCHANGED <<state_, outputBuffer_, loopVars, serverVars, sockVars,
                   userVars, history>>
----------------------------------------------------------------------------
IoStep ==
    \/ OnClose \/ OnError \/ OnReadData \/ OnReadError \/ OnReadEof
    \/ OnWrite \/ OnWriteNothing
    \/ SwapFunctors \/ EndFunctors
    \/ ConnectEstablished \/ ConnectDestroyed \/ RunSendInLoop
    \/ RunShutdownInLoop \/ RunUserCallback
    \/ CallbackReturns

\* A user thread inside send() or shutdown().
UserGoesOn(u) == SendQueues(u) \/ ShutdownStores(u) \/ ShutdownQueues(u)

UserStarts(u) ==
    \/ CallbackShares(u)
    \/ \E m \in Messages : SendTests(u, m)
    \/ ShutdownTests(u)

CNext ==
    \/ NewConnection \/ RemoveConnectionInLoop
    \/ DestroyServer \/ IoLoopExits \/ MainLoopDestroyed
    \/ DataArrives \/ PeerCloses \/ PeerResets
    \/ \E writable \in BOOLEAN : Event(writable)
    \/ IoStep
    \/ \E m \in Messages : CallbackSends(m)
    \/ CallbackShutsDown
    \/ \E u \in Users : UserStarts(u) \/ UserGoesOn(u) \/ Releases(u)
    \/ Destroy

CSpec == CInit /\ [][CNext]_cVars

(***************************************************************************)
(* Fairness: the I/O thread, the main thread and a user thread inside the  *)
(* library run when they can, and epoll_wait returns when there is         *)
(* something to report (EventLoop.tla shows that no timeout is needed).    *)
(* The peer reads what it is sent, so that the send buffer gets room and   *)
(* the writes of handleWrite do not fail with EAGAIN or EINTR for ever; the*)
(* application lets go of its TcpConnectionPtrs.  Once ~TcpServer has      *)
(* begun, the I/O loop is told to quit and both loops are destroyed: the   *)
(* I/O loop is taken to have entered loop() before, as a quit() that comes *)
(* earlier can be lost (EventLoopThread.tla).                              *)
(***************************************************************************)
CFairSpec ==
    /\ CSpec
    /\ WF_cVars(IoStep)
    /\ WF_cVars(Event(TRUE))
    /\ SF_cVars(OnWrite)
    /\ WF_cVars(RemoveConnectionInLoop)
    /\ WF_cVars(IoLoopExits) /\ WF_cVars(MainLoopDestroyed)
    /\ WF_cVars(Destroy)
    /\ \A u \in Users : WF_cVars(UserGoesOn(u)) /\ WF_cVars(Releases(u))
----------------------------------------------------------------------------
(* Properties.                                                             *)

Down == "DOWN" \in ToSet(cbs)

\* The byte stream: what the kernel has taken followed by what waits in
\* outputBuffer_ is the accepted messages in order, no byte lost, repeated or
\* overtaken by a direct write (TcpConnection::sendInLoop, handleWrite).
StreamInOrder ==
    wire \o outputBuffer_ =
        FlattenSeq([i \in 1..Len(accepted) |-> Bytes(accepted[i])])

\* Output never gets stuck: while the connection is up and its loop runs the
\* poller watches for EPOLLOUT exactly when bytes wait (sendInLoop, handleWrite).
WriteInterest ==
    life = "alive" /\ ~Down /\ destroyedRuns = 0 /\ lpc # "exited" =>
        (outputBuffer_ # <<>> <=> chan.reg /\ "W" \in chan.interest)

\* FIN follows the data: shutdown() on the I/O thread, or with the output
\* pending, shuts the write side only once all accepted bytes are written
\* (shutdownInLoop, handleWrite).
FinAfterData == wrShut /\ ~Down => outputBuffer_ = <<>>

\* The connection, as the one entry of a server's table.  A call of
\* connectionCallback_ that should not be there is none of its phases.
Phase ==
    IF life = "none" THEN "none"
    ELSE IF life = "destroyed" THEN "freed"
    ELSE CASE cbs = <<>>             -> "made"
           [] cbs = <<"UP">>         -> "up"
           [] cbs = <<"UP", "DOWN">> -> "down"
           [] OTHER                  -> "reported wrongly"

\* The user sees UP, then DOWN once, then the connection leaves the map, then it
\* is freed, whichever of handleClose, connectDestroyed and ~TcpServer comes first
\* (TcpConnection::handleClose, connectDestroyed, TcpServer::removeConnection).
CT == INSTANCE ConnectionTable WITH
        Conns   <- {"this"},
        phase   <- [c \in {"this"} |-> Phase],
        listed  <- IF connections_ THEN {"this"} ELSE {},
        serving <- server = "up"
ImplementsConnectionTable == CT!CTSpec

\* The poller's books are right: no assert or fatal error of EPollPoller is
\* reached, and index_ says what the kernel has registered.
PollerConsistent ==
    /\ ~chan.aborted
    /\ life = "alive" /\ lpc # "exited" => (chan.reg <=> chan.index = "kAdded")
    /\ chan.reg => chan.interest = chan.events

\* The poller and epoll hold a bare Channel pointer: a channel the poller knows
\* belongs to a connection that exists (connectDestroyed, removeChannel).
RegisteredChannelExists ==
    chan.mapped /\ lpc # "exited" => life = "alive"

\* "should be called only once" (TcpConnection.h on connectDestroyed), and only
\* once the connection is out of the map.
DestroyedOnce == destroyedRuns <= 1 /\ (destroyedRuns = 1 => ~connections_)

\* Once the object is freed nothing reaches it but sendInLoop and shutdownInLoop,
\* which bind `this': connectDestroyed, the callbacks, handleEvent and a thread
\* inside send() or shutdown() each hold a reference while they still need it
\* (TcpConnection::send, shutdown, TcpServer::removeConnectionInLoop).
OnlyThisDangles ==
    life = "destroyed" =>
        /\ todo = {} /\ ~inCallback /\ ~chan.reg
        /\ \A f \in ToSet(Queued) : f.fn \in {"sendInLoop", "shutdownInLoop"}
        /\ \A u \in Users : upc[u] \in {"none", "gone"}

\* The assert of ~TcpConnection, state_ == kDisconnected, while the server lives.
DestructorAssert ==
    life = "destroyed" /\ server = "up" => state_ = "kDisconnected"

\* The same assert for a connection that connectDestroyed, the last member
\* function called, has been run on.
DestroyedDisconnected ==
    life = "destroyed" /\ destroyedRuns > 0 => state_ = "kDisconnected"

\* A functor runs on an object that exists: enable_shared_from_this is there to
\* keep it alive during asynchronous calls (README.md).
RunsOnLiveObject ==
    lpc = "run" /\ functors # <<>> => life = "alive"

\* A connection whose peer closes or resets it is torn down and freed: handler,
\* main loop, connectDestroyed, destructor, or whatever ~TcpServer leaves of these.
PeerGoneFreed == (life = "alive" /\ peer # "open") ~> life = "destroyed"

\* shutdown() takes effect: FIN is sent once the output has drained, unless the
\* connection or the server goes down first.
ShutdownCompletes == state_ = "kDisconnecting" ~> (wrShut \/ Down \/ server = "down")

\* writeCompleteCallback_ is called once the output has drained, however many
\* calls of handleWrite that takes, unless the connection or the server goes down
\* first (handleWrite, sendInLoop).
WriteCompleteFollows ==
    "writeComplete" \in Callbacks =>
        (outputBuffer_ # <<>>
            ~> (Bound("writeComplete") \in ToSet(Queued) \/ Down \/ server = "down"))
============================================================================
