-------------------------- MODULE EventLoopThread --------------------------
(***************************************************************************)
(* A thread with an EventLoop on its stack: Thread (Thread.cc),            *)
(* EventLoopThread (EventLoopThread.cc) and the EventLoop of EventLoop.tla *)
(* between its construction and its destruction.  `owner' is the thread    *)
(* that creates the EventLoopThread, calls startLoop() and later destroys  *)
(* it: EventLoopThreadPool's thread.                                       *)
(*                                                                         *)
(* The critical sections under EventLoopThread::mutex_ are one step each.  *)
(* The destructor reads loop_ without the lock, once for its test and once *)
(* more to call quit(): those reads are steps of their own.                *)
(***************************************************************************)
EXTENDS EventLoop

CONSTANT owner    \* the thread that owns the EventLoopThread

ASSUME EventLoopThreadAssumption == owner \in Threads

VARIABLES
    opc,          \* where the owner is, see OwnerPc
    thr,          \* where the new thread is, see ThrPc
    loop_,        \* EventLoopThread::loop_: "null" or "loop"
    sem,          \* the semaphore of Thread::start
    tid_,         \* Thread::tid_ has been stored
    alive,        \* the EventLoop object exists
    ownQuit       \* history: a callback of loop() has called quit() on its own loop

etVars == <<opc, thr, loop_, sem, tid_, alive, ownQuit>>
vars == <<elVars, etVars>>

\* new      the EventLoopThread is constructed
\* semwait  in Thread::start, the std::thread created, at sem_wait
\* cvcheck  in startLoop, about to take mutex_ and test loop_
\* waiting  in startLoop, inside cv_.wait
\* using    startLoop has returned; the loop's pointer is in use
\* quit     in the destructor, having seen loop_ # nullptr
\* join     in the destructor, past the store of quit_: wakeup(), then join()
\* done     the EventLoopThread is destroyed
\* crashed  the destructor has dereferenced a null loop_
OwnerPc == {"new", "semwait", "cvcheck", "waiting", "using", "quit", "join",
            "done", "crashed"}

\* none      not created
\* spawned   in the lambda of Thread::start, tid_ not stored
\* tidset    tid_ stored, before sem_post
\* func      in threadFunc, before the EventLoop's constructor
\* callback  EventLoop constructed, inside callback_
\* loop      loop_ published; in loop.loop() or just returned from it
\* leave     loop_ cleared, the EventLoop not yet destroyed
\* finished  the thread has ended
ThrPc == {"none", "spawned", "tidset", "func", "callback", "loop", "leave",
          "finished"}

TInit ==
    /\ Init
    /\ opc = "new"
    /\ thr = "none"
    /\ loop_ = "null"
    /\ sem = 0
    /\ tid_ = FALSE
    /\ alive = FALSE
    /\ ownQuit = FALSE
----------------------------------------------------------------------------
(* The owner: startLoop().                                                 *)

\* thread_.start(): the std::thread comes to life.
StartThread ==
    /\ opc = "new"
    /\ opc' = "semwait"
    /\ thr' = "spawned"
    /\ UNCHANGED <<elVars, loop_, sem, tid_, alive, ownQuit>>

SemWait ==
    /\ opc = "semwait"
    /\ sem > 0
    /\ sem' = sem - 1
    /\ opc' = "cvcheck"
    /\ UNCHANGED <<elVars, thr, loop_, tid_, alive, ownQuit>>

\* while(loop_ == nullptr) cv_.wait(lock): the test and the going to sleep are
\* one critical section.
CheckLoop ==
    /\ opc = "cvcheck"
    /\ opc' = IF loop_ = "null" THEN "waiting" ELSE "using"
    /\ UNCHANGED <<elVars, thr, loop_, sem, tid_, alive, ownQuit>>

\* A condition variable may wake up for no reason.
SpuriousWakeup ==
    /\ opc = "waiting"
    /\ opc' = "cvcheck"
    /\ UNCHANGED <<elVars, thr, loop_, sem, tid_, alive, ownQuit>>

\* The owner hands the loop a callback.
UseLoop ==
    /\ opc = "using"
    /\ \E task \in Tasks : QueueInLoop(owner, task)
    /\ UNCHANGED etVars

\* The write that ends the owner's queueInLoop or quit().
OwnerWakeup ==
    /\ WakeupBy(owner)
    /\ UNCHANGED etVars
----------------------------------------------------------------------------
(* The owner: ~EventLoopThread.                                            *)

\* if(loop_ != nullptr), read without the lock.  When the thread has left its
\* loop already there is no join: ~Thread detaches it.
DtorTest ==
    /\ opc = "using"
    /\ tpc[owner] = "idle"
    /\ opc' = IF loop_ = "null" THEN "done" ELSE "quit"
    /\ UNCHANGED <<elVars, thr, loop_, sem, tid_, alive, ownQuit>>

\* loop_->quit() up to the store of quit_; loop_ is read again.
DtorQuit ==
    /\ opc = "quit"
    /\ \/ /\ loop_ # "null"
          /\ Quit(owner)
          /\ opc' = "join"
       \/ /\ loop_ = "null"
          /\ opc' = "crashed"
          /\ UNCHANGED elVars
    /\ UNCHANGED <<thr, loop_, sem, tid_, alive, ownQuit>>

\* Mutant: the destructor does not wait for the thread.
DtorNoJoin ==
    /\ opc = "join"
    /\ tpc[owner] = "idle"
    /\ opc' = "done"
    /\ UNCHANGED <<elVars, thr, loop_, sem, tid_, alive, ownQuit>>

DtorJoin ==
    /\ opc = "join"
    /\ tpc[owner] = "idle"
    /\ thr = "finished"
    /\ opc' = "done"
    /\ UNCHANGED <<elVars, thr, loop_, sem, tid_, alive, ownQuit>>

OwnerStep ==
    StartThread \/ SemWait \/ CheckLoop \/ OwnerWakeup \/ DtorQuit \/ DtorJoin
----------------------------------------------------------------------------
(* The new thread: the lambda of Thread::start, then threadFunc.           *)

\* Mutant: the new thread leaves tid_ for later.
SkipStoreTid ==
    /\ thr = "spawned"
    /\ thr' = "tidset"
    /\ UNCHANGED <<elVars, opc, loop_, sem, tid_, alive, ownQuit>>

StoreTid ==
    /\ thr = "spawned"
    /\ thr' = "tidset"
    /\ tid_' = TRUE
    /\ UNCHANGED <<elVars, opc, loop_, sem, alive, ownQuit>>

SemPost ==
    /\ thr = "tidset"
    /\ thr' = "func"
    /\ sem' = sem + 1
    /\ UNCHANGED <<elVars, opc, loop_, tid_, alive, ownQuit>>

\* Mutant: the loop is published as soon as it is constructed.
PublishAtConstruction ==
    /\ thr = "func"
    /\ thr' = "callback"
    /\ alive' = TRUE
    /\ loop_' = "loop"
    /\ opc' = IF opc = "waiting" THEN "cvcheck" ELSE opc
    /\ UNCHANGED <<elVars, sem, tid_, ownQuit>>

ConstructLoop ==
    /\ thr = "func"
    /\ thr' = "callback"
    /\ alive' = TRUE
    /\ UNCHANGED <<elVars, opc, loop_, sem, tid_, ownQuit>>

\* Mutant: nobody is notified.
PublishSilently ==
    /\ thr = "callback"
    /\ thr' = "loop"
    /\ loop_' = "loop"
    /\ UNCHANGED <<elVars, opc, sem, tid_, alive, ownQuit>>

\* callback_ has returned: loop_ = &loop and notify_one under mutex_.
Publish ==
    /\ thr = "callback"
    /\ thr' = "loop"
    /\ loop_' = "loop"
    /\ opc' = IF opc = "waiting" THEN "cvcheck" ELSE opc
    /\ UNCHANGED <<elVars, sem, tid_, alive, ownQuit>>

\* Mutant: the EventLoop goes out of scope before loop_ is cleared.
DestroyBeforeUnpublish ==
    /\ thr = "loop"
    /\ pc = "exited"
    /\ thr' = "leave"
    /\ alive' = FALSE
    /\ UNCHANGED <<elVars, opc, loop_, sem, tid_, ownQuit>>

\* loop.loop() has returned: loop_ = nullptr under mutex_.
Unpublish ==
    /\ thr = "loop"
    /\ pc = "exited"
    /\ thr' = "leave"
    /\ loop_' = "null"
    /\ UNCHANGED <<elVars, opc, sem, tid_, alive, ownQuit>>

\* threadFunc returns: ~EventLoop, and the thread ends.
DestroyLoop ==
    /\ thr = "leave"
    /\ thr' = "finished"
    /\ alive' = FALSE
    /\ UNCHANGED <<elVars, opc, loop_, sem, tid_, ownQuit>>

\* The loop thread inside loop.loop().
InLoop ==
    /\ thr = "loop"
    /\ LoopStep
    /\ UNCHANGED etVars

\* What may happen to the loop thread from outside, and in the callbacks.
InPoll ==
    /\ thr = "loop"
    /\ PollReturns \/ PollTimeout
    /\ UNCHANGED etVars

Callback ==
    /\ IF pc = "init" THEN thr = "callback" ELSE thr = "loop"
    /\ \/ /\ \E task \in Tasks : QueueInOwnLoop(task)
          /\ UNCHANGED ownQuit
       \/ /\ QuitOwnLoop
          /\ ownQuit' = (ownQuit \/ pc # "init")
    /\ UNCHANGED <<opc, thr, loop_, sem, tid_, alive>>

ThreadFuncStep ==
    \/ StoreTid \/ SemPost \/ ConstructLoop \/ Publish \/ InLoop
    \/ Unpublish \/ DestroyLoop
----------------------------------------------------------------------------
TNext ==
    \/ OwnerStep \/ UseLoop \/ SpuriousWakeup \/ DtorTest
    \/ ThreadFuncStep \/ InPoll \/ Callback

TSpec == TInit /\ [][TNext]_vars

(***************************************************************************)
(* Fairness: both threads run when they can; epoll_wait returns while the  *)
(* wakeup channel is readable.  Whether and when the owner destroys the    *)
(* EventLoopThread is its own choice, spurious wake-ups and the timeout of *)
(* poll are not relied on.                                                 *)
(***************************************************************************)
TFairSpec ==
    /\ TSpec
    /\ WF_vars(OwnerStep)
    /\ WF_vars(ThreadFuncStep)
    /\ WF_vars(counter > 0 /\ InPoll)
----------------------------------------------------------------------------
(* Properties.                                                             *)

\* Whoever reads a non-null loop_ reads the address of an EventLoop that
\* exists: it is published after construction and withdrawn before
\* destruction (EventLoopThread::threadFunc), also when the loop stops by
\* itself.
PublishedLoopExists == loop_ = "loop" => alive

\* What the loop has been handed, in the order in which it is or will be run.
Handed == ran \o functors \o pendingFunctors_

\* The ThreadInitCallback comes first: startLoop() hands out the loop's address
\* only once callback_ has returned, so whatever callback_ queued runs before
\* anything the owner, a handler or a functor queues
\* (EventLoopThread::threadFunc, startLoop).
InitCallbackFirst ==
    \A m, n \in DOMAIN Handed :
        m < n /\ Handed[n] \in InitTasks => Handed[m] \in InitTasks

\* Thread::start does not return before tid_ is known: its assert(tid_ > 0).
TidKnownAfterStart ==
    opc \notin {"new", "semwait"} => tid_

\* Destroying the EventLoopThread waits for the thread: when the destructor
\* returns nothing of the thread is left that could use the object (its mutex_
\* in particular), and its two reads of loop_ agree, unless a callback has
\* stopped the loop (EventLoopThread::~EventLoopThread).
DestroyedAfterThread ==
    ~ownQuit => opc # "crashed" /\ (opc = "done" => thr = "finished")

\* startLoop returns: the condition variable's wake-up cannot be missed. Only a
\* loop that stops itself before startLoop looks leaves it waiting
\* (EventLoopThread::startLoop, threadFunc).
StartLoopReturns == opc = "new" ~> (opc = "using" \/ ownQuit)

\* Once the loop is running, quit() from the destructor ends it and join()
\* returns, whatever the loop is doing at that moment.
JoinReturns == (opc = "join" /\ quit_ /\ pc # "init") ~> opc = "done"

\* Setting quit_ from another thread ends the loop's thread safely (README.md
\* on quit_, comment of EventLoop::quit): when nobody else stops the loop, the
\* destructor returns.
DestructorReturns == opc = "quit" ~> (opc = "done" \/ ownQuit)
============================================================================
