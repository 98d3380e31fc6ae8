----------------------------- MODULE EventLoop -----------------------------
(***************************************************************************)
(* One EventLoop object (EventLoop.h, EventLoop.cc): the thread that owns  *)
(* it and runs loop(), and the other threads, which hand it callbacks with *)
(* runInLoop / queueInLoop and may stop it with quit().                    *)
(*                                                                         *)
(* Steps are cut where another thread can see the difference: the push     *)
(* under mutex_ is one step and the write to wakeupFd_ that follows it is  *)
(* another; storing quit_ is one step and its wakeup() another.            *)
(* callingPendingFunctors_ is read by the loop thread only (the test       *)
(* !isInLoopThread() short-circuits it elsewhere), so it is written        *)
(* together with the step next to it.                                      *)
(*                                                                         *)
(* runInLoop(cb) needs no action of its own: on another thread it is       *)
(* queueInLoop(cb), and on the loop thread it calls cb on the spot, so cb  *)
(* is more of the user code that is running.                               *)
(***************************************************************************)
EXTENDS Integers, Sequences, Functions

CONSTANTS
    Threads,          \* the threads other than the loop's own
    Tasks,            \* the callbacks (Functor objects) handed to the loop
    InitTasks,        \* those queued by the loop thread before it calls loop(),
                      \* e.g. by a ThreadInitCallback
    IOChannels,       \* the channels registered besides the wakeup channel
    wakeupChannel_,   \* the channel of wakeupFd_
    MaxCount,         \* the largest value of the eventfd's counter
    QuitBeforeLoop    \* TRUE if quit() may be called before loop() is entered

ASSUME EventLoopAssumption ==
    /\ InitTasks \subseteq Tasks
    /\ wakeupChannel_ \notin IOChannels
    /\ MaxCount \in Nat \ {0}
    /\ QuitBeforeLoop \in BOOLEAN

VARIABLES
    pc,                 \* where the loop thread is, see LoopPc
    quit_,
    pendingFunctors_,   \* guarded by mutex_
    functors,           \* doPendingFunctors' local vector, what is left of it
    activeChannels_,    \* those not handled yet
    counter,            \* the counter of the eventfd behind wakeupFd_
    tpc,                \* the other threads: inside wakeup() or elsewhere
    ran                 \* history: the callbacks doPendingFunctors has started

elVars == <<pc, quit_, pendingFunctors_, functors, activeChannels_, counter,
            tpc, ran>>

\* init      constructed, loop() not entered; the thread runs user code
\* check     at the test of while(!quit_)
\* poll      inside poller_->poll
\* dispatch  in the loop over activeChannels_
\* handler   inside the callback of a channel (user code)
\* swap      entering doPendingFunctors
\* run       in the loop over functors
\* functor   inside a functor (user code)
\* exited    loop() has returned
LoopPc == {"init", "check", "poll", "dispatch", "handler", "swap", "run",
           "functor", "exited"}

callingPendingFunctors_ == pc \in {"run", "functor"}

\* The loop thread is executing a callback, which may use the loop's interface.
InUserCode == pc \in {"init", "handler", "functor"}

Init ==
    /\ pc = "init"
    /\ quit_ = FALSE
    /\ pendingFunctors_ = <<>>
    /\ functors = <<>>
    /\ activeChannels_ = {}
    /\ counter = 0
    /\ tpc = [t \in Threads |-> "idle"]
    /\ ran = <<>>
----------------------------------------------------------------------------
(* wakeup() and handleRead(): the eventfd.                                 *)

\* write(wakeupFd_, 1): on a non-blocking eventfd a write that would take the
\* counter past its limit fails with EAGAIN, and wakeup() only logs that.
AddOne(c) == IF c < MaxCount THEN c + 1 ELSE c

\* The second half of queueInLoop and of quit() on a thread t # loop thread.
WakeupBy(t) ==
    /\ tpc[t] = "wakeup"
    /\ counter' = AddOne(counter)
    /\ tpc' = [tpc EXCEPT ![t] = "idle"]
    /\ UNCHANGED <<pc, quit_, pendingFunctors_, functors, activeChannels_, ran>>

\* The wakeup channel's read callback: the read returns the counter and
\* clears it, however many writes it stands for.
HandleRead ==
    /\ pc = "dispatch"
    /\ wakeupChannel_ \in activeChannels_
    /\ counter' = 0
    /\ activeChannels_' = activeChannels_ \ {wakeupChannel_}
    /\ UNCHANGED <<pc, quit_, pendingFunctors_, functors, tpc, ran>>
----------------------------------------------------------------------------
(* queueInLoop and quit.                                                   *)

\* A Functor object is queued at most once.
Fresh(task) == task \notin Range(ran \o functors \o pendingFunctors_)

\* Mutant: the loop thread never wakes itself.
NeedsWakeupOthersOnly(inLoopThread) == ~inLoopThread

NeedsWakeup(inLoopThread) == ~inLoopThread \/ callingPendingFunctors_

\* runInLoop or queueInLoop on another thread: push under the lock, then be
\* about to call wakeup().
QueueInLoop(t, task) ==
    /\ tpc[t] = "idle"
    /\ Fresh(task)
    /\ task \notin InitTasks
    /\ pendingFunctors_' = Append(pendingFunctors_, task)
    /\ tpc' = [tpc EXCEPT ![t] = IF NeedsWakeup(FALSE) THEN "wakeup" ELSE "idle"]
    /\ UNCHANGED <<pc, quit_, functors, activeChannels_, counter, ran>>

\* queueInLoop on the loop thread, from user code.  The loop thread is not in
\* poll, so nobody can tell its push from its wakeup().
QueueInOwnLoop(task) ==
    /\ InUserCode
    /\ Fresh(task)
    /\ task \in InitTasks <=> pc = "init"
    /\ pendingFunctors_' = Append(pendingFunctors_, task)
    /\ counter' = IF NeedsWakeup(TRUE) THEN AddOne(counter) ELSE counter
    /\ UNCHANGED <<pc, quit_, functors, activeChannels_, tpc, ran>>

\* Mutant: quit() without its wakeup().
QuitWithoutWakeup(t) ==
    /\ tpc[t] = "idle"
    /\ pc = "init" => QuitBeforeLoop
    /\ quit_' = TRUE
    /\ UNCHANGED <<pc, pendingFunctors_, functors, activeChannels_, counter,
                   tpc, ran>>

\* quit() on another thread.
Quit(t) ==
    /\ tpc[t] = "idle"
    /\ pc = "init" => QuitBeforeLoop
    /\ quit_' = TRUE
    /\ tpc' = [tpc EXCEPT ![t] = "wakeup"]
    /\ UNCHANGED <<pc, pendingFunctors_, functors, activeChannels_, counter, ran>>

\* quit() on the loop thread, from user code: no wakeup.
QuitOwnLoop ==
    /\ InUserCode
    /\ pc = "init" => QuitBeforeLoop
    /\ quit_' = TRUE
    /\ UNCHANGED <<pc, pendingFunctors_, functors, activeChannels_, counter,
                   tpc, ran>>
----------------------------------------------------------------------------
(* loop() and doPendingFunctors().                                         *)

\* loop() is entered.
EnterLoop ==
    /\ pc = "init"
    /\ pc' = "check"
    /\ quit_' = FALSE
    /\ UNCHANGED <<pendingFunctors_, functors, activeChannels_, counter, tpc, ran>>

CheckQuit ==
    /\ pc = "check"
    /\ pc' = IF quit_ THEN "exited" ELSE "poll"
    /\ activeChannels_' = {}
    /\ UNCHANGED <<quit_, pendingFunctors_, functors, counter, tpc, ran>>

\* The channels that can be ready: the wakeup channel exactly when its counter
\* is not 0 (EPOLLIN, level-triggered), the others as their peers please.
Ready == IOChannels \cup (IF counter > 0 THEN {wakeupChannel_} ELSE {})

\* epoll_wait returns some of the ready channels: the event array may be too
\* short for all of them.
PollReturns ==
    /\ pc = "poll"
    /\ \E active \in SUBSET Ready :
         /\ active # {}
         /\ activeChannels_' = active
    /\ pc' = "dispatch"
    /\ UNCHANGED <<quit_, pendingFunctors_, functors, counter, tpc, ran>>

\* epoll_wait gives up after kPollTimeMs, or with EINTR: no active channel.
PollTimeout ==
    /\ pc = "poll"
    /\ counter = 0
    /\ pc' = "dispatch"
    /\ UNCHANGED <<quit_, pendingFunctors_, functors, activeChannels_, counter,
                   tpc, ran>>

BeginHandler(ch) ==
    /\ pc = "dispatch"
    /\ ch \in activeChannels_ \ {wakeupChannel_}
    /\ activeChannels_' = activeChannels_ \ {ch}
    /\ pc' = "handler"
    /\ UNCHANGED <<quit_, pendingFunctors_, functors, counter, tpc, ran>>

EndHandler ==
    /\ pc = "handler"
    /\ pc' = "dispatch"
    /\ UNCHANGED <<quit_, pendingFunctors_, functors, activeChannels_, counter,
                   tpc, ran>>

EndDispatch ==
    /\ pc = "dispatch"
    /\ activeChannels_ = {}
    /\ pc' = "swap"
    /\ UNCHANGED <<quit_, pendingFunctors_, functors, activeChannels_, counter,
                   tpc, ran>>

\* Mutant: the pending callbacks are copied, not swapped out.
CopyFunctors ==
    /\ pc = "swap"
    /\ functors' = pendingFunctors_
    /\ pc' = "run"
    /\ UNCHANGED <<quit_, pendingFunctors_, activeChannels_, counter, tpc, ran>>

\* callingPendingFunctors_ = true, then the swap under mutex_.
SwapFunctors ==
    /\ pc = "swap"
    /\ functors' = pendingFunctors_
    /\ pendingFunctors_' = <<>>
    /\ pc' = "run"
    /\ UNCHANGED <<quit_, activeChannels_, counter, tpc, ran>>

\* Mutant: one callback per iteration, the rest of the vector is dropped.
BeginFunctorDropRest ==
    /\ pc = "run"
    /\ functors # <<>>
    /\ ran' = Append(ran, Head(functors))
    /\ functors' = <<>>
    /\ pc' = "functor"
    /\ UNCHANGED <<quit_, pendingFunctors_, activeChannels_, counter, tpc>>

BeginFunctor ==
    /\ pc = "run"
    /\ functors # <<>>
    /\ ran' = Append(ran, Head(functors))
    /\ functors' = Tail(functors)
    /\ pc' = "functor"
    /\ UNCHANGED <<quit_, pendingFunctors_, activeChannels_, counter, tpc>>

EndFunctor ==
    /\ pc = "functor"
    /\ pc' = "run"
    /\ UNCHANGED <<quit_, pendingFunctors_, functors, activeChannels_, counter,
                   tpc, ran>>

\* callingPendingFunctors_ = false, back to the test of quit_.
EndFunctors ==
    /\ pc = "run"
    /\ functors = <<>>
    /\ pc' = "check"
    /\ UNCHANGED <<quit_, pendingFunctors_, functors, activeChannels_, counter,
                   tpc, ran>>
----------------------------------------------------------------------------
\* The steps the loop thread takes by itself: what loop() does between the
\* callbacks, and the callbacks' returns.
LoopStep ==
    \/ EnterLoop
    \/ CheckQuit
    \/ HandleRead
    \/ \E ch \in IOChannels : BeginHandler(ch)
    \/ EndHandler
    \/ EndDispatch
    \/ SwapFunctors
    \/ BeginFunctor
    \/ EndFunctor
    \/ EndFunctors

UserCode ==
    \/ \E task \in Tasks : QueueInOwnLoop(task)
    \/ QuitOwnLoop

ThreadStep(t) ==
    \/ \E task \in Tasks : QueueInLoop(t, task)
    \/ Quit(t)
    \/ WakeupBy(t)

Next ==
    \/ LoopStep
    \/ PollReturns
    \/ PollTimeout
    \/ UserCode
    \/ \E t \in Threads : ThreadStep(t)

Spec == Init /\ [][Next]_elVars

(***************************************************************************)
(* Fairness: a thread that can run does run.  Callbacks return.  A thread  *)
(* inside queueInLoop or quit() reaches the write of its wakeup(), and     *)
(* epoll_wait returns while the wakeup channel is readable.  Nothing is    *)
(* assumed of the 10-second timeout, of I/O events or of what user code    *)
(* chooses to do.                                                          *)
(***************************************************************************)
Fairness ==
    /\ WF_elVars(LoopStep)
    /\ WF_elVars(counter > 0 /\ PollReturns)
    /\ \A t \in Threads : WF_elVars(WakeupBy(t))

FairSpec == Spec /\ Fairness
----------------------------------------------------------------------------
(* Properties.                                                             *)

\* The types of the variables: what the theorems start from.
TypeOK ==
    /\ pc \in LoopPc
    /\ quit_ \in BOOLEAN
    /\ pendingFunctors_ \in Seq(Tasks)
    /\ functors \in Seq(Tasks)
    /\ activeChannels_ \subseteq IOChannels \cup {wakeupChannel_}
    /\ counter \in 0..MaxCount
    /\ tpc \in [Threads -> {"idle", "wakeup"}]
    /\ ran \in Seq(Tasks)

\* poll will return: the wakeup channel is readable or about to become so.
WakeupComing == counter > 0 \/ \E t \in Threads : tpc[t] = "wakeup"

\* Some callback other than those queued before loop() is waiting.
PostedTaskWaits ==
    \E i \in DOMAIN pendingFunctors_ : pendingFunctors_[i] \notin InitTasks

\* The loop thread never blocks in poll while a callback handed to it by
\* another thread, by a handler or by a functor waits, unless a wakeup is under
\* way: queueInLoop's test "!isInLoopThread() || callingPendingFunctors_" is
\* enough (EventLoop::queueInLoop, doPendingFunctors).
NoLostWakeup == pc = "poll" /\ PostedTaskWaits => WakeupComing

\* The loop thread never blocks in poll after quit() without a wakeup under
\* way, although quit() on the loop thread skips it (EventLoop::quit, loop).
NoLostQuit == pc = "poll" /\ quit_ => WakeupComing

\* The loop delivers what TaskQueue promises: every callback that is queued is
\* started at most once, in queue order, and none is lost before the loop stops
\* (EventLoop::queueInLoop, doPendingFunctors' swap).
TQ == INSTANCE TaskQueue WITH
        queue <- functors \o pendingFunctors_,
        open  <- pc # "exited"
ImplementsTaskQueue == TQ!TQSpec

\* Every callback queued by another thread, a handler or a functor is started,
\* unless the loop stops, and without help from the timeout of poll
\* (EventLoop::queueInLoop, wakeup, loop).
TasksRun ==
    \A task \in Tasks \ InitTasks :
        task \in Range(functors \o pendingFunctors_)
            ~> (task \in Range(ran) \/ pc = "exited")

\* Once quit_ is set in a loop() that has been entered the loop stops: "closing
\* an EventLoop from another thread works well" (comment of EventLoop::quit).
QuitStops == (quit_ /\ pc # "init") ~> pc = "exited"
============================================================================
