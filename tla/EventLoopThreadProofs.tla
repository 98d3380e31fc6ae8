----------------------- MODULE EventLoopThreadProofs -----------------------
(***************************************************************************)
(* Theorems about EventLoopThread, for every set of threads, tasks and     *)
(* channels.                                                               *)
(***************************************************************************)
EXTENDS EventLoopThread, EventLoopProofs

USE EventLoopThreadAssumption

(***************************************************************************)
(* What the pointer, the object and the semaphore have to do with the      *)
(* progress of the two threads.                                            *)
(***************************************************************************)
ThreadInv ==
    /\ opc \in OwnerPc /\ thr \in ThrPc
    /\ loop_ = IF thr = "loop" THEN "loop" ELSE "null"
    /\ alive <=> thr \in {"callback", "loop", "leave"}
    /\ opc = "new" <=> thr = "none"
    /\ thr \notin {"none", "spawned"} => tid_
    /\ sem \in 0..1
    /\ sem > 0 => tid_
    /\ thr \in {"none", "spawned", "tidset"} => sem = 0
    /\ opc \notin {"new", "semwait"} => tid_

\* No step of the owner, of the new thread or of its loop breaks ThreadInv.
LEMMA ThreadInvStep ==
  ASSUME ThreadInv, [TNext]_vars
  PROVE  ThreadInv'
<1> USE DEF ThreadInv, etVars, OwnerPc, ThrPc
<1>1. CASE OwnerStep
  BY <1>1 DEF OwnerStep, StartThread, SemWait, CheckLoop, OwnerWakeup, DtorQuit,
              DtorJoin
<1>2. CASE UseLoop \/ SpuriousWakeup \/ DtorTest
  BY <1>2 DEF UseLoop, SpuriousWakeup, DtorTest
<1>3. CASE ThreadFuncStep
  BY <1>3 DEF ThreadFuncStep, StoreTid, SemPost, ConstructLoop, Publish, InLoop,
              Unpublish, DestroyLoop
<1>4. CASE InPoll \/ Callback
  BY <1>4 DEF InPoll, Callback
<1>5. CASE UNCHANGED vars
  BY <1>5 DEF vars
<1> QED
  BY <1>1, <1>2, <1>3, <1>4, <1>5 DEF TNext

\* It holds at any time.
LEMMA ThreadInvHolds == TSpec => []ThreadInv
<1>1. TInit => ThreadInv
  BY DEF TInit, ThreadInv, OwnerPc, ThrPc
<1> QED
  BY <1>1, ThreadInvStep, PTL DEF TSpec

\* Whoever reads a non-null loop_ reads the address of an EventLoop that exists,
\* however the two threads interleave (EventLoopThread::threadFunc).
THEOREM LoopPublishedSafely == TSpec => []PublishedLoopExists
<1>1. ThreadInv => PublishedLoopExists
  BY DEF ThreadInv, PublishedLoopExists
<1> QED
  BY <1>1, ThreadInvHolds, PTL

\* Thread::start returns with tid_ stored: its assert (Thread::start).
THEOREM TidStoredFirst == TSpec => []TidKnownAfterStart
<1>1. ThreadInv => TidKnownAfterStart
  BY DEF ThreadInv, TidKnownAfterStart
<1> QED
  BY <1>1, ThreadInvHolds, PTL

\* Between its construction and its destruction the loop of the new thread is an
\* EventLoop, handed callbacks by the owner alone: what is proved of EventLoop holds
\* of it too (EventLoopThread::threadFunc, startLoop, ~EventLoopThread).
THEOREM LoopInThread == TSpec => Spec
<1>1. ASSUME [TNext]_vars PROVE [Next]_elVars
  <2>1. ASSUME NEW task \in Tasks, QueueInLoop(owner, task) PROVE Next
    BY <2>1 DEF Next, ThreadStep
  <2>2. ASSUME Quit(owner) \/ WakeupBy(owner) PROVE Next
    BY <2>2 DEF Next, ThreadStep
  <2>3. CASE OwnerStep
    BY <2>2, <2>3 DEF OwnerStep, StartThread, SemWait, CheckLoop, OwnerWakeup, DtorQuit,
                      DtorJoin
  <2>4. CASE UseLoop \/ SpuriousWakeup \/ DtorTest
    BY <2>1, <2>4 DEF UseLoop, SpuriousWakeup, DtorTest
  <2>5. CASE ThreadFuncStep
    BY <2>5 DEF ThreadFuncStep, StoreTid, SemPost, ConstructLoop, Publish, InLoop,
                Unpublish, DestroyLoop, Next
  <2>6. CASE InPoll \/ Callback
    BY <2>6 DEF InPoll, Callback, Next, UserCode
  <2>7. CASE UNCHANGED vars
    BY <2>7 DEF vars
  <2> QED
    BY <1>1, <2>3, <2>4, <2>5, <2>6, <2>7 DEF TNext
<1>2. TInit => Init
  BY DEF TInit
<1> QED
  BY <1>1, <1>2, PTL DEF TSpec, Spec

----------------------------------------------------------------------------
(***************************************************************************)
(* Until callback_ has returned nobody but the loop's own thread can reach *)
(* the loop: the owner uses it once it has read a non-null loop_.  What is *)
(* handed in by then is a ThreadInitCallback's, and nothing handed in      *)
(* later is.                                                               *)
(***************************************************************************)
InitInv ==
    /\ opc \in {"using", "quit", "join", "done", "crashed"} =>
          thr \in {"loop", "leave", "finished"}
    /\ thr \notin {"loop", "leave", "finished"} =>
          \A n \in DOMAIN Handed : Handed[n] \in InitTasks
    /\ InitCallbackFirst

\* A step of the loop leaves what it has been handed, and its order, alone: the
\* swap and the call of a functor move callbacks from one vector to the next
\* (EventLoop::doPendingFunctors).
LEMMA HandedKept ==
  ASSUME TypeOK, FunctorsLocal, LoopStep
  PROVE  Handed' = Handed
<1> USE DEF TypeOK
<1>1. CASE SwapFunctors
  <2>1. functors = <<>>
    BY <1>1 DEF SwapFunctors, FunctorsLocal, callingPendingFunctors_
  <2>2. ran \o pendingFunctors_ \in Seq(Tasks) /\ ran \o <<>> = ran
    BY ConcatProperties, ConcatEmptySeq
  <2>3. (ran \o pendingFunctors_) \o <<>> = ran \o pendingFunctors_
    BY <2>2, ConcatEmptySeq
  <2> QED
    BY <1>1, <2>1, <2>2, <2>3 DEF SwapFunctors, Handed
<1>2. CASE BeginFunctor
  <2>1. /\ functors # <<>> /\ functors' = Tail(functors)
        /\ ran' = Append(ran, Head(functors)) /\ UNCHANGED pendingFunctors_
    BY <1>2 DEF BeginFunctor
  <2>2. Head(functors) \in Tasks /\ Tail(functors) \in Seq(Tasks)
    BY <2>1, HeadTailProperties
  <2>3. Append(ran, Head(functors)) = ran \o <<Head(functors)>>
    BY <2>2, AppendIsConcat
  <2>4. /\ <<Head(functors)>> \in Seq(Tasks) /\ Len(<<Head(functors)>>) = 1
        /\ <<Head(functors)>>[1] = functors[1]
    BY <2>1, <2>2
  <2>5. functors = <<Head(functors)>> \o Tail(functors)
    <3>1. /\ Len(Tail(functors)) = Len(functors) - 1 /\ Len(functors) \in Nat
          /\ \A k \in 1..Len(Tail(functors)) : Tail(functors)[k] = functors[k + 1]
      BY <2>1, HeadTailProperties, LenProperties
    <3>2. /\ <<Head(functors)>> \o Tail(functors) \in Seq(Tasks)
          /\ Len(<<Head(functors)>> \o Tail(functors)) = Len(functors)
          /\ \A k \in 1..Len(functors) :
                (<<Head(functors)>> \o Tail(functors))[k] =
                    IF k <= 1 THEN functors[1] ELSE Tail(functors)[k - 1]
      BY <2>2, <2>4, <3>1, ConcatProperties
    <3>3. \A k \in 1..Len(functors) :
            functors[k] = (<<Head(functors)>> \o Tail(functors))[k]
      BY <3>1, <3>2
    <3> QED
      BY <3>2, <3>3, SeqEqual
  <2>6. (ran \o <<Head(functors)>>) \o Tail(functors)
          = ran \o (<<Head(functors)>> \o Tail(functors))
    BY <2>2, <2>4, ConcatAssociative
  <2> QED
    BY <2>1, <2>3, <2>5, <2>6 DEF Handed
<1>3. CASE UNCHANGED <<ran, functors, pendingFunctors_>>
  BY <1>3 DEF Handed
<1> QED
  BY <1>1, <1>2, <1>3 DEF LoopStep, EnterLoop, CheckQuit, HandleRead, BeginHandler,
     EndHandler, EndDispatch, EndFunctor, EndFunctors

\* Where push_back puts a callback in the order (EventLoop::queueInLoop).
LEMMA HandedGrows ==
  ASSUME TypeOK, NEW task \in Tasks, pendingFunctors_' = Append(pendingFunctors_, task),
         UNCHANGED <<functors, ran>>
  PROVE  /\ Len(Handed) \in Nat
         /\ DOMAIN Handed = 1..Len(Handed) /\ DOMAIN Handed' = 1..Len(Handed) + 1
         /\ \A n \in DOMAIN Handed : Handed'[n] = Handed[n]
         /\ Handed'[Len(Handed) + 1] = task
<1>1. /\ ran \in Seq(Tasks) /\ functors \in Seq(Tasks) /\ pendingFunctors_ \in Seq(Tasks)
      /\ ran \o functors \in Seq(Tasks)
  BY ConcatProperties DEF TypeOK
<1>2. Handed \in Seq(Tasks)
  BY <1>1, ConcatProperties DEF Handed
<1>3. Handed' = Append(Handed, task)
  BY <1>1, AppendToConcat DEF Handed
<1> QED
  BY <1>2, <1>3, AppendProperties, LenProperties

\* Handing in one more callback keeps InitInv: before callback_ has returned only
\* it can do so, later only others.
LEMMA HandingKeepsInit ==
  ASSUME TypeOK, InitInv, NEW task \in Tasks,
         pendingFunctors_' = Append(pendingFunctors_, task),
         UNCHANGED <<functors, ran, opc, thr>>,
         task \in InitTasks <=> thr \notin {"loop", "leave", "finished"}
  PROVE  InitInv'
<1>1. /\ Len(Handed) \in Nat
      /\ DOMAIN Handed = 1..Len(Handed) /\ DOMAIN Handed' = 1..Len(Handed) + 1
      /\ \A n \in DOMAIN Handed : Handed'[n] = Handed[n]
      /\ Handed'[Len(Handed) + 1] = task
  BY HandedGrows
<1>2. \A n \in DOMAIN Handed' : n \in DOMAIN Handed \/ n = Len(Handed) + 1
  BY <1>1
<1>3. CASE thr \notin {"loop", "leave", "finished"}
  <2>1. \A n \in DOMAIN Handed' : Handed'[n] \in InitTasks
    BY <1>1, <1>2, <1>3 DEF InitInv
  <2> QED
    BY <2>1 DEF InitInv, InitCallbackFirst
<1>4. CASE thr \in {"loop", "leave", "finished"}
  <2>1. ASSUME NEW m \in DOMAIN Handed', NEW n \in DOMAIN Handed',
               m < n, Handed'[n] \in InitTasks
        PROVE  Handed'[m] \in InitTasks
    <3>1. n \in DOMAIN Handed
      BY <1>1, <1>2, <1>4, <2>1
    <3>2. m \in DOMAIN Handed
      BY <1>1, <2>1, <3>1
    <3> QED
      BY <1>1, <2>1, <3>1, <3>2 DEF InitInv, InitCallbackFirst
  <2> QED
    BY <1>4, <2>1 DEF InitInv, InitCallbackFirst
<1> QED
  BY <1>3, <1>4

\* No step of the two threads breaks InitInv.
LEMMA InitInvStep ==
  ASSUME TypeOK, FunctorsLocal, ThreadInv, InitInv, [TNext]_vars
  PROVE  InitInv'
<1> DEFINE Running == {"loop", "leave", "finished"}
<1>1. ASSUME UNCHANGED Handed, thr \in Running => thr' \in Running,
             opc' \in {"using", "quit", "join", "done", "crashed"} => thr' \in Running
      PROVE  InitInv'
  <2>1. thr' \notin Running => thr \notin Running
    BY <1>1
  <2> QED
    BY <1>1, <2>1 DEF InitInv, InitCallbackFirst
<1>2. CASE OwnerStep
  <2>1. UNCHANGED Handed
    BY <1>2 DEF OwnerStep, StartThread, SemWait, CheckLoop, OwnerWakeup, WakeupBy, DtorQuit,
       Quit, DtorJoin, elVars, Handed
  <2> QED
    BY <1>1, <1>2, <2>1 DEF OwnerStep, StartThread, SemWait, CheckLoop, OwnerWakeup,
       DtorQuit, DtorJoin, etVars, ThreadInv, InitInv, OwnerPc, ThrPc
<1>3. CASE SpuriousWakeup \/ DtorTest
  BY <1>1, <1>3 DEF SpuriousWakeup, DtorTest, elVars, Handed, ThreadInv, InitInv, OwnerPc
<1>4. CASE UseLoop
  <2>1. PICK task \in Tasks : QueueInLoop(owner, task)
    BY <1>4 DEF UseLoop
  <2>2. thr \in Running
    BY <1>4 DEF UseLoop, InitInv
  <2> QED
    BY <1>4, <2>1, <2>2, HandingKeepsInit DEF UseLoop, QueueInLoop, etVars
<1>5. CASE ThreadFuncStep
  <2>1. CASE StoreTid \/ SemPost \/ ConstructLoop \/ Publish \/ Unpublish \/ DestroyLoop
    BY <1>1, <2>1 DEF StoreTid, SemPost, ConstructLoop, Publish, Unpublish, DestroyLoop,
       elVars, Handed, InitInv, ThreadInv, OwnerPc, ThrPc
  <2>2. CASE InLoop
    BY <1>1, <2>2, HandedKept DEF InLoop, etVars, InitInv
  <2> QED
    BY <1>5, <2>1, <2>2 DEF ThreadFuncStep
<1>6. CASE InPoll
  BY <1>1, <1>6 DEF InPoll, PollReturns, PollTimeout, Handed, etVars, InitInv
<1>7. CASE Callback
  <2>1. CASE QuitOwnLoop
    BY <1>1, <1>7, <2>1 DEF Callback, QuitOwnLoop, Handed, InitInv
  <2>2. CASE \E task \in Tasks : QueueInOwnLoop(task)
    <3>1. PICK task \in Tasks : QueueInOwnLoop(task)
      BY <2>2, Zenon
    <3>2. task \in InitTasks <=> thr \notin Running
      BY <1>7, <3>1 DEF Callback, QueueInOwnLoop
    <3> QED
      BY <1>7, <3>1, <3>2, HandingKeepsInit DEF Callback, QueueInOwnLoop
  <2> QED
    BY <1>7, <2>1, <2>2 DEF Callback
<1>8. CASE UNCHANGED vars
  BY <1>1, <1>8 DEF vars, elVars, etVars, Handed, InitInv
<1> QED
  BY <1>2, <1>3, <1>4, <1>5, <1>6, <1>7, <1>8 DEF TNext

\* Whatever a ThreadInitCallback queues runs before anything that the owner of the
\* thread, a handler or a functor queues, however the threads interleave
\* (EventLoopThread::threadFunc, startLoop, EventLoop::queueInLoop).
THEOREM InitCallbackRunsFirst == TSpec => []InitCallbackFirst
<1>1. TInit => FunctorsLocal /\ InitInv
  <2> SUFFICES ASSUME TInit PROVE FunctorsLocal /\ InitInv
    OBVIOUS
  <2>1. Handed = <<>> /\ DOMAIN Handed = {}
    BY DEF TInit, Init, Handed
  <2> QED
    BY <2>1 DEF TInit, Init, FunctorsLocal, InitInv, InitCallbackFirst
<1>2. InitInv => InitCallbackFirst
  BY DEF InitInv
<1>3. ASSUME TypeOK, FunctorsLocal, [Next]_elVars PROVE FunctorsLocal'
  BY <1>3, FunctorsLocalStep
<1> QED
  BY <1>1, <1>2, <1>3, InitInvStep, ThreadInvHolds, LoopInThread, TypeCorrect, PTL
     DEF TSpec, Spec
----------------------------------------------------------------------------
(***************************************************************************)
(* When no callback of loop() calls quit(), the loop does not stop before  *)
(* the destructor has set quit_: what a ThreadInitCallback stores there is *)
(* reset by loop().  So the destructor's two unlocked reads of loop_       *)
(* agree, it never dereferences a null pointer, and it joins.              *)
(***************************************************************************)
BeforeQuit == opc \in {"new", "semwait", "cvcheck", "waiting", "using", "quit"}

\* loop() has not stopped and will not: quit_ can only be set before it begins.
LoopGoesOn == pc # "exited" /\ (quit_ => pc = "init")

DtorInv ==
    /\ BeforeQuit => LoopGoesOn /\ thr \notin {"leave", "finished"}
    /\ opc \in {"using", "quit"} => thr = "loop"
    /\ opc # "crashed"
    /\ opc = "done" => thr = "finished"

\* Inside loop() only quit_ leads to "exited", and loop() never sets quit_.
LEMMA LoopKeepsRunning ==
  ASSUME LoopStep \/ PollReturns \/ PollTimeout, LoopGoesOn
  PROVE  LoopGoesOn'
BY DEF LoopStep, EnterLoop, CheckQuit, HandleRead, BeginHandler, EndHandler,
       EndDispatch, SwapFunctors, BeginFunctor, EndFunctor, EndFunctors,
       PollReturns, PollTimeout, LoopGoesOn

\* The history variable remembers.
LEMMA OwnQuitStays ==
  ASSUME ownQuit, [TNext]_vars
  PROVE  ownQuit'
<1> USE DEF etVars
<1>1. CASE OwnerStep
  BY <1>1 DEF OwnerStep, StartThread, SemWait, CheckLoop, OwnerWakeup, DtorQuit,
              DtorJoin
<1>2. CASE UseLoop \/ SpuriousWakeup \/ DtorTest
  BY <1>2 DEF UseLoop, SpuriousWakeup, DtorTest
<1>3. CASE ThreadFuncStep
  BY <1>3 DEF ThreadFuncStep, StoreTid, SemPost, ConstructLoop, Publish, InLoop,
              Unpublish, DestroyLoop
<1>4. CASE InPoll \/ Callback
  BY <1>4 DEF InPoll, Callback
<1>5. CASE UNCHANGED vars
  BY <1>5 DEF vars
<1> QED
  BY <1>1, <1>2, <1>3, <1>4, <1>5 DEF TNext

\* No step breaks DtorInv as long as no callback of loop() calls quit().
LEMMA DtorInvStep ==
  ASSUME ~ownQuit', ThreadInv, DtorInv, [TNext]_vars
  PROVE  DtorInv'
<1> USE DEF ThreadInv, DtorInv, BeforeQuit, etVars
<1>1. CASE OwnerStep
  <2>1. CASE StartThread \/ SemWait \/ CheckLoop
    BY <2>1 DEF StartThread, SemWait, CheckLoop, elVars, LoopGoesOn
  <2>2. CASE OwnerWakeup
    BY <2>2 DEF OwnerWakeup, WakeupBy, LoopGoesOn
  <2>3. CASE DtorQuit
    BY <2>3 DEF DtorQuit, Quit, elVars, LoopGoesOn
  <2>4. CASE DtorJoin
    BY <2>4 DEF DtorJoin, elVars, LoopGoesOn
  <2> QED
    BY <1>1, <2>1, <2>2, <2>3, <2>4 DEF OwnerStep
<1>2. CASE UseLoop
  BY <1>2 DEF UseLoop, QueueInLoop, LoopGoesOn
<1>3. CASE SpuriousWakeup \/ DtorTest
  BY <1>3 DEF SpuriousWakeup, DtorTest, elVars, LoopGoesOn
<1>4. CASE ThreadFuncStep
  <2>1. CASE StoreTid \/ SemPost \/ ConstructLoop \/ Publish
    BY <2>1 DEF StoreTid, SemPost, ConstructLoop, Publish, elVars, LoopGoesOn
  <2>2. CASE Unpublish \/ DestroyLoop
    BY <2>2 DEF Unpublish, DestroyLoop, elVars, LoopGoesOn
  <2>3. CASE InLoop
    BY <2>3, LoopKeepsRunning DEF InLoop
  <2> QED
    BY <1>4, <2>1, <2>2, <2>3 DEF ThreadFuncStep
<1>5. CASE InPoll
  BY <1>5, LoopKeepsRunning DEF InPoll
<1>6. CASE Callback
  <2>1. UNCHANGED <<opc, thr>>
    BY <1>6 DEF Callback
  <2>2. CASE \E task \in Tasks : QueueInOwnLoop(task)
    <3>1. PICK task \in Tasks : QueueInOwnLoop(task)
      BY <2>2, Zenon
    <3>2. UNCHANGED <<pc, quit_>>
      BY <3>1 DEF QueueInOwnLoop
    <3> QED
      BY <2>1, <3>2 DEF LoopGoesOn
  <2>3. CASE QuitOwnLoop /\ ownQuit' = (ownQuit \/ pc # "init")
    BY <2>1, <2>3 DEF QuitOwnLoop, LoopGoesOn
  <2> QED
    BY <1>6, <2>2, <2>3 DEF Callback
<1>7. CASE UNCHANGED vars
  BY <1>7 DEF vars, elVars, LoopGoesOn
<1> QED
  BY <1>1, <1>2, <1>3, <1>4, <1>5, <1>6, <1>7 DEF TNext

\* When ~EventLoopThread returns, the thread has ended and nothing is left that
\* could use the object, unless a callback has stopped the loop
\* (EventLoopThread::~EventLoopThread, Thread::join).
THEOREM DestructorWaits == TSpec => []DestroyedAfterThread
<1>1. TInit => ThreadInv /\ DtorInv
  BY DEF TInit, Init, ThreadInv, DtorInv, BeforeQuit, LoopGoesOn, OwnerPc, ThrPc
<1>2. /\ ThreadInv /\ (ownQuit \/ DtorInv) /\ [TNext]_vars
      => (ThreadInv /\ (ownQuit \/ DtorInv))'
  BY ThreadInvStep, DtorInvStep, OwnQuitStays
<1>3. ownQuit \/ DtorInv => DestroyedAfterThread
  BY DEF DtorInv, DestroyedAfterThread
<1> QED
  BY <1>1, <1>2, <1>3, PTL DEF TSpec
============================================================================
