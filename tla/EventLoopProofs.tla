-------------------------- MODULE EventLoopProofs --------------------------
(***************************************************************************)
(* Theorems about EventLoop, for every set of threads, tasks and channels. *)
(***************************************************************************)
EXTENDS EventLoop, SequenceTheorems, TLAPS

USE EventLoopAssumption

\* Every variable keeps its type; in particular the eventfd's counter stays
\* within its limit, because a write at the limit fails (EventLoop::wakeup).
LEMMA TypeCorrect == Spec => []TypeOK
<1>1. Init => TypeOK
  <2> SUFFICES ASSUME Init
               PROVE  TypeOK
    OBVIOUS
  <2>1. counter \in 0..MaxCount
    BY DEF Init
  <2>2. tpc \in [Threads -> {"idle", "wakeup"}]
    BY DEF Init
  <2>3. pendingFunctors_ \in Seq(Tasks) /\ functors \in Seq(Tasks) /\ ran \in Seq(Tasks)
    BY EmptySeq DEF Init
  <2>4. quit_ \in BOOLEAN /\ pc \in LoopPc
    BY DEF Init, LoopPc
  <2> QED
    BY <2>1, <2>2, <2>3, <2>4 DEF Init, TypeOK
<1>2. TypeOK /\ [Next]_elVars => TypeOK'
  <2> SUFFICES ASSUME TypeOK, [Next]_elVars
               PROVE  TypeOK'
    OBVIOUS
  <2> USE DEF TypeOK, LoopPc
  <2>1. CASE LoopStep
    <3>1. CASE EnterLoop
      BY <3>1 DEF EnterLoop
    <3>2. CASE CheckQuit
      BY <3>2 DEF CheckQuit
    <3>3. CASE HandleRead
      BY <3>3 DEF HandleRead
    <3>4. CASE \E ch \in IOChannels : BeginHandler(ch)
      BY <3>4 DEF BeginHandler
    <3>5. CASE EndHandler
      BY <3>5 DEF EndHandler
    <3>6. CASE EndDispatch
      BY <3>6 DEF EndDispatch
    <3>7. CASE SwapFunctors
      BY <3>7 DEF SwapFunctors
    <3>8. CASE BeginFunctor
      <4>1. ran' \in Seq(Tasks) /\ functors' \in Seq(Tasks)
        BY <3>8, HeadTailProperties, AppendProperties DEF BeginFunctor
      <4> QED
        BY <3>8, <4>1 DEF BeginFunctor
    <3>9. CASE EndFunctor
      BY <3>9 DEF EndFunctor
    <3>10. CASE EndFunctors
      BY <3>10 DEF EndFunctors
    <3> QED
      BY <2>1, <3>1, <3>2, <3>3, <3>4, <3>5, <3>6, <3>7, <3>8, <3>9, <3>10
         DEF LoopStep
  <2>2. CASE PollReturns
    BY <2>2 DEF PollReturns, Ready
  <2>3. CASE PollTimeout
    BY <2>3 DEF PollTimeout
  <2>4. CASE UserCode
    <3>1. ASSUME NEW task \in Tasks, QueueInOwnLoop(task)
          PROVE  TypeOK'
      <4>1. pendingFunctors_' \in Seq(Tasks)
        BY <3>1, AppendProperties DEF QueueInOwnLoop
      <4>2. counter' \in 0..MaxCount
        BY <3>1 DEF QueueInOwnLoop, AddOne, NeedsWakeup,
                    callingPendingFunctors_
      <4> QED
        BY <3>1, <4>1, <4>2 DEF QueueInOwnLoop
    <3>2. CASE QuitOwnLoop
      BY <3>2 DEF QuitOwnLoop
    <3> QED
      BY <2>4, <3>1, <3>2 DEF UserCode
  <2>5. ASSUME NEW t \in Threads, ThreadStep(t)
        PROVE  TypeOK'
    <3>1. ASSUME NEW task \in Tasks, QueueInLoop(t, task)
          PROVE  TypeOK'
      <4>1. pendingFunctors_' \in Seq(Tasks)
        BY <3>1, AppendProperties DEF QueueInLoop
      <4> QED
        BY <3>1, <4>1 DEF QueueInLoop
    <3>2. CASE Quit(t)
      BY <3>2 DEF Quit
    <3>3. CASE WakeupBy(t)
      <4>1. counter' \in 0..MaxCount
        BY <3>3 DEF WakeupBy, AddOne
      <4> QED
        BY <3>3, <4>1 DEF WakeupBy
    <3> QED
      BY <2>5, <3>1, <3>2, <3>3 DEF ThreadStep
  <2>6. CASE UNCHANGED elVars
    BY <2>6 DEF elVars
  <2> QED
    BY <2>1, <2>2, <2>3, <2>4, <2>5, <2>6 DEF Next
<1> QED
  BY <1>1, <1>2, PTL DEF Spec
----------------------------------------------------------------------------
(***************************************************************************)
(* NoLostWakeup looks at the loop thread in poll only, but a callback that *)
(* waits there was queued earlier.  From the swap of one iteration to the  *)
(* next poll every push is followed by a write to the eventfd, by the      *)
(* pusher or, in a functor, by the loop thread itself, and nothing reads   *)
(* the eventfd.  After poll returns the obligation lapses, because the     *)
(* next swap takes whatever is pending.                                    *)
(***************************************************************************)
WakeInv ==
    /\ pc \notin {"dispatch", "handler", "swap"} /\ PostedTaskWaits => WakeupComing
    /\ NoLostQuit

\* No step of the loop thread or of another thread breaks WakeInv.
LEMMA WakeInvStep ==
  ASSUME TypeOK, WakeInv, [Next]_elVars
  PROVE  WakeInv'
<1> USE DEF WakeInv, NoLostQuit, WakeupComing, PostedTaskWaits
<1> USE DEF TypeOK
<1>1. CASE LoopStep
  <2>1. CASE EnterLoop
    BY <2>1 DEF EnterLoop
  <2>2. CASE CheckQuit
    BY <2>2 DEF CheckQuit
  <2>3. CASE HandleRead
    BY <2>3 DEF HandleRead
  <2>4. CASE \E ch \in IOChannels : BeginHandler(ch)
    BY <2>4 DEF BeginHandler
  <2>5. CASE EndHandler
    BY <2>5 DEF EndHandler
  <2>6. CASE EndDispatch
    BY <2>6 DEF EndDispatch
  <2>7. CASE SwapFunctors
    <3>1. DOMAIN pendingFunctors_' = {}
      BY <2>7 DEF SwapFunctors
    <3> QED
      BY <2>7, <3>1 DEF SwapFunctors
  <2>8. CASE BeginFunctor
    BY <2>8 DEF BeginFunctor
  <2>9. CASE EndFunctor
    BY <2>9 DEF EndFunctor
  <2>10. CASE EndFunctors
    BY <2>10 DEF EndFunctors
  <2> QED
    BY <1>1, <2>1, <2>2, <2>3, <2>4, <2>5, <2>6, <2>7, <2>8, <2>9, <2>10
       DEF LoopStep
<1>2. CASE PollReturns
  BY <1>2 DEF PollReturns
<1>3. CASE PollTimeout
  BY <1>3 DEF PollTimeout
<1>4. ASSUME NEW task \in Tasks, QueueInOwnLoop(task)
      PROVE  WakeInv'
  <2>1. CASE pc = "init"
    <3>1. task \in InitTasks /\ pc' = "init"
      BY <1>4, <2>1 DEF QueueInOwnLoop
    <3>2. ASSUME PostedTaskWaits'
          PROVE  PostedTaskWaits
      <4>1. /\ DOMAIN pendingFunctors_ = 1..Len(pendingFunctors_)
            /\ DOMAIN pendingFunctors_' = 1..Len(pendingFunctors_)+1
            /\ Len(pendingFunctors_) \in Nat
            /\ pendingFunctors_'[Len(pendingFunctors_)+1] = task
            /\ \A i \in 1..Len(pendingFunctors_) :
                  pendingFunctors_'[i] = pendingFunctors_[i]
        BY <1>4, AppendProperties, LenProperties DEF QueueInOwnLoop
      <4>2. PICK i \in DOMAIN pendingFunctors_' : pendingFunctors_'[i] \notin InitTasks
        BY <3>2
      <4> QED
        BY <3>1, <4>1, <4>2
    <3>3. counter' = counter /\ tpc' = tpc /\ quit_' = quit_
      BY <1>4, <2>1 DEF QueueInOwnLoop, NeedsWakeup, callingPendingFunctors_
    <3> QED
      BY <2>1, <3>1, <3>2, <3>3
  <2>2. CASE pc = "functor"
    <3>1. counter' > 0
      BY <1>4, <2>2 DEF QueueInOwnLoop, NeedsWakeup, callingPendingFunctors_, AddOne
    <3> QED
      BY <3>1
  <2>3. CASE pc = "handler"
    BY <1>4, <2>3 DEF QueueInOwnLoop
  <2> QED
    BY <1>4, <2>1, <2>2, <2>3 DEF QueueInOwnLoop, InUserCode
<1>5. CASE QuitOwnLoop
  BY <1>5 DEF QuitOwnLoop, InUserCode
<1>6. ASSUME NEW t \in Threads, NEW task \in Tasks, QueueInLoop(t, task)
      PROVE  WakeInv'
  <2>1. tpc'[t] = "wakeup"
    BY <1>6 DEF QueueInLoop, NeedsWakeup
  <2> QED
    BY <2>1
<1>7. ASSUME NEW t \in Threads, Quit(t)
      PROVE  WakeInv'
  <2>1. tpc'[t] = "wakeup"
    BY <1>7 DEF Quit
  <2> QED
    BY <2>1
<1>8. ASSUME NEW t \in Threads, WakeupBy(t)
      PROVE  WakeInv'
  <2>1. counter' > 0
    BY <1>8 DEF WakeupBy, AddOne
  <2> QED
    BY <2>1
<1>9. CASE UNCHANGED elVars
  BY <1>9 DEF elVars
<1> QED
  BY <1>1, <1>2, <1>3, <1>4, <1>5, <1>6, <1>7, <1>8, <1>9
     DEF Next, UserCode, ThreadStep

\* Nothing posted sleeps and no quit is missed, at any time.
LEMMA WakeInvHolds == Spec => []WakeInv
<1>1. Init => WakeInv
  <2> SUFFICES ASSUME Init
               PROVE  WakeInv
    OBVIOUS
  <2>1. DOMAIN pendingFunctors_ = {}
    BY DEF Init
  <2> QED
    BY <2>1 DEF Init, WakeInv, NoLostQuit, PostedTaskWaits
<1> QED
  BY <1>1, TypeCorrect, WakeInvStep, PTL DEF Spec

\* However many threads post, and whatever handlers and functors do, the loop
\* thread never sleeps on a posted callback without a wakeup under way
\* (EventLoop::queueInLoop, doPendingFunctors).
THEOREM WakeupNeverLost == Spec => []NoLostWakeup
<1>1. WakeInv => NoLostWakeup
  BY DEF WakeInv, NoLostWakeup
<1> QED
  BY <1>1, WakeInvHolds, PTL

\* Nor does it sleep after quit(), whichever thread called it (EventLoop::quit, loop).
THEOREM QuitNeverLost == Spec => []NoLostQuit
<1>1. WakeInv => NoLostQuit
  BY DEF WakeInv
<1> QED
  BY <1>1, WakeInvHolds, PTL
----------------------------------------------------------------------------
(***************************************************************************)
(* Refinement.  The queue of TaskQueue is functors followed by             *)
(* pendingFunctors_.  The swap leaves it alone because the local vector is *)
(* empty outside doPendingFunctors.                                        *)
(***************************************************************************)
FunctorsLocal == ~callingPendingFunctors_ => functors = <<>>

\* No step leaves a callback in the local vector outside doPendingFunctors.
LEMMA FunctorsLocalStep ==
  ASSUME TypeOK, FunctorsLocal, [Next]_elVars
  PROVE  FunctorsLocal'
BY DEF TypeOK, FunctorsLocal, callingPendingFunctors_, Next, elVars, LoopStep,
       EnterLoop, CheckQuit, HandleRead, BeginHandler, EndHandler, EndDispatch,
       SwapFunctors, BeginFunctor, EndFunctor, EndFunctors, PollReturns,
       PollTimeout, UserCode, QueueInOwnLoop, QuitOwnLoop, ThreadStep,
       QueueInLoop, Quit, WakeupBy

\* Appending to the second part of a concatenation appends to the whole.
LEMMA AppendToConcat ==
  ASSUME NEW S, NEW s \in Seq(S), NEW u \in Seq(S), NEW e \in S
  PROVE  s \o Append(u, e) = Append(s \o u, e)
<1>1. s \o u \in Seq(S) /\ <<e>> \in Seq(S)
  BY ConcatProperties
<1>2. Append(u, e) = u \o <<e>> /\ Append(s \o u, e) = (s \o u) \o <<e>>
  BY <1>1, AppendIsConcat
<1> QED
  BY <1>1, <1>2, ConcatAssociative

\* The head and the tail of a concatenation are those of its first part.
LEMMA HeadTailConcat ==
  ASSUME NEW S, NEW s \in Seq(S), NEW u \in Seq(S), s # <<>>
  PROVE  /\ s \o u # <<>>
         /\ Head(s \o u) = Head(s)
         /\ Tail(s \o u) = Tail(s) \o u
<1>1. Len(s) \in Nat \ {0} /\ Len(u) \in Nat
  BY EmptySeq, LenProperties
<1>2. /\ s \o u \in Seq(S)
      /\ Len(s \o u) = Len(s) + Len(u)
      /\ \A i \in 1..Len(s) + Len(u) :
            (s \o u)[i] = IF i <= Len(s) THEN s[i] ELSE u[i - Len(s)]
  BY ConcatProperties
<1>3. s \o u # <<>>
  BY <1>1, <1>2, EmptySeq
<1>4. Head(s \o u) = Head(s)
  BY <1>1, <1>2, <1>3
<1>5. /\ Tail(s) \in Seq(S)
      /\ Len(Tail(s)) = Len(s) - 1
      /\ \A i \in 1..Len(Tail(s)) : Tail(s)[i] = s[i+1]
  BY HeadTailProperties
<1>6. /\ Tail(s \o u) \in Seq(S)
      /\ Len(Tail(s \o u)) = Len(s \o u) - 1
      /\ \A i \in 1..Len(Tail(s \o u)) : Tail(s \o u)[i] = (s \o u)[i+1]
  BY <1>2, <1>3, HeadTailProperties
<1>7. /\ Tail(s) \o u \in Seq(S)
      /\ Len(Tail(s) \o u) = Len(Tail(s)) + Len(u)
      /\ \A i \in 1..Len(Tail(s)) + Len(u) :
            (Tail(s) \o u)[i] = IF i <= Len(Tail(s)) THEN Tail(s)[i]
                                ELSE u[i - Len(Tail(s))]
  BY <1>5, ConcatProperties
<1>8. Len(Tail(s \o u)) = Len(Tail(s) \o u)
  BY <1>1, <1>2, <1>5, <1>6, <1>7
<1>9. ASSUME NEW i \in 1..Len(Tail(s \o u))
      PROVE  Tail(s \o u)[i] = (Tail(s) \o u)[i]
  <2>1. i + 1 \in 1..Len(s) + Len(u) /\ i \in 1..Len(Tail(s)) + Len(u)
    BY <1>1, <1>2, <1>5, <1>6, <1>9
  <2>2. Tail(s \o u)[i] = IF i + 1 <= Len(s) THEN s[i+1] ELSE u[i + 1 - Len(s)]
    BY <2>1, <1>2, <1>6
  <2>3. CASE i + 1 <= Len(s)
    BY <2>1, <2>2, <2>3, <1>1, <1>5, <1>7
  <2>4. CASE ~(i + 1 <= Len(s))
    <3>1. i - Len(Tail(s)) = i + 1 - Len(s) /\ ~(i <= Len(Tail(s)))
      BY <2>1, <2>4, <1>1, <1>5
    <3> QED
      BY <3>1, <2>1, <2>2, <2>4, <1>7
  <2> QED
    BY <2>3, <2>4
<1>10. Tail(s \o u) = Tail(s) \o u
  BY <1>6, <1>7, <1>8, <1>9, SeqEqual
<1> QED
  BY <1>3, <1>4, <1>10

\* The loop implements TaskQueue: callbacks start at most once and in the order
\* they were queued, for any interleaving of the swap with the pushes
\* (queueInLoop, doPendingFunctors).
THEOREM LoopImplementsTaskQueue == Spec => ImplementsTaskQueue
<1>1. Init => TQ!TQInit /\ FunctorsLocal
  <2>1. <<>> \o <<>> = <<>>
    OBVIOUS
  <2> QED
    BY <2>1 DEF Init, TQ!TQInit, FunctorsLocal
<1>2. ASSUME TypeOK, FunctorsLocal, [Next]_elVars
      PROVE  [TQ!TQNext]_(TQ!tqVars)
  <2> USE <1>2 DEF TypeOK
  <2>1. ASSUME NEW task \in Tasks,
               pendingFunctors_' = Append(pendingFunctors_, task),
               UNCHANGED <<pc, functors, ran>>
        PROVE  TQ!Put(task)
    BY <2>1, AppendToConcat DEF TQ!Put
  <2>2. CASE BeginFunctor
    <3>1. TQ!Take
      BY <2>2, HeadTailConcat, SMTT(30) DEF BeginFunctor, TQ!Take
    <3> QED
      BY <3>1 DEF TQ!TQNext
  <2>3. CASE SwapFunctors
    <3>1. functors = <<>>
      BY <2>3 DEF SwapFunctors, FunctorsLocal, callingPendingFunctors_
    <3>2. pendingFunctors_ \o <<>> = pendingFunctors_ /\ <<>> \o pendingFunctors_ = pendingFunctors_
      BY ConcatEmptySeq
    <3> QED
      BY <2>3, <3>1, <3>2 DEF SwapFunctors, TQ!tqVars
  <2>4. CASE CheckQuit
    BY <2>4 DEF CheckQuit, TQ!TQNext, TQ!Close, TQ!tqVars
  <2>5. ASSUME NEW task \in Tasks, QueueInOwnLoop(task)
        PROVE  TQ!TQNext
    BY <2>1, <2>5 DEF QueueInOwnLoop, TQ!TQNext
  <2>6. ASSUME NEW t \in Threads, NEW task \in Tasks, QueueInLoop(t, task)
        PROVE  TQ!TQNext
    BY <2>1, <2>6 DEF QueueInLoop, TQ!TQNext
  <2>7. CASE \/ EnterLoop \/ HandleRead \/ EndHandler \/ EndDispatch
             \/ EndFunctor \/ EndFunctors \/ PollReturns \/ PollTimeout
             \/ QuitOwnLoop
             \/ \E ch \in IOChannels : BeginHandler(ch)
             \/ \E t \in Threads : Quit(t) \/ WakeupBy(t)
             \/ UNCHANGED elVars
    BY <2>7 DEF EnterLoop, HandleRead, EndHandler, EndDispatch, EndFunctor,
                EndFunctors, PollReturns, PollTimeout, QuitOwnLoop, InUserCode,
                BeginHandler, Quit, WakeupBy, elVars, TQ!tqVars
  <2> QED
    BY <2>2, <2>3, <2>4, <2>5, <2>6, <2>7
       DEF Next, LoopStep, UserCode, ThreadStep
<1> QED
  BY <1>1, <1>2, TypeCorrect, FunctorsLocalStep, PTL
     DEF Spec, ImplementsTaskQueue, TQ!TQSpec
============================================================================
