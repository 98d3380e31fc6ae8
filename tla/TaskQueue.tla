----------------------------- MODULE TaskQueue -----------------------------
(***************************************************************************)
(* What an EventLoop promises to the threads that hand it callbacks        *)
(* (EventLoop.h, queueInLoop): a callback put in the queue is run by the   *)
(* loop thread, once, and callbacks run in the order in which they were    *)
(* queued.  The loop may stop for good; what is queued then is never run.  *)
(***************************************************************************)
EXTENDS Sequences

CONSTANT Tasks          \* the callbacks that may be queued

VARIABLES
    queue,              \* queued and not yet started, oldest first
    ran,                \* started, in the order of their start
    open                \* FALSE once the loop has stopped

tqVars == <<queue, ran, open>>

TQInit ==
    /\ queue = <<>>
    /\ ran = <<>>
    /\ open = TRUE

\* A thread, the loop thread included, queues a callback: also on a loop that
\* has stopped, where nobody will run it.
Put(task) ==
    /\ queue' = Append(queue, task)
    /\ UNCHANGED <<ran, open>>

\* The loop thread starts the oldest callback.
Take ==
    /\ open
    /\ queue # <<>>
    /\ ran' = Append(ran, Head(queue))
    /\ queue' = Tail(queue)
    /\ UNCHANGED open

\* The loop thread leaves loop().
Close ==
    /\ open
    /\ open' = FALSE
    /\ UNCHANGED <<queue, ran>>

TQNext ==
    \/ \E task \in Tasks : Put(task)
    \/ Take
    \/ Close

TQSpec == TQInit /\ [][TQNext]_tqVars
============================================================================
