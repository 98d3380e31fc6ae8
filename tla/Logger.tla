------------------------------- MODULE Logger -------------------------------
(***************************************************************************)
(* The Logger all threads of the process share (Logger.h, Logger.cc).      *)
(* LOG_INFO, LOG_ERROR, LOG_FATAL and LOG_DEBUG store their level in the   *)
(* one logLevel_, format the message into a buffer of their own, and call  *)
(* log(), which reads logLevel_ for the tag it writes before the text.     *)
(* Nothing is locked.  logLevel_ is an aligned int: a read yields a level  *)
(* that some thread has stored.  std::cout takes each piece as a whole.    *)
(***************************************************************************)
EXTENDS Naturals, Sequences

CONSTANTS
    Threads,
    Script      \* for each thread, the levels of the messages it logs, in order

Levels == {"INFO", "ERROR", "FATAL", "DEBUG"}   \* Script \in [Threads -> Seq(Levels)]

VARIABLES
    logLevel_,
    pc,         \* a thread is "idle", at "snprintf" or in "log", the tag written
    logged,     \* how many messages a thread has logged
    out,        \* what std::cout has got
    process     \* "runs" or "exited"

gVars == <<logLevel_, pc, logged, out, process>>

\* A piece of output, with the level of the call that writes it.
Piece(kind, t, level) == [kind |-> kind, by |-> t, level |-> level]

Level(t) == Script[t][logged[t] + 1]

GInit ==
    /\ logLevel_ \in Levels     \* Logger() leaves it uninitialized
    /\ pc = [t \in Threads |-> "idle"]
    /\ logged = [t \in Threads |-> 0]
    /\ out = <<>>
    /\ process = "runs"

\* logger.setLogLevel(...)
SetLogLevel(t) ==
    /\ pc[t] = "idle" /\ logged[t] < Len(Script[t])
    /\ logLevel_' = Level(t)
    /\ pc' = [pc EXCEPT ![t] = "snprintf"]
    /\ UNCHANGED <<logged, out, process>>

\* log: the switch over logLevel_.
WriteTag(t) ==
    /\ pc[t] = "snprintf"
    /\ out' = Append(out, Piece("tag", t, logLevel_))
    /\ pc' = [pc EXCEPT ![t] = "log"]
    /\ UNCHANGED <<logLevel_, logged, process>>

\* log: the time and the text; LOG_FATAL then calls exit().
WriteText(t) ==
    /\ pc[t] = "log"
    /\ out' = Append(out, Piece("text", t, Level(t)))
    /\ pc' = [pc EXCEPT ![t] = "idle"]
    /\ logged' = [logged EXCEPT ![t] = @ + 1]
    /\ process' = IF Level(t) = "FATAL" THEN "exited" ELSE process
    /\ UNCHANGED logLevel_

GNext ==
    /\ process = "runs"
    /\ \E t \in Threads : SetLogLevel(t) \/ WriteTag(t) \/ WriteText(t)

GSpec == GInit /\ [][GNext]_gVars
----------------------------------------------------------------------------
Lines(t) == SelectSeq(out, LAMBDA p : p.by = t)

\* "Write a log: [level] time : msg" (Logger.cc, translated): in what a thread
\* writes, each text follows the tag of its own level.
TagIsOwnLevel ==
    \A t \in Threads : \A n \in DOMAIN Lines(t) :
        Lines(t)[n].kind = "text" =>
            n > 1 /\ Lines(t)[n - 1].kind = "tag" /\ Lines(t)[n - 1].level = Lines(t)[n].level
=============================================================================
