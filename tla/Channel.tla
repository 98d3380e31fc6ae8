------------------------------ MODULE Channel ------------------------------
(***************************************************************************)
(* A Channel and its entry in the EPollPoller of its loop (Channel.h,      *)
(* Channel.cc, EPollPoller.cc), as operators on one record:                *)
(*   events    Channel::events_, the interest: a subset of {"R", "W"}      *)
(*   index     Channel::index_                                             *)
(*   mapped    the poller's channels_ has the channel under its fd         *)
(*   reg       the kernel's epoll set has the fd                           *)
(*   interest  the events the kernel was last told                         *)
(*   aborted   an assert or a LOG_FATAL of the poller was reached          *)
(* Only the loop's thread touches a channel, so every operation is atomic. *)
(* kReadEvent is "R" (EPOLLIN | EPOLLPRI), kWriteEvent is "W" (EPOLLOUT).  *)
(***************************************************************************)

Channels ==
    [events : SUBSET {"R", "W"}, index : {"kNew", "kAdded", "kDeleted"},
     mapped : BOOLEAN, reg : BOOLEAN, interest : SUBSET {"R", "W"},
     aborted : BOOLEAN]

NewChannel ==
    [events |-> {}, index |-> "kNew", mapped |-> FALSE, reg |-> FALSE,
     interest |-> {}, aborted |-> FALSE]

(* EPollPoller::update: epoll_ctl.  ADD of a registered fd and MOD of an   *)
(* unregistered one fail, which is fatal; a failing DEL is only logged.    *)
EpollAdd(ch) ==
    [ch EXCEPT !.reg = TRUE, !.interest = ch.events, !.aborted = @ \/ ch.reg]

EpollMod(ch) ==
    [ch EXCEPT !.interest = ch.events, !.aborted = @ \/ ~ch.reg]

EpollDel(ch) ==
    [ch EXCEPT !.reg = FALSE, !.interest = {}]

\* Mutant: a channel that was deleted from epoll is taken for one that is in it.
UpdateChannelForgetDeleted(ch) ==
    IF ch.index = "kNew"
    THEN EpollAdd([ch EXCEPT !.mapped = TRUE, !.index = "kAdded"])
    ELSE IF ch.events = {}
         THEN EpollDel(ch)
         ELSE EpollMod(ch)

(* EPollPoller::updateChannel *)
UpdateChannel(ch) ==
    CASE ch.index = "kNew" ->
            EpollAdd([ch EXCEPT !.mapped = TRUE, !.index = "kAdded"])
      [] ch.index = "kDeleted" ->
            EpollAdd([ch EXCEPT !.index = "kAdded", !.aborted = @ \/ ~ch.mapped])
      [] ch.index = "kAdded" /\ ch.events = {} ->
            [EpollDel(ch) EXCEPT !.index = "kDeleted"]
      [] OTHER -> EpollMod(ch)

\* Mutant: channels_ keeps its pointer to the channel.
RemoveChannelKeepsEntry(ch) ==
    [EpollDel(ch) EXCEPT !.index = "kNew", !.aborted = @ \/ ch.index = "kNew"]

(* EPollPoller::removeChannel *)
RemoveChannel(ch) ==
    LET gone == IF ch.index = "kAdded" THEN EpollDel(ch) ELSE ch
    IN  [gone EXCEPT !.mapped = FALSE, !.index = "kNew",
                     !.aborted = @ \/ ch.index = "kNew"]

(* Channel::enableReading ... disableAll, isWriting *)
EnableReading(ch)  == UpdateChannel([ch EXCEPT !.events = @ \cup {"R"}])
EnableWriting(ch)  == UpdateChannel([ch EXCEPT !.events = @ \cup {"W"}])

\* Mutant: the interest changes but the poller is not told.
DisableWritingNoUpdate(ch) == [ch EXCEPT !.events = @ \ {"W"}]

DisableWriting(ch) == UpdateChannel([ch EXCEPT !.events = @ \ {"W"}])
DisableAll(ch)     == UpdateChannel([ch EXCEPT !.events = {}])
IsWriting(ch)      == "W" \in ch.events
============================================================================
