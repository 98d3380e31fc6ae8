---------------------------- MODULE ChannelProofs ----------------------------
(***************************************************************************)
(* Lemmas about a Channel and its entry in the EPollPoller: what each      *)
(* operation of Channel returns, and from which states of index_ it        *)
(* returns without reaching an assert or a LOG_FATAL of the poller.        *)
(***************************************************************************)
EXTENDS Channel, TLAPS

\* channels_ has the channel exactly when index_ is not kNew, and only a channel
\* with kAdded is in the kernel's epoll set.
Consistent(ch) ==
    /\ ch \in Channels
    /\ ch.mapped <=> ch.index # "kNew"
    /\ ch.reg => ch.index = "kAdded"

\* The channel of a new Acceptor or TcpConnection (Channel::Channel).
LEMMA NewIsConsistent == Consistent(NewChannel) /\ ~NewChannel.aborted
BY DEF Consistent, NewChannel, Channels

\* Every operation leaves a channel (EPollPoller::updateChannel, removeChannel).
LEMMA ChannelTypes ==
  ASSUME NEW ch \in Channels
  PROVE  /\ EnableReading(ch) \in Channels /\ EnableWriting(ch) \in Channels
         /\ DisableWriting(ch) \in Channels /\ DisableAll(ch) \in Channels
         /\ RemoveChannel(ch) \in Channels
<1>1. ASSUME NEW x \in Channels PROVE UpdateChannel(x) \in Channels
  BY DEF UpdateChannel, EpollAdd, EpollMod, EpollDel, Channels
<1>2. /\ [ch EXCEPT !.events = @ \cup {"R"}] \in Channels
      /\ [ch EXCEPT !.events = @ \cup {"W"}] \in Channels
      /\ [ch EXCEPT !.events = @ \ {"W"}] \in Channels
      /\ [ch EXCEPT !.events = {}] \in Channels
  BY DEF Channels
<1>3. RemoveChannel(ch) \in Channels
  BY DEF RemoveChannel, EpollDel, Channels
<1> QED
  BY <1>1, <1>2, <1>3 DEF EnableReading, EnableWriting, DisableWriting, DisableAll

\* Channel::enableReading on a channel that is not in channels_ yet.
LEMMA EnableReadingNew ==
  ASSUME NEW ch, Consistent(ch), ch.index = "kNew"
  PROVE  /\ Consistent(EnableReading(ch))
         /\ EnableReading(ch).index = "kAdded" /\ EnableReading(ch).reg
         /\ EnableReading(ch).events = ch.events \cup {"R"}
         /\ EnableReading(ch).interest = ch.events \cup {"R"}
         /\ EnableReading(ch).aborted = ch.aborted
BY DEF EnableReading, UpdateChannel, EpollAdd, Consistent, Channels

\* Channel::disableAll on a channel that is in the epoll set.
LEMMA DisableAllAdded ==
  ASSUME NEW ch, Consistent(ch), ch.index = "kAdded"
  PROVE  /\ Consistent(DisableAll(ch))
         /\ DisableAll(ch).index = "kDeleted" /\ ~DisableAll(ch).reg
         /\ DisableAll(ch).events = {} /\ DisableAll(ch).interest = {}
         /\ DisableAll(ch).aborted = ch.aborted
BY DEF DisableAll, UpdateChannel, EpollDel, Consistent, Channels

\* EPollPoller::removeChannel on a channel of channels_.
LEMMA RemoveChannelMapped ==
  ASSUME NEW ch, Consistent(ch), ch.index # "kNew"
  PROVE  /\ Consistent(RemoveChannel(ch))
         /\ RemoveChannel(ch).index = "kNew" /\ ~RemoveChannel(ch).reg
         /\ RemoveChannel(ch).events = ch.events
         /\ RemoveChannel(ch).aborted = ch.aborted
BY DEF RemoveChannel, EpollDel, Consistent, Channels

\* disableAll and remove on a channel that was never enabled: it is added to epoll
\* without interest, and taken out again (~Acceptor before listen).
LEMMA DisableAllNew ==
  ASSUME NEW ch, Consistent(ch), ch.index = "kNew"
  PROVE  /\ Consistent(DisableAll(ch))
         /\ DisableAll(ch).index = "kAdded" /\ DisableAll(ch).events = {}
         /\ DisableAll(ch).aborted = ch.aborted
BY DEF DisableAll, UpdateChannel, EpollAdd, Consistent, Channels

\* Channel::enableWriting and disableWriting on a channel that reads.
LEMMA WritingAdded ==
  ASSUME NEW ch, Consistent(ch), ch.index = "kAdded", ch.reg, "R" \in ch.events,
         NEW x \in {EnableWriting(ch), DisableWriting(ch)}
  PROVE  /\ Consistent(x) /\ x.index = "kAdded" /\ x.reg /\ "R" \in x.events
         /\ x.interest = x.events /\ x.aborted = ch.aborted
<1>1. ASSUME NEW e \in SUBSET {"R", "W"}, "R" \in e
      PROVE  LET y == UpdateChannel([ch EXCEPT !.events = e])
             IN  /\ Consistent(y) /\ y.index = "kAdded" /\ y.reg /\ y.events = e
                 /\ y.interest = e /\ y.aborted = ch.aborted
  BY <1>1 DEF UpdateChannel, EpollMod, Consistent, Channels
<1>2. ch.events \cup {"W"} \in SUBSET {"R", "W"} /\ ch.events \ {"W"} \in SUBSET {"R", "W"}
  BY DEF Consistent, Channels
<1> QED
  BY <1>1, <1>2 DEF EnableWriting, DisableWriting

\* The poller is destroyed, or the descriptor closed: epoll drops the channel.
LEMMA Unregistered ==
  ASSUME NEW ch, Consistent(ch)
  PROVE  /\ Consistent([ch EXCEPT !.reg = FALSE])
         /\ Consistent([ch EXCEPT !.reg = FALSE, !.interest = {}])
BY DEF Consistent, Channels
==============================================================================
