--------------------------- MODULE RegistryProofs ---------------------------
(* What two registries keep, whatever is registered and removed and for      *)
(* every value of the constants: the topics of the event system (Events) and *)
(* the pairs of coins and tokens (ERC20).                                    *)
EXTENDS Events, ERC20, TLAPS

(* Subscriptions: topics, channels and who closes them *)

\* Who has been a subscriber or a filter has been made, is installed, waiting to
\* be uninstalled or uninstalled, and is a subscriber or has its channel closed.
SubscriptionsInv ==
    /\ \A c \in Clients :
          c \in filters \cup uninstall \cup errClosed \cup subscribers \cup eventClosed => pc[c] = "done"
    /\ filters \cap uninstall = {} /\ (filters \cup uninstall) \cap errClosed = {}
    /\ subscribers \cap eventClosed = {}

\* A channel belongs to a client that was installed; its goroutine only ends
\* after the channel was closed, and a topic's channel is one of its own, open
\* and read.
ChannelsInv ==
    /\ \A c \in Clients :
          /\ publisher[c] # "none" \/ c \in closedChans => pc[c] \notin {"idle", "topics", "install"}
          /\ publisher[c] \in {"closing", "removing", "ended"} => c \in closedChans
    /\ \A t \in Kinds :
          /\ t \in topics => topicChans[t] # NoClient
          /\ topicChans[t] # NoClient =>
                /\ kind[topicChans[t]] = t
                /\ topicChans[t] \notin closedChans
                /\ publisher[topicChans[t]] \in {"reading", "received", "publishing"}

\* The inductive invariant of the event system.
EventsInv == EventsTypeOK /\ SubscriptionsInv /\ ChannelsInv /\ ClosedOnce

-----------------------------------------------------------------------------
(* Making a subscription *)

\* Initially nothing is installed.
LEMMA EventsInitInv == EventsInit => EventsInv
<1>. SUFFICES ASSUME EventsInit PROVE EventsInv
  OBVIOUS
<1>1. EventsTypeOK
  BY EventsAssumption DEF EventsInit, EventsTypeOK
<1>2. SubscriptionsInv
  BY DEF EventsInit, SubscriptionsInv
<1>3. ChannelsInv
  BY DEF EventsInit, ChannelsInv
<1>4. ClosedOnce
  BY DEF EventsInit, ClosedOnce
<1>. QED BY <1>1, <1>2, <1>3, <1>4 DEF EventsInv

\* No subscription has the number zero.
LEMMA NoClientIsNone == NoClient \notin Clients
BY EventsAssumption DEF NoClient, Clients

\* The call that makes a subscription starts.
LEMMA BeginStep ==
    ASSUME EventsInv, NEW c \in Clients, Begin(c)
    PROVE  EventsInv'
<1>1. EventsTypeOK'
  BY NoClientIsNone DEF EventsInv, EventsTypeOK, Begin, creator, system, bus
<1>2. SubscriptionsInv'
  BY DEF EventsInv, EventsTypeOK, SubscriptionsInv, Begin, creator, system, bus
<1>3. ChannelsInv'
  BY NoClientIsNone DEF EventsInv, EventsTypeOK, ChannelsInv, Begin, creator, system, bus
<1>4. ClosedOnce'
  BY NoClientIsNone DEF EventsInv, EventsTypeOK, SubscriptionsInv, ChannelsInv, ClosedOnce, Begin, creator, system, bus
<1>. QED BY <1>1, <1>2, <1>3, <1>4 DEF EventsInv

\* Looking for the topic changes only where the call is.
LEMMA FindTopicStep ==
    ASSUME EventsInv, NEW c \in Clients, FindTopic(c)
    PROVE  EventsInv'
<1>1. EventsTypeOK'
  BY NoClientIsNone DEF EventsInv, EventsTypeOK, FindTopic, creator, system, bus
<1>2. SubscriptionsInv'
  BY DEF EventsInv, EventsTypeOK, SubscriptionsInv, FindTopic, creator, system, bus
<1>3. ChannelsInv'
  BY NoClientIsNone DEF EventsInv, EventsTypeOK, ChannelsInv, FindTopic, creator, system, bus
<1>4. ClosedOnce'
  BY NoClientIsNone DEF EventsInv, EventsTypeOK, SubscriptionsInv, ChannelsInv, ClosedOnce, FindTopic, creator, system, bus
<1>. QED BY <1>1, <1>2, <1>3, <1>4 DEF EventsInv

\* A refused query ends the call.
LEMMA SubscribeFailsStep ==
    ASSUME EventsInv, NEW c \in Clients, SubscribeFails(c)
    PROVE  EventsInv'
<1>1. EventsTypeOK'
  BY NoClientIsNone DEF EventsInv, EventsTypeOK, SubscribeFails, Return, creator, system, bus
<1>2. SubscriptionsInv'
  BY DEF EventsInv, EventsTypeOK, SubscriptionsInv, SubscribeFails, Return, creator, system, bus
<1>3. ChannelsInv'
  BY NoClientIsNone DEF EventsInv, EventsTypeOK, ChannelsInv, SubscribeFails, Return, creator, system, bus
<1>4. ClosedOnce'
  BY NoClientIsNone DEF EventsInv, EventsTypeOK, SubscriptionsInv, ChannelsInv, ClosedOnce, SubscribeFails, Return, creator, system, bus
<1>. QED BY <1>1, <1>2, <1>3, <1>4 DEF EventsInv

\* Checking for the topic may end the call.
LEMMA CheckTopicStep ==
    ASSUME EventsInv, NEW c \in Clients, CheckTopic(c)
    PROVE  EventsInv'
<1>1. EventsTypeOK'
  BY NoClientIsNone DEF EventsInv, EventsTypeOK, CheckTopic, Return, creator, system, bus
<1>2. SubscriptionsInv'
  BY DEF EventsInv, EventsTypeOK, SubscriptionsInv, CheckTopic, Return, creator, system, bus
<1>3. ChannelsInv'
  BY NoClientIsNone DEF EventsInv, EventsTypeOK, ChannelsInv, CheckTopic, Return, creator, system, bus
<1>4. ClosedOnce'
  BY NoClientIsNone DEF EventsInv, EventsTypeOK, SubscriptionsInv, ChannelsInv, ClosedOnce, CheckTopic, Return, creator, system, bus
<1>. QED BY <1>1, <1>2, <1>3, <1>4 DEF EventsInv

\* Waiting for the lock of the subscribers.
LEMMA LockToInsertStep ==
    ASSUME EventsInv, NEW c \in Clients, LockToInsert(c)
    PROVE  EventsInv'
<1>1. EventsTypeOK'
  BY NoClientIsNone DEF EventsInv, EventsTypeOK, LockToInsert, creator, system, bus
<1>2. SubscriptionsInv'
  BY DEF EventsInv, EventsTypeOK, SubscriptionsInv, LockToInsert, creator, system, bus
<1>3. ChannelsInv'
  BY NoClientIsNone DEF EventsInv, EventsTypeOK, ChannelsInv, LockToInsert, creator, system, bus
<1>4. ClosedOnce'
  BY NoClientIsNone DEF EventsInv, EventsTypeOK, SubscriptionsInv, ChannelsInv, ClosedOnce, LockToInsert, creator, system, bus
<1>. QED BY <1>1, <1>2, <1>3, <1>4 DEF EventsInv

\* A subscription that is made is new as subscriber and as filter.
LEMMA InsertStep ==
    ASSUME EventsInv, NEW c \in Clients, Insert(c)
    PROVE  EventsInv'
<1>1. EventsTypeOK'
  BY NoClientIsNone DEF EventsInv, EventsTypeOK, Insert, Return, creator, system, bus
<1>2. SubscriptionsInv'
  BY DEF EventsInv, EventsTypeOK, SubscriptionsInv, Insert, Return, creator, system, bus
<1>3. ChannelsInv'
  BY NoClientIsNone DEF EventsInv, EventsTypeOK, ChannelsInv, Insert, Return, creator, system, bus
<1>4. ClosedOnce'
  BY NoClientIsNone DEF EventsInv, EventsTypeOK, SubscriptionsInv, ChannelsInv, ClosedOnce, Insert, Return, creator, system, bus
<1>. QED BY <1>1, <1>2, <1>3, <1>4 DEF EventsInv

\* A topic is installed with a channel that is new, open and read.
LEMMA InstallStep ==
    ASSUME EventsInv, NEW c \in Clients, Install(c)
    PROVE  EventsInv'
<1>1. EventsTypeOK'
  BY NoClientIsNone DEF EventsInv, EventsTypeOK, Install, creator, system, bus
<1>2. SubscriptionsInv'
  BY DEF EventsInv, EventsTypeOK, SubscriptionsInv, Install, creator, system, bus
<1>3. ChannelsInv'
  BY NoClientIsNone DEF EventsInv, EventsTypeOK, ChannelsInv, Install, creator, system, bus
<1>4. ClosedOnce'
  BY NoClientIsNone DEF EventsInv, EventsTypeOK, SubscriptionsInv, ChannelsInv, ClosedOnce, Install, creator, system, bus
<1>. QED BY <1>1, <1>2, <1>3, <1>4 DEF EventsInv

\* Uninstalling closes an error channel and a topic's channel that are open.
LEMMA UninstallStep ==
    ASSUME EventsInv, NEW c \in Clients, Uninstall(c)
    PROVE  EventsInv'
<1>1. EventsTypeOK'
  BY NoClientIsNone DEF EventsInv, EventsTypeOK, Uninstall, RemoveTopic, creator, system, bus
<1>2. SubscriptionsInv'
  BY DEF EventsInv, EventsTypeOK, SubscriptionsInv, Uninstall, RemoveTopic, creator, system, bus
<1>3. ChannelsInv'
  BY NoClientIsNone DEF EventsInv, EventsTypeOK, ChannelsInv, Uninstall, RemoveTopic, creator, system, bus
<1>4. ClosedOnce'
  BY NoClientIsNone DEF EventsInv, EventsTypeOK, SubscriptionsInv, ChannelsInv, ClosedOnce, Uninstall, RemoveTopic, creator, system, bus
<1>. QED BY <1>1, <1>2, <1>3, <1>4 DEF EventsInv

-----------------------------------------------------------------------------
(* Events on their way, and the end of a subscription *)

\* The consumer of events only moves a goroutine from reading to received.
LEMMA ConsumerSteps ==
    ASSUME EventsInv, 
           \/ \E t \in Kinds : LookUp(t)
           \/ SendEvent \/ DropEvent \/ SendOnClosed
    PROVE  EventsInv'
<1>1. EventsTypeOK'
  BY NoClientIsNone DEF EventsInv, EventsTypeOK, LookUp, SendEvent, DropEvent, SendOnClosed, creator, system, bus
<1>2. SubscriptionsInv'
  BY DEF EventsInv, EventsTypeOK, SubscriptionsInv, LookUp, SendEvent, DropEvent, SendOnClosed, creator, system, bus
<1>3. ChannelsInv'
  BY NoClientIsNone DEF EventsInv, EventsTypeOK, ChannelsInv, LookUp, SendEvent, DropEvent, SendOnClosed, creator, system, bus
<1>4. ClosedOnce'
  BY NoClientIsNone DEF EventsInv, EventsTypeOK, SubscriptionsInv, ChannelsInv, ClosedOnce, LookUp, SendEvent, DropEvent, SendOnClosed, creator, system, bus
<1>. QED BY <1>1, <1>2, <1>3, <1>4 DEF EventsInv

\* A goroutine that publishes reads again, and one that notices the end was closed.
LEMMA PublishingSteps ==
    ASSUME EventsInv, NEW ch \in Clients, StartPublishing(ch) \/ PublishAllSubscribers(ch) \/ NoticeClosed(ch)
    PROVE  EventsInv'
<1>1. EventsTypeOK'
  BY NoClientIsNone DEF EventsInv, EventsTypeOK, StartPublishing, PublishAllSubscribers, NoticeClosed, Received, creator, system, bus
<1>2. SubscriptionsInv'
  BY DEF EventsInv, EventsTypeOK, SubscriptionsInv, StartPublishing, PublishAllSubscribers, NoticeClosed, Received, creator, system, bus
<1>3. ChannelsInv'
  BY NoClientIsNone DEF EventsInv, EventsTypeOK, ChannelsInv, StartPublishing, PublishAllSubscribers, NoticeClosed, Received, creator, system, bus
<1>4. ClosedOnce'
  BY NoClientIsNone DEF EventsInv, EventsTypeOK, SubscriptionsInv, ChannelsInv, ClosedOnce, StartPublishing, PublishAllSubscribers, NoticeClosed, Received, creator, system, bus
<1>. QED BY <1>1, <1>2, <1>3, <1>4 DEF EventsInv

\* The subscribers that are closed were not closed before.
LEMMA CloseAllSubscribersStep ==
    ASSUME EventsInv, NEW ch \in Clients, CloseAllSubscribers(ch)
    PROVE  EventsInv'
<1>1. EventsTypeOK'
  BY NoClientIsNone DEF EventsInv, EventsTypeOK, CloseAllSubscribers, Subscribed, creator, system, bus
<1>2. SubscriptionsInv'
  BY DEF EventsInv, EventsTypeOK, SubscriptionsInv, CloseAllSubscribers, Subscribed, creator, system, bus
<1>3. ChannelsInv'
  BY NoClientIsNone DEF EventsInv, EventsTypeOK, ChannelsInv, CloseAllSubscribers, Subscribed, creator, system, bus
<1>4. ClosedOnce'
  BY NoClientIsNone DEF EventsInv, EventsTypeOK, SubscriptionsInv, ChannelsInv, ClosedOnce, CloseAllSubscribers, Subscribed, creator, system, bus
<1>. QED BY <1>1, <1>2, <1>3, <1>4 DEF EventsInv

\* The goroutine of a closed channel may take the name of a topic away.
LEMMA EndPublisherStep ==
    ASSUME EventsInv, NEW ch \in Clients, EndPublisher(ch)
    PROVE  EventsInv'
<1>1. EventsTypeOK'
  BY NoClientIsNone DEF EventsInv, EventsTypeOK, EndPublisher, creator, system, bus
<1>2. SubscriptionsInv'
  BY DEF EventsInv, EventsTypeOK, SubscriptionsInv, EndPublisher, creator, system, bus
<1>3. ChannelsInv'
  BY NoClientIsNone DEF EventsInv, EventsTypeOK, ChannelsInv, EndPublisher, creator, system, bus
<1>4. ClosedOnce'
  BY NoClientIsNone DEF EventsInv, EventsTypeOK, SubscriptionsInv, ChannelsInv, ClosedOnce, EndPublisher, creator, system, bus
<1>. QED BY <1>1, <1>2, <1>3, <1>4 DEF EventsInv

\* The goroutine of a filter ends it on the bus.
LEMMA FilterSteps ==
    ASSUME EventsInv, NEW c \in Clients, Deliver(c) \/ LockToCancel(c) \/ CancelSubs(c) \/ ChannelClosed(c)
    PROVE  EventsInv'
<1>1. EventsTypeOK'
  BY NoClientIsNone DEF EventsInv, EventsTypeOK, Deliver, LockToCancel, CancelSubs, ChannelClosed, creator, system, bus
<1>2. SubscriptionsInv'
  BY DEF EventsInv, EventsTypeOK, SubscriptionsInv, Deliver, LockToCancel, CancelSubs, ChannelClosed, creator, system, bus
<1>3. ChannelsInv'
  BY NoClientIsNone DEF EventsInv, EventsTypeOK, ChannelsInv, Deliver, LockToCancel, CancelSubs, ChannelClosed, creator, system, bus
<1>4. ClosedOnce'
  BY NoClientIsNone DEF EventsInv, EventsTypeOK, SubscriptionsInv, ChannelsInv, ClosedOnce, Deliver, LockToCancel, CancelSubs, ChannelClosed, creator, system, bus
<1>. QED BY <1>1, <1>2, <1>3, <1>4 DEF EventsInv

\* A filter waits for the event loop at most once.
LEMMA UnsubscribeSteps ==
    ASSUME EventsInv, NEW c \in Clients, UninstallFilter(c) \/ WebsocketUnsubscribe(c)
    PROVE  EventsInv'
<1>1. EventsTypeOK'
  BY NoClientIsNone DEF EventsInv, EventsTypeOK, UninstallFilter, WebsocketUnsubscribe, creator, system, bus
<1>2. SubscriptionsInv'
  BY DEF EventsInv, EventsTypeOK, SubscriptionsInv, UninstallFilter, WebsocketUnsubscribe, creator, system, bus
<1>3. ChannelsInv'
  BY NoClientIsNone DEF EventsInv, EventsTypeOK, ChannelsInv, UninstallFilter, WebsocketUnsubscribe, creator, system, bus
<1>4. ClosedOnce'
  BY NoClientIsNone DEF EventsInv, EventsTypeOK, SubscriptionsInv, ChannelsInv, ClosedOnce, UninstallFilter, WebsocketUnsubscribe, creator, system, bus
<1>. QED BY <1>1, <1>2, <1>3, <1>4 DEF EventsInv

\* Every step keeps the invariant.
LEMMA EventsNextInv == EventsInv /\ [EventsNext]_eventsVars => EventsInv'
<1>. SUFFICES ASSUME EventsInv, [EventsNext]_eventsVars PROVE EventsInv'
  OBVIOUS
<1>1. CASE \/ \E t \in Kinds : LookUp(t)
           \/ SendEvent \/ DropEvent \/ SendOnClosed
  BY <1>1, ConsumerSteps
<1>2. ASSUME NEW c \in Clients, Begin(c) \/ Creating(c) PROVE EventsInv'
  BY <1>2, BeginStep, FindTopicStep, SubscribeFailsStep, InstallStep, CheckTopicStep,
     LockToInsertStep, InsertStep DEF Creating
<1>3. ASSUME NEW c \in Clients, Publishing(c) PROVE EventsInv'
  BY <1>3, PublishingSteps, CloseAllSubscribersStep, EndPublisherStep DEF Publishing
<1>4. ASSUME NEW c \in Clients, FilterGoes(c) \/ ChannelClosed(c) PROVE EventsInv'
  BY <1>4, FilterSteps DEF FilterGoes
<1>5. ASSUME NEW c \in Clients, Uninstall(c) \/ UninstallFilter(c) \/ WebsocketUnsubscribe(c)
      PROVE  EventsInv'
  BY <1>5, UninstallStep, UnsubscribeSteps
<1>6. CASE UNCHANGED eventsVars
  BY <1>6 DEF eventsVars, creator, system, bus, EventsInv, EventsTypeOK, SubscriptionsInv,
     ChannelsInv, ClosedOnce
<1>. QED BY <1>1, <1>2, <1>3, <1>4, <1>5, <1>6 DEF EventsNext

\* Every reachable state satisfies the invariant.
LEMMA EventsInvariance == EventsSpec => []EventsInv
<1>. QED BY EventsInitInv, EventsNextInv, PTL DEF EventsSpec

\* However many subscriptions are made and ended, neither the event loop nor the
\* bus closes a channel twice (eventLoop, closeAllSubscribers).
THEOREM ChannelsCloseOnce == EventsSpec => []ClosedOnce
<1>1. EventsInv => ClosedOnce
  BY DEF EventsInv
<1>. QED BY <1>1, EventsInvariance, PTL

\* A topic the bus offers has an open channel and a goroutine that reads it.
THEOREM TopicsStayFed == EventsSpec => []TopicsFed
<1>1. EventsInv => TopicsFed
  BY DEF EventsInv, ChannelsInv, TopicsFed
<1>. QED BY <1>1, EventsInvariance, PTL

-----------------------------------------------------------------------------
(* ERC-20 pairs: what coins and tokens are worth *)

\* What holds of one pair: the module's own contracts live, tokens and coins
\* back each other, and the value of the pair is whole.
PairInv(d) ==
    /\ d \in NativeCoins => contractCode[d] /\ escrowCoin[d] = userToken[d]
    /\ d \in NativeERC20s /\ contractCode[d] => escrowToken[d] = userCoin[d] + channel[d]
    /\ contractCode[d] => userCoin[d] + userToken[d] + channel[d] = Total

\* The inductive invariant of the ERC-20 module.
ERC20Inv == ERC20TypeOK /\ RegistryAgrees /\ \A d \in Pairs : PairInv(d)

\* Genesis satisfies the invariant.
LEMMA ERC20InitInv == ERC20Init => ERC20Inv
<1>. SUFFICES ASSUME ERC20Init PROVE ERC20Inv
  OBVIOUS
<1>1. channel \in [Pairs -> Nat] /\ \A d \in Pairs : channel[d] <= Total
  <2>1. Abroad \cup {0} \subseteq Nat /\ \A n \in Abroad \cup {0} : n <= Total
    BY ERC20Assumption
  <2>2. channel \in [Pairs -> Abroad \cup {0}]
    BY DEF ERC20Init
  <2>. QED BY <2>1, <2>2
<1>2. userCoin \in [Pairs -> Nat] /\ userToken \in [Pairs -> Nat]
  BY <1>1, ERC20Assumption DEF ERC20Init
<1>3. ERC20TypeOK
  BY <1>1, <1>2 DEF ERC20Init, ERC20TypeOK, Pairs
<1>4. RegistryAgrees
  BY DEF ERC20Init, RegistryAgrees
<1>5. ASSUME NEW d \in Pairs PROVE PairInv(d)
  BY <1>1, ERC20Assumption DEF ERC20Init, PairInv, Pairs
<1>. QED BY <1>3, <1>4, <1>5 DEF ERC20Inv

-----------------------------------------------------------------------------
(* Steps on one pair *)

\* The coins ICS-20 keeps of pair d become c, those of other pairs stay.
ChannelBecomes(d, c) ==
    /\ channel' \in [Pairs -> Nat] /\ channel'[d] = c
    /\ \A x \in Pairs \ {d} : channel'[x] = channel[x]

\* The holdings of every other pair stay.
OthersHold(d) ==
    \A x \in Pairs \ {d} : /\ userCoin'[x] = userCoin[x] /\ userToken'[x] = userToken[x]
                           /\ escrowCoin'[x] = escrowCoin[x] /\ escrowToken'[x] = escrowToken[x]

HoldingsOK ==
    /\ userCoin \in [Pairs -> Nat] /\ userToken \in [Pairs -> Nat]
    /\ escrowCoin \in [Pairs -> Nat] /\ escrowToken \in [Pairs -> Nat]

PacketsOK ==
    packets \in [Packets -> {NoPacket} \cup [state : {"sent", "failed"}, pair : Pairs, amount : Amounts]]

RegistryOK ==
    /\ tokenPairs \subseteq Pairs /\ pairEnabled \in [Pairs -> BOOLEAN] /\ metadata \subseteq Pairs
    /\ RegistryAgrees

\* A step that touches the holdings of one pair keeps the invariant if it
\* keeps what holds of that pair.
LEMMA OnePair ==
    ASSUME ERC20Inv, NEW d \in Pairs, NEW c, UNCHANGED <<enableErc20, contractCode>>,
           RegistryOK', PacketsOK', HoldingsOK', OthersHold(d), ChannelBecomes(d, c), PairInv(d)'
    PROVE  ERC20Inv'
<1>1. ERC20TypeOK'
  BY DEF ERC20Inv, ERC20TypeOK, RegistryOK, RegistryAgrees, PacketsOK, HoldingsOK, ChannelBecomes
<1>2. ASSUME NEW x \in Pairs \ {d} PROVE PairInv(x)'
  BY DEF ERC20Inv, PairInv, OthersHold, ChannelBecomes
<1>. QED BY <1>1, <1>2 DEF ERC20Inv, RegistryOK

\* Coins into tokens, of what the holder has and the "in" coins ICS-20 gives back.
LEMMA ConvertCoinStep ==
    ASSUME ERC20Inv, NEW d \in Pairs, NEW in \in Nat, in <= channel[d], NEW amount \in Nat,
           ConvertCoin(d, userCoin[d] + in, amount), ChannelBecomes(d, channel[d] - in),
           UNCHANGED <<enableErc20, contractCode>>, PacketsOK'
    PROVE  ERC20Inv'
<1>. DEFINE coins == userCoin[d] + in
<1>1. ERC20TypeOK /\ RegistryAgrees /\ PairInv(d)
  BY DEF ERC20Inv
<1>2. coins \in Nat /\ channel[d] \in Nat
  BY <1>1 DEF ERC20TypeOK
<1>3. CASE ~contractCode[d]
  <2>1. /\ userCoin' = [userCoin EXCEPT ![d] = coins] /\ DeleteTokenPair(d)
        /\ UNCHANGED <<userToken, escrowCoin, escrowToken>>
    BY <1>3 DEF ConvertCoin
  <2>2. RegistryOK'
    BY <1>1, <2>1 DEF ERC20TypeOK, RegistryOK, RegistryAgrees, DeleteTokenPair
  <2>3. HoldingsOK' /\ OthersHold(d)
    BY <1>1, <1>2, <2>1 DEF ERC20TypeOK, HoldingsOK, OthersHold
  <2>4. PairInv(d)'
    BY <1>1, <1>3, Zenon DEF PairInv
  <2>. QED BY <2>2, <2>3, <2>4, OnePair
<1>4. CASE contractCode[d] /\ d \in NativeCoins
  <2>1. /\ amount <= coins /\ userCoin' = [userCoin EXCEPT ![d] = coins - amount]
        /\ escrowCoin' = [escrowCoin EXCEPT ![d] = @ + amount]
        /\ userToken' = [userToken EXCEPT ![d] = @ + amount]
        /\ UNCHANGED <<escrowToken, registryVars>>
    BY <1>4, ERC20Assumption, Zenon DEF ConvertCoin, ConvertCoinNativeCoin
  <2>2. RegistryOK'
    BY <1>1, <2>1 DEF ERC20TypeOK, RegistryOK, RegistryAgrees, registryVars
  <2>3. HoldingsOK' /\ OthersHold(d)
    BY <1>1, <1>2, <2>1 DEF ERC20TypeOK, HoldingsOK, OthersHold
  <2>4. PairInv(d)'
    BY <1>1, <1>2, <1>4, <2>1, ERC20Assumption DEF PairInv, ERC20TypeOK, ChannelBecomes
  <2>. QED BY <2>2, <2>3, <2>4, OnePair
<1>5. CASE contractCode[d] /\ d \in NativeERC20s
  <2>1. /\ amount <= coins /\ amount <= escrowToken[d]
        /\ userCoin' = [userCoin EXCEPT ![d] = coins - amount]
        /\ escrowToken' = [escrowToken EXCEPT ![d] = @ - amount]
        /\ userToken' = [userToken EXCEPT ![d] = @ + amount]
        /\ UNCHANGED <<escrowCoin, registryVars>>
    BY <1>5, ERC20Assumption, Zenon DEF ConvertCoin, ConvertCoinNativeERC20
  <2>2. RegistryOK'
    BY <1>1, <2>1 DEF ERC20TypeOK, RegistryOK, RegistryAgrees, registryVars
  <2>3. HoldingsOK' /\ OthersHold(d)
    BY <1>1, <1>2, <2>1 DEF ERC20TypeOK, HoldingsOK, OthersHold
  <2>4. PairInv(d)'
    BY <1>1, <1>2, <1>5, <2>1, ERC20Assumption DEF PairInv, ERC20TypeOK, ChannelBecomes
  <2>. QED BY <2>2, <2>3, <2>4, OnePair
<1>. QED BY <1>3, <1>4, <1>5 DEF Pairs, ConvertCoin

\* Tokens into coins, of which "sent" leave for ICS-20 in the same message.
LEMMA ConvertERC20Step ==
    ASSUME ERC20Inv, NEW d \in Pairs, NEW amount \in Nat, NEW sent \in Nat,
           sent <= userCoin[d] + amount,
           ConvertERC20(d, amount, sent), ChannelBecomes(d, channel[d] + sent),
           UNCHANGED <<enableErc20, contractCode>>, PacketsOK'
    PROVE  ERC20Inv'
<1>1. ERC20TypeOK /\ RegistryAgrees /\ PairInv(d)
  BY DEF ERC20Inv
<1>2. CASE ~contractCode[d]
  <2>1. DeleteTokenPair(d) /\ UNCHANGED <<userCoin, userToken, escrowCoin, escrowToken>>
    BY <1>2 DEF ConvertERC20, holdings
  <2>2. RegistryOK'
    BY <1>1, <2>1 DEF ERC20TypeOK, RegistryOK, RegistryAgrees, DeleteTokenPair
  <2>3. HoldingsOK' /\ OthersHold(d)
    BY <1>1, <2>1 DEF ERC20TypeOK, HoldingsOK, OthersHold
  <2>4. PairInv(d)'
    BY <1>1, <1>2 DEF PairInv
  <2>. QED BY <2>2, <2>3, <2>4, OnePair
<1>3. CASE contractCode[d] /\ d \in NativeCoins
  <2>1. /\ amount <= userToken[d] /\ amount <= escrowCoin[d]
        /\ userToken' = [userToken EXCEPT ![d] = @ - amount]
        /\ escrowCoin' = [escrowCoin EXCEPT ![d] = @ - amount]
        /\ userCoin' = [userCoin EXCEPT ![d] = @ + amount - sent]
        /\ UNCHANGED <<escrowToken, registryVars>>
    BY <1>3, ERC20Assumption DEF ConvertERC20, ConvertERC20NativeCoin
  <2>2. RegistryOK'
    BY <1>1, <2>1 DEF ERC20TypeOK, RegistryOK, RegistryAgrees, registryVars
  <2>3. HoldingsOK' /\ OthersHold(d)
    BY <1>1, <2>1 DEF ERC20TypeOK, HoldingsOK, OthersHold
  <2>4. PairInv(d)'
    BY <1>1, <1>3, <2>1, ERC20Assumption DEF PairInv, ERC20TypeOK, ChannelBecomes
  <2>. QED BY <2>2, <2>3, <2>4, OnePair
<1>4. CASE contractCode[d] /\ d \in NativeERC20s
  <2>1. /\ amount <= userToken[d]
        /\ userToken' = [userToken EXCEPT ![d] = @ - amount]
        /\ escrowToken' = [escrowToken EXCEPT ![d] = @ + amount]
        /\ userCoin' = [userCoin EXCEPT ![d] = @ + amount - sent]
        /\ UNCHANGED <<escrowCoin, registryVars>>
    BY <1>4, ERC20Assumption DEF ConvertERC20, ConvertERC20NativeToken
  <2>2. RegistryOK'
    BY <1>1, <2>1 DEF ERC20TypeOK, RegistryOK, RegistryAgrees, registryVars
  <2>3. HoldingsOK' /\ OthersHold(d)
    BY <1>1, <2>1 DEF ERC20TypeOK, HoldingsOK, OthersHold
  <2>4. PairInv(d)'
    BY <1>1, <1>4, <2>1, ERC20Assumption DEF PairInv, ERC20TypeOK, ChannelBecomes
  <2>. QED BY <2>2, <2>3, <2>4, OnePair
<1>. QED BY <1>2, <1>3, <1>4, Zenon DEF Pairs, ConvertERC20

\* Coins that change hands between the holder and ICS-20 without a conversion.
LEMMA MoveCoins ==
    ASSUME ERC20Inv, NEW d \in Pairs, NEW c \in Nat, userCoin[d] + channel[d] - c \in Nat,
           userCoin' = [userCoin EXCEPT ![d] = userCoin[d] + channel[d] - c],
           ChannelBecomes(d, c),
           UNCHANGED <<enableErc20, contractCode, registryVars, userToken, escrowCoin, escrowToken>>,
           PacketsOK'
    PROVE  ERC20Inv'
<1>1. ERC20TypeOK /\ RegistryAgrees /\ PairInv(d)
  BY DEF ERC20Inv
<1>2. RegistryOK'
  BY <1>1 DEF ERC20TypeOK, RegistryOK, RegistryAgrees, registryVars
<1>3. HoldingsOK' /\ OthersHold(d)
  BY <1>1 DEF ERC20TypeOK, HoldingsOK, OthersHold
<1>4. PairInv(d)'
  BY <1>1, ERC20Assumption DEF PairInv, ERC20TypeOK, ChannelBecomes
<1>. QED BY <1>2, <1>3, <1>4, OnePair, Zenon

-----------------------------------------------------------------------------
(* The actions *)

\* New parameters keep the invariant.
LEMMA SetParamsStep ==
    ASSUME ERC20Inv, SetParams
    PROVE  ERC20Inv'
<1>1. ERC20TypeOK' /\ RegistryAgrees'
  BY DEF SetParams, ERC20Inv, ERC20TypeOK, RegistryAgrees, registryVars, holdings
<1>. QED BY <1>1 DEF SetParams, ERC20Inv, PairInv, holdings

\* Registration, toggling and the end of a contract keep the invariant.
LEMMA RegistrySteps ==
    ASSUME ERC20Inv, NEW d \in Pairs,
           RegisterERC20(d) \/ ToggleConversion(d) \/ DestroyContract(d)
    PROVE  ERC20Inv'
<1>0. ERC20TypeOK /\ RegistryAgrees
  BY DEF ERC20Inv
<1>2. CASE RegisterERC20(d)
  <2>1. ERC20TypeOK' /\ RegistryAgrees'
    BY <1>0, <1>2 DEF RegisterERC20, ERC20TypeOK, RegistryAgrees, holdings
  <2>. QED BY <1>2, <2>1, Zenon DEF RegisterERC20, ERC20Inv, PairInv, holdings
<1>3. CASE ToggleConversion(d)
  <2>1. ERC20TypeOK' /\ RegistryAgrees'
    BY <1>0, <1>3 DEF ToggleConversion, ERC20TypeOK, RegistryAgrees, holdings
  <2>. QED BY <1>3, <2>1, Zenon DEF ToggleConversion, ERC20Inv, PairInv, holdings
<1>4. CASE DestroyContract(d)
  <2>1. ERC20TypeOK' /\ RegistryAgrees'
    BY <1>0, <1>4 DEF DestroyContract, ERC20TypeOK, RegistryAgrees, registryVars
  <2>2. /\ d \in NativeERC20s /\ d \notin NativeCoins /\ ~contractCode'[d]
        /\ UNCHANGED <<userCoin, escrowCoin, channel>>
        /\ \A x \in Pairs \ {d} : /\ contractCode'[x] = contractCode[x]
                                  /\ userToken'[x] = userToken[x] /\ escrowToken'[x] = escrowToken[x]
    BY <1>0, <1>4, ERC20Assumption DEF DestroyContract, ERC20TypeOK
  <2>3. ASSUME NEW x \in Pairs PROVE PairInv(x)'
    <3>1. CASE x = d
      BY <2>2, <3>1 DEF PairInv
    <3>2. CASE x # d
      BY <2>2, <3>2 DEF ERC20Inv, PairInv
    <3>. QED BY <3>1, <3>2
  <2>. QED BY <2>1, <2>3 DEF ERC20Inv
<1>. QED BY <1>2, <1>3, <1>4

\* A message that converts keeps the invariant.
LEMMA MessageSteps ==
    ASSUME ERC20Inv, NEW d \in Pairs, NEW amount \in Amounts,
           MsgConvertCoin(d, amount) \/ MsgConvertERC20(d, amount)
    PROVE  ERC20Inv'
<1>1. /\ amount \in Nat /\ ERC20TypeOK /\ UNCHANGED <<enableErc20, contractCode, channel, packets>>
  BY ERC20Assumption DEF ERC20Inv, MsgConvertCoin, MsgConvertERC20
<1>2. PacketsOK' /\ ChannelBecomes(d, channel[d])
  BY <1>1 DEF ERC20TypeOK, PacketsOK, ChannelBecomes
<1>3. /\ 0 \in Nat /\ 0 <= channel[d] /\ 0 <= userCoin[d] + amount
      /\ userCoin[d] + 0 = userCoin[d]
      /\ channel[d] - 0 = channel[d] /\ channel[d] + 0 = channel[d]
  BY <1>1 DEF ERC20TypeOK
<1>4. CASE MsgConvertCoin(d, amount)
  <2>1. ConvertCoin(d, userCoin[d] + 0, amount)
    BY <1>3, <1>4 DEF MsgConvertCoin
  <2>2. ChannelBecomes(d, channel[d] - 0)
    BY <1>2, <1>3
  <2>. QED BY <1>1, <1>2, <1>3, <2>1, <2>2, ConvertCoinStep, Zenon
<1>5. CASE MsgConvertERC20(d, amount)
  <2>1. ConvertERC20(d, amount, 0)
    BY <1>5 DEF MsgConvertERC20
  <2>2. ChannelBecomes(d, channel[d] + 0)
    BY <1>2, <1>3
  <2>. QED BY <1>1, <1>2, <1>3, <2>1, <2>2, ConvertERC20Step, Zenon
<1>. QED BY <1>4, <1>5

\* A transfer over IBC keeps the invariant.
LEMMA TransferSteps ==
    ASSUME ERC20Inv, NEW d \in Pairs, NEW amount \in Amounts, NEW p \in Packets,
           TransferCoins(p, d, amount) \/ TransferConverting(p, d, amount)
    PROVE  ERC20Inv'
<1>1. amount \in Nat /\ ERC20TypeOK /\ userCoin[d] \in Nat /\ channel[d] \in Nat
  BY ERC20Assumption DEF ERC20Inv, ERC20TypeOK
<1>2. SendPacket(p, d, amount) /\ UNCHANGED <<enableErc20, contractCode>>
  BY DEF TransferCoins, TransferConverting
<1>3. PacketsOK'
  <2>1. [state |-> "sent", pair |-> d, amount |-> amount]
          \in [state : {"sent", "failed"}, pair : Pairs, amount : Amounts]
    OBVIOUS
  <2>. QED BY <1>1, <1>2, <2>1 DEF ERC20TypeOK, PacketsOK, SendPacket
<1>4. ChannelBecomes(d, channel[d] + amount)
  BY <1>1, <1>2 DEF SendPacket, ERC20TypeOK, ChannelBecomes
<1>5. CASE TransferCoins(p, d, amount)
  <2>1. /\ amount <= userCoin[d]
        /\ userCoin' = [userCoin EXCEPT ![d] = userCoin[d] - amount]
        /\ UNCHANGED <<registryVars, userToken, escrowCoin, escrowToken>>
    BY <1>5 DEF TransferCoins
  <2>2. /\ channel[d] + amount \in Nat
        /\ userCoin[d] + channel[d] - (channel[d] + amount) = userCoin[d] - amount
        /\ userCoin[d] - amount \in Nat
    BY <1>1, <2>1
  <2>. QED BY <1>2, <1>3, <1>4, <2>1, <2>2, MoveCoins, Zenon
<1>6. CASE TransferConverting(p, d, amount)
  <2>1. userCoin[d] < amount /\ ConvertERC20(d, amount - userCoin[d], amount)
    BY <1>6 DEF TransferConverting
  <2>2. amount - userCoin[d] \in Nat /\ amount <= userCoin[d] + (amount - userCoin[d])
    BY <1>1, <2>1
  <2>. QED BY <1>1, <1>2, <1>3, <1>4, <2>1, <2>2, ConvertERC20Step
<1>. QED BY <1>5, <1>6

\* Coins ICS-20 gives back, converted or not, keep the invariant.
LEMMA ReleasedCoins ==
    ASSUME ERC20Inv, NEW d \in Pairs, NEW in \in Nat, NEW amount \in Nat, ReleaseCoins(d, in),
           \/ ConvertCoin(d, userCoin[d] + in, amount)
           \/ /\ userCoin' = [userCoin EXCEPT ![d] = userCoin[d] + in]
              /\ UNCHANGED <<registryVars, userToken, escrowCoin, escrowToken>>,
           UNCHANGED <<enableErc20, contractCode>>, PacketsOK'
    PROVE  ERC20Inv'
<1>1. ERC20TypeOK /\ userCoin[d] \in Nat /\ channel[d] \in Nat
  BY DEF ERC20Inv, ERC20TypeOK
<1>2. in <= channel[d] /\ ChannelBecomes(d, channel[d] - in)
  BY <1>1 DEF ReleaseCoins, ERC20TypeOK, ChannelBecomes
<1>3. CASE ConvertCoin(d, userCoin[d] + in, amount)
  BY <1>2, <1>3, ConvertCoinStep
<1>4. CASE /\ userCoin' = [userCoin EXCEPT ![d] = userCoin[d] + in]
           /\ UNCHANGED <<registryVars, userToken, escrowCoin, escrowToken>>
  <2>1. /\ channel[d] - in \in Nat /\ userCoin[d] + in \in Nat
        /\ userCoin[d] + channel[d] - (channel[d] - in) = userCoin[d] + in
    BY <1>1, <1>2
  <2>. QED BY <1>2, <1>4, <2>1, MoveCoins, Zenon
<1>. QED BY <1>3, <1>4

\* A packet received, and a transfer refunded, keep the invariant.
LEMMA CreditSteps ==
    ASSUME ERC20Inv,
           \/ \E d \in Pairs, amount \in Amounts, recovery \in BOOLEAN : OnRecvPacket(d, amount, recovery)
           \/ \E p \in Packets : OnPacketFailed(p)
    PROVE  ERC20Inv'
<1>1. ERC20TypeOK
  BY DEF ERC20Inv
<1>2. ASSUME NEW d \in Pairs, NEW amount \in Amounts, NEW recovery \in BOOLEAN,
             OnRecvPacket(d, amount, recovery)
      PROVE  ERC20Inv'
  <2>1. /\ ReleaseCoins(d, amount) /\ UNCHANGED <<enableErc20, contractCode, packets>>
        /\ \/ ConvertCoin(d, userCoin[d] + amount, userCoin[d] + amount)
           \/ /\ userCoin' = [userCoin EXCEPT ![d] = userCoin[d] + amount]
              /\ UNCHANGED <<registryVars, userToken, escrowCoin, escrowToken>>
    BY <1>2 DEF OnRecvPacket
  <2>2. amount \in Nat /\ userCoin[d] + amount \in Nat /\ PacketsOK'
    BY <1>1, <2>1, ERC20Assumption DEF ERC20TypeOK, PacketsOK
  <2>. QED BY <2>1, <2>2, ReleasedCoins
<1>3. ASSUME NEW p \in Packets, OnPacketFailed(p) PROVE ERC20Inv'
  <2>. DEFINE d == packets[p].pair
              amount == packets[p].amount
  <2>1. packets[p].state = "failed" /\ packets[p] # NoPacket
    BY <1>3 DEF OnPacketFailed, NoPacket
  <2>2. packets[p] \in [state : {"sent", "failed"}, pair : Pairs, amount : Amounts]
    BY <1>1, <2>1 DEF ERC20TypeOK
  <2>3. d \in Pairs /\ amount \in Nat
    BY <2>2, ERC20Assumption, Zenon
  <2>4. /\ ReleaseCoins(d, amount) /\ UNCHANGED <<enableErc20, contractCode>>
        /\ \/ ConvertCoin(d, userCoin[d] + amount, amount)
           \/ /\ userCoin' = [userCoin EXCEPT ![d] = userCoin[d] + amount]
              /\ UNCHANGED <<registryVars, userToken, escrowCoin, escrowToken>>
    BY <1>3, Zenon DEF OnPacketFailed, ConvertCoinToERC20FromPacket
  <2>5. PacketsOK'
    BY <1>1, <1>3 DEF ERC20TypeOK, OnPacketFailed, PacketsOK
  <2>. HIDE DEF d, amount
  <2>. QED BY <2>3, <2>4, <2>5, ReleasedCoins
<1>. QED BY <1>2, <1>3

\* The answer to a packet keeps the invariant.
LEMMA AnswerSteps ==
    ASSUME ERC20Inv, NEW p \in Packets, PacketAccepted(p) \/ PacketFails(p)
    PROVE  ERC20Inv'
<1>1. ERC20TypeOK
  BY DEF ERC20Inv
<1>2. packets[p].state = "sent" /\ packets[p] # NoPacket
  BY DEF PacketAccepted, PacketFails, NoPacket
<1>3. packets[p] \in [state : {"sent", "failed"}, pair : Pairs, amount : Amounts]
  BY <1>1, <1>2 DEF ERC20TypeOK
<1>4. [packets[p] EXCEPT !.state = "failed"] \in [state : {"sent", "failed"}, pair : Pairs, amount : Amounts]
  BY <1>3
<1>5. PacketsOK'
  <2>1. packets' = [packets EXCEPT ![p] = NoPacket]
        \/ packets' = [packets EXCEPT ![p] = [packets[p] EXCEPT !.state = "failed"]]
    BY DEF PacketAccepted, PacketFails
  <2>. QED BY <1>1, <1>4, <2>1 DEF ERC20TypeOK, PacketsOK
<1>6. UNCHANGED <<enableErc20, registryVars, contractCode, holdings, channel>>
  BY DEF PacketAccepted, PacketFails
<1>7. ERC20TypeOK' /\ RegistryAgrees'
  BY <1>1, <1>5, <1>6 DEF ERC20Inv, ERC20TypeOK, PacketsOK, RegistryAgrees, registryVars, holdings
<1>. QED BY <1>6, <1>7, Zenon DEF ERC20Inv, PairInv, holdings

\* Every step keeps the invariant.
LEMMA ERC20NextInv == ERC20Inv /\ [ERC20Next]_erc20Vars => ERC20Inv'
<1>. SUFFICES ASSUME ERC20Inv, [ERC20Next]_erc20Vars PROVE ERC20Inv'
  OBVIOUS
<1>1. CASE SetParams
  BY <1>1, SetParamsStep
<1>2. ASSUME NEW d \in Pairs, RegisterERC20(d) \/ ToggleConversion(d) \/ DestroyContract(d)
      PROVE  ERC20Inv'
  BY <1>2, RegistrySteps
<1>3. ASSUME NEW d \in Pairs, NEW amount \in Amounts,
             MsgConvertCoin(d, amount) \/ MsgConvertERC20(d, amount)
      PROVE  ERC20Inv'
  BY <1>3, MessageSteps
<1>4. ASSUME NEW d \in Pairs, NEW amount \in Amounts, NEW p \in Packets,
             TransferCoins(p, d, amount) \/ TransferConverting(p, d, amount)
      PROVE  ERC20Inv'
  BY <1>4, TransferSteps
<1>5. CASE UNCHANGED erc20Vars
  BY <1>5 DEF erc20Vars, registryVars, holdings, ERC20Inv, ERC20TypeOK, RegistryAgrees, PairInv
<1>. QED BY <1>1, <1>2, <1>3, <1>4, <1>5, CreditSteps, AnswerSteps DEF ERC20Next

\* Every reachable state satisfies the invariant.
LEMMA ERC20Invariance == ERC20Spec => []ERC20Inv
<1>. QED BY ERC20InitInv, ERC20NextInv, PTL DEF ERC20Spec

\* Whatever is registered, toggled and deleted on the way, the three stores of
\* the ERC-20 registry (SetTokenPair, DeleteTokenPair) name the same pairs.
THEOREM RegistryStaysInAgreement == ERC20Spec => []RegistryAgrees
<1>1. ERC20Inv => RegistryAgrees
  BY DEF ERC20Inv
<1>. QED BY <1>1, ERC20Invariance, PTL

\* Tokens of the module's contracts are backed by escrowed coins, and coins of
\* foreign contracts by escrowed tokens, in the four conversions of msg_server.go
\* and the IBC callbacks that call them.
THEOREM ConversionsStayBacked == ERC20Spec => []Backed
<1>1. ERC20Inv => Backed
  BY DEF ERC20Inv, PairInv, Backed, Pairs
<1>. QED BY <1>1, ERC20Invariance, PTL

\* Conversions, transfers, refunds and receipts create and lose no value.
THEOREM NoValueMade == ERC20Spec => []ValueKept
<1>1. ERC20Inv => ValueKept
  BY DEF ERC20Inv, PairInv, ValueKept
<1>. QED BY <1>1, ERC20Invariance, PTL
=============================================================================
