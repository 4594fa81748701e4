------------------------------- MODULE Events -------------------------------
(* The event system behind the JSON-RPC filters and websocket subscriptions: *)
(* an event loop that installs topics, a loop that consumes the events of    *)
(* the node, the event bus with a goroutine per topic, and the goroutine of  *)
(* each filter.  The HTTP filters and the websocket server have an event     *)
(* system each; "api" is whose this one is.  An event carries nothing here,  *)
(* and a critical section without a wait in it is one step.                  *)
EXTENDS Naturals

CONSTANTS NClients,    \* bound: subscriptions made, numbered in the order they are made in
          KindChoices  \* types they may have: functions in [Clients -> Kinds]

Clients == 1 .. NClients
NoClient == 0

Kinds == {"blocks", "logs", "pending"}

ASSUME EventsAssumption == NClients \in Nat /\ KindChoices \subseteq [Clients -> Kinds]

VARIABLES api,         \* "filters" or "websockets"
          kind,        \* type of each subscription, which is also its topic
          pc,          \* where the call that makes the subscription is
          filtersMu,   \* who holds the mutex of PublicFilterAPI
          filters,     \* PublicFilterAPI.filters
          index,       \* EventSystem.index
          topicChans,  \* EventSystem.topicChans: each channel is named after who installed it
          closedChans, \* channels of topics that were closed
          topics,      \* memEventBus.topics
          subscribers, \* memEventBus.subscribers, of all topics
          publisher,   \* state of the goroutine publishTopic of each channel
          consumer,    \* the channel consumeEvents has an event for
          uninstall,   \* subscriptions whose Unsubscribe waits for the event loop
          eventClosed, \* subscriptions whose event channel is closed
          errClosed,   \* subscriptions whose error channel is closed
          goroutine,   \* state of the goroutine of each subscription
          panicked     \* "none", or what stopped the process

creator == <<pc, filtersMu>>
system == <<index, topicChans, closedChans, uninstall, errClosed>>
bus == <<topics, subscribers, publisher, eventClosed>>
eventsVars == <<api, kind, creator, filters, system, bus, consumer, goroutine, panicked>>

\* Types; the mutex of the API is held by a call that has not returned.
EventsTypeOK ==
    /\ api \in {"filters", "websockets"} /\ kind \in [Clients -> Kinds]
    /\ pc \in [Clients -> {"idle", "topics", "install", "check", "insert", "locking", "done", "failed"}]
    /\ filtersMu \in {NoClient} \cup {c \in Clients : pc[c] \notin {"idle", "done", "failed"}}
    /\ filters \subseteq Clients /\ index \subseteq Clients
    /\ topicChans \in [Kinds -> Clients \cup {NoClient}] /\ closedChans \subseteq Clients
    /\ topics \subseteq Kinds /\ subscribers \subseteq Clients
    /\ publisher \in [Clients -> {"none", "reading", "received", "publishing", "closing", "removing", "ended"}]
    /\ consumer \in Clients \cup {NoClient}
    /\ uninstall \subseteq Clients /\ eventClosed \subseteq Clients /\ errClosed \subseteq Clients
    /\ goroutine \in [Clients -> {"none", "select", "deliver", "cancel", "locking", "ended"}]
    /\ panicked \in {"none", "send", "close"}

EventsInit ==
    /\ api \in {"filters", "websockets"} /\ kind \in KindChoices
    /\ pc = [c \in Clients |-> "idle"] /\ filtersMu = NoClient
    /\ filters = {} /\ index = {}
    /\ topicChans = [t \in Kinds |-> NoClient] /\ closedChans = {}
    /\ topics = {} /\ subscribers = {}
    /\ publisher = [c \in Clients |-> "none"] /\ consumer = NoClient
    /\ uninstall = {} /\ eventClosed = {} /\ errClosed = {}
    /\ goroutine = [c \in Clients |-> "none"] /\ panicked = "none"

\* The mutex of the bus's subscribers: publishing holds it for reading, and a
\* writer that waits for it keeps new readers out.
SubscribersFree == \A c \in Clients : publisher[c] # "publishing"
WriterWaits == \E c \in Clients :
    pc[c] = "locking" \/ goroutine[c] = "locking" \/ publisher[c] = "closing"

-----------------------------------------------------------------------------
(* Making a subscription: EventSystem.subscribe in a call of the API.       *)

\* A filter is made with the mutex of the API held all along.
Begin(c) ==
    /\ pc[c] = "idle" /\ \A d \in 1 .. c - 1 : pc[d] # "idle"
    /\ IF api = "filters" THEN filtersMu = NoClient /\ filtersMu' = c ELSE UNCHANGED filtersMu
    /\ pc' = [pc EXCEPT ![c] = "topics"]
    /\ UNCHANGED <<api, kind, filters, system, bus, consumer, goroutine, panicked>>

Return(c, result) ==
    /\ pc' = [pc EXCEPT ![c] = result]
    /\ filtersMu' = IF filtersMu = c THEN NoClient ELSE filtersMu

\* A topic that exists is subscribed to, and nothing is installed for it.
FindTopic(c) ==
    /\ pc[c] = "topics"
    /\ pc' = [pc EXCEPT ![c] = IF kind[c] \in topics THEN "check" ELSE "install"]
    /\ UNCHANGED <<api, kind, filtersMu, filters, system, bus, consumer, goroutine, panicked>>

\* The node refuses the query.
SubscribeFails(c) ==
    /\ pc[c] = "install"
    /\ Return(c, "failed")
    /\ UNCHANGED <<api, kind, filters, system, bus, consumer, goroutine, panicked>>

\* memEventBus.Subscribe looks for the topic first.
CheckTopic(c) ==
    /\ pc[c] = "check"
    /\ IF kind[c] \in topics
       THEN pc' = [pc EXCEPT ![c] = "insert"] /\ UNCHANGED filtersMu
       ELSE Return(c, "failed")
    /\ UNCHANGED <<api, kind, filters, system, bus, consumer, goroutine, panicked>>

LockToInsert(c) ==
    /\ pc[c] = "insert" /\ pc' = [pc EXCEPT ![c] = "locking"]
    /\ UNCHANGED <<api, kind, filtersMu, filters, system, bus, consumer, goroutine, panicked>>

\* Then it adds the subscriber; the goroutine of the subscription starts.
Insert(c) ==
    /\ pc[c] = "locking" /\ SubscribersFree
    /\ subscribers' = subscribers \cup {c}
    /\ filters' = IF api = "filters" THEN filters \cup {c} ELSE filters
    /\ goroutine' = [goroutine EXCEPT ![c] = "select"]
    /\ Return(c, "done")
    /\ UNCHANGED <<api, kind, system, topics, publisher, eventClosed, consumer, panicked>>

-----------------------------------------------------------------------------
(* eventLoop.                                                               *)

\* A topic is added unless it is there already.
Install(c) ==
    /\ pc[c] = "install"
    /\ index' = index \cup {c}
    /\ IF kind[c] \in topics
       THEN UNCHANGED <<topics, topicChans, publisher>>
       ELSE /\ topics' = topics \cup {kind[c]}
            /\ topicChans' = [topicChans EXCEPT ![kind[c]] = c]
            /\ publisher' = [publisher EXCEPT ![c] = "reading"]
    /\ pc' = [pc EXCEPT ![c] = "check"]
    /\ UNCHANGED <<api, kind, filtersMu, filters, closedChans, uninstall, errClosed,
                   subscribers, eventClosed, consumer, goroutine, panicked>>

\* Fault: the name of the topic is left to the topic's goroutine.
RemoveTopic_Later(t) == UNCHANGED topics

RemoveTopic(t) == topics' = topics \ {t}

\* The topic goes with the last subscription that was installed for it.
Uninstall(c) ==
    LET ch == topicChans[kind[c]]
        inUse == \E s \in index \ {c} : kind[s] = kind[c]
    IN  /\ c \in uninstall
        /\ uninstall' = uninstall \ {c}
        /\ index' = index \ {c}
        /\ IF ~inUse /\ ch # NoClient
           THEN /\ RemoveTopic(kind[c])
                /\ closedChans' = closedChans \cup {ch}
                /\ topicChans' = [topicChans EXCEPT ![kind[c]] = NoClient]
           ELSE UNCHANGED <<topics, closedChans, topicChans>>
        /\ errClosed' = errClosed \cup {c}
        /\ panicked' = IF c \in errClosed \/ (~inUse /\ ch \in closedChans) THEN "close" ELSE panicked
        /\ UNCHANGED <<api, kind, creator, filters, subscribers, publisher, eventClosed, consumer, goroutine>>

-----------------------------------------------------------------------------
(* consumeEvents and publishTopic.                                          *)

\* The channel is looked up under the lock, and used without it.
LookUp(t) ==
    /\ consumer = NoClient /\ topicChans[t] # NoClient
    /\ consumer' = topicChans[t]
    /\ UNCHANGED <<api, kind, creator, filters, system, bus, goroutine, panicked>>

SendEvent ==
    /\ consumer # NoClient /\ consumer \notin closedChans
    /\ publisher[consumer] = "reading"
    /\ publisher' = [publisher EXCEPT ![consumer] = "received"]
    /\ consumer' = NoClient
    /\ UNCHANGED <<api, kind, creator, filters, system, topics, subscribers, eventClosed, goroutine, panicked>>

\* Nobody takes the event for a second.
DropEvent ==
    /\ consumer # NoClient /\ consumer \notin closedChans
    /\ consumer' = NoClient
    /\ UNCHANGED <<api, kind, creator, filters, system, bus, goroutine, panicked>>

\* The topic was removed meanwhile: a send on a closed channel panics.
SendOnClosed ==
    /\ consumer \in closedChans
    /\ panicked' = "send"
    /\ UNCHANGED <<api, kind, creator, filters, system, bus, consumer, goroutine>>

StartPublishing(ch) ==
    /\ publisher[ch] = "received" /\ ~WriterWaits
    /\ publisher' = [publisher EXCEPT ![ch] = "publishing"]
    /\ UNCHANGED <<api, kind, creator, filters, system, topics, subscribers, eventClosed,
                   consumer, goroutine, panicked>>

Subscribed(t) == {c \in subscribers : kind[c] = t}

\* A filter goes on with the event; a websocket writes it and is back.
Received(c) == IF api = "filters" THEN "deliver" ELSE "select"

\* Fault: a subscriber that is not ready is waited for.
PublishAllSubscribers_Waits(ch) ==
    /\ publisher[ch] = "publishing"
    /\ \A c \in Subscribed(kind[ch]) : goroutine[c] = "select"
    /\ goroutine' = [c \in Clients |-> IF c \in Subscribed(kind[ch]) THEN Received(c) ELSE goroutine[c]]
    /\ publisher' = [publisher EXCEPT ![ch] = "reading"]
    /\ UNCHANGED <<api, kind, creator, filters, system, topics, subscribers, eventClosed, consumer, panicked>>

\* The event reaches the subscribers that are waiting for one.
PublishAllSubscribers(ch) ==
    /\ publisher[ch] = "publishing"
    /\ goroutine' = [c \in Clients |-> IF c \in Subscribed(kind[ch]) /\ goroutine[c] = "select"
                                       THEN Received(c) ELSE goroutine[c]]
    /\ publisher' = [publisher EXCEPT ![ch] = "reading"]
    /\ UNCHANGED <<api, kind, creator, filters, system, topics, subscribers, eventClosed, consumer, panicked>>

NoticeClosed(ch) ==
    /\ publisher[ch] = "reading" /\ ch \in closedChans
    /\ publisher' = [publisher EXCEPT ![ch] = "closing"]
    /\ UNCHANGED <<api, kind, creator, filters, system, topics, subscribers, eventClosed,
                   consumer, goroutine, panicked>>

\* The channel is closed: whoever subscribes to the name by now is closed.
CloseAllSubscribers(ch) ==
    /\ publisher[ch] = "closing" /\ SubscribersFree
    /\ subscribers' = subscribers \ Subscribed(kind[ch])
    /\ eventClosed' = eventClosed \cup Subscribed(kind[ch])
    /\ publisher' = [publisher EXCEPT ![ch] = "removing"]
    /\ panicked' = IF Subscribed(kind[ch]) \cap eventClosed # {} THEN "close" ELSE panicked
    /\ UNCHANGED <<api, kind, creator, filters, system, topics, consumer, goroutine>>

\* Then the name is removed, even if the topic was added again.
EndPublisher(ch) ==
    /\ publisher[ch] = "removing"
    /\ topics' = topics \ {kind[ch]}
    /\ publisher' = [publisher EXCEPT ![ch] = "ended"]
    /\ UNCHANGED <<api, kind, creator, filters, system, subscribers, eventClosed, consumer, goroutine, panicked>>

-----------------------------------------------------------------------------
(* The goroutine of a filter.                                               *)

\* The event is kept for the client's next poll.  A log filter ends on an
\* event it cannot decode.
Deliver(c) ==
    /\ goroutine[c] = "deliver"
    /\ \/ filtersMu = NoClient /\ goroutine' = [goroutine EXCEPT ![c] = "select"]
       \/ kind[c] = "logs" /\ goroutine' = [goroutine EXCEPT ![c] = "cancel"]
    /\ UNCHANGED <<api, kind, creator, filters, system, bus, consumer, panicked>>

\* Fault: the closed error channel ends no filter.
ChannelClosed_Continues(c) ==
    /\ goroutine[c] = "select" /\ api = "filters" /\ filtersMu = NoClient
    /\ \/ c \in eventClosed /\ goroutine' = [goroutine EXCEPT ![c] = "cancel"]
       \/ c \in errClosed /\ UNCHANGED goroutine
    /\ filters' = filters \ {c}
    /\ UNCHANGED <<api, kind, creator, system, bus, consumer, panicked>>

\* A closed channel ends the filter, except that the error channel does not
\* end one for pending transactions, which takes it out of the API again and
\* again.
ChannelClosed(c) ==
    /\ goroutine[c] = "select" /\ api = "filters" /\ filtersMu = NoClient
    /\ \/ c \in eventClosed /\ goroutine' = [goroutine EXCEPT ![c] = "cancel"]
       \/ c \in errClosed /\ kind[c] # "pending" /\ goroutine' = [goroutine EXCEPT ![c] = "cancel"]
       \/ c \in errClosed /\ kind[c] = "pending" /\ UNCHANGED goroutine
    /\ filters' = filters \ {c}
    /\ UNCHANGED <<api, kind, creator, system, bus, consumer, panicked>>

LockToCancel(c) ==
    /\ goroutine[c] = "cancel" /\ goroutine' = [goroutine EXCEPT ![c] = "locking"]
    /\ UNCHANGED <<api, kind, creator, filters, system, bus, consumer, panicked>>

\* The deferred function cancelSubs.
CancelSubs(c) ==
    /\ goroutine[c] = "locking" /\ SubscribersFree
    /\ subscribers' = subscribers \ {c}
    /\ goroutine' = [goroutine EXCEPT ![c] = "ended"]
    /\ UNCHANGED <<api, kind, creator, filters, system, topics, publisher, eventClosed, consumer, panicked>>

\* Fault: the filter is still there for the timeout loop.
UninstallFilter_Keeps(c) ==
    /\ c \in filters /\ filtersMu = NoClient
    /\ uninstall' = uninstall \cup {c}
    /\ UNCHANGED <<api, kind, creator, filters, index, topicChans, closedChans, errClosed, bus,
                   consumer, goroutine, panicked>>

\* By the client, or by the timeout loop after a deadline without polls.
UninstallFilter(c) ==
    /\ c \in filters /\ filtersMu = NoClient
    /\ filters' = filters \ {c}
    /\ uninstall' = uninstall \cup {c}
    /\ UNCHANGED <<api, kind, creator, index, topicChans, closedChans, errClosed, bus,
                   consumer, goroutine, panicked>>

\* A websocket unsubscribes, or its connection ends, on the bus only.
WebsocketUnsubscribe(c) ==
    /\ api = "websockets" /\ c \in subscribers /\ SubscribersFree
    /\ subscribers' = subscribers \ {c}
    /\ UNCHANGED <<api, kind, creator, filters, system, topics, publisher, eventClosed,
                   consumer, goroutine, panicked>>

Creating(c) ==
    \/ FindTopic(c) \/ SubscribeFails(c) \/ Install(c) \/ CheckTopic(c)
    \/ LockToInsert(c) \/ Insert(c)

Publishing(ch) ==
    \/ StartPublishing(ch) \/ PublishAllSubscribers(ch)
    \/ NoticeClosed(ch) \/ CloseAllSubscribers(ch) \/ EndPublisher(ch)

FilterGoes(c) == Deliver(c) \/ LockToCancel(c) \/ CancelSubs(c)

Alive == panicked = "none"

EventsNext ==
    /\ Alive
    /\ \/ \E t \in Kinds : LookUp(t)
       \/ SendEvent \/ DropEvent \/ SendOnClosed
       \/ \E c \in Clients :
             \/ Begin(c) \/ Creating(c) \/ Publishing(c) \/ FilterGoes(c)
             \/ ChannelClosed(c) \/ Uninstall(c) \/ UninstallFilter(c) \/ WebsocketUnsubscribe(c)

\* Goroutines that can run do, the event loop takes every request, and a
\* select with several channels ready takes each of them some time.
EventsSpec ==
    /\ EventsInit /\ [][EventsNext]_eventsVars
    /\ \A c \in Clients :
          /\ WF_eventsVars(Alive /\ Creating(c)) /\ WF_eventsVars(Alive /\ Publishing(c))
          /\ WF_eventsVars(Alive /\ FilterGoes(c)) /\ WF_eventsVars(Alive /\ Uninstall(c))
          /\ SF_eventsVars(Alive /\ ChannelClosed(c))

-----------------------------------------------------------------------------
(* Properties.                                                              *)

\* No channel is closed twice, whoever uninstalls a filter and however topics
\* are removed and added again: the only panic is a send to a removed topic.
ClosedOnce == panicked # "close"

\* A topic the bus offers to a new subscriber has a channel that is open and
\* a goroutine that reads it, and consumeEvents finds no closed channel.
TopicsFed ==
    /\ EventsTypeOK
    /\ \A t \in Kinds :
          /\ t \in topics => topicChans[t] # NoClient
          /\ topicChans[t] # NoClient =>
                /\ topicChans[t] \notin closedChans
                /\ publisher[topicChans[t]] \in {"reading", "received", "publishing"}

\* Making a filter or a subscription always ends, although it waits for the
\* event loop and for the bus with the mutex held that filters need to
\* receive events.
CreationEnds ==
    \A c \in Clients : pc[c] = "topics" ~> pc[c] \in {"done", "failed"} \/ panicked # "none"

\* An uninstalled filter leaves nothing behind: neither an entry in the index,
\* nor a subscriber on the bus, nor its goroutine.  A filter for pending
\* transactions does leave its goroutine.
LeavesNothing ==
    \A c \in Clients :
        c \in uninstall /\ kind[c] # "pending" ~>
            (c \notin index \cup subscribers /\ goroutine[c] = "ended") \/ panicked # "none"
=============================================================================
