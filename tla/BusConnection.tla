--------------------------- MODULE BusConnection ---------------------------
(***************************************************************************)
(* The node's connection to the broker: class Bus of bus.py and the        *)
(* lifespan of main.py, which connects at startup, subscribes the          *)
(* operational feeds one after the other, and then looks every two seconds *)
(* whether that has to be repeated.                                        *)
(*                                                                         *)
(* The client library reconnects by itself and tells the node so by        *)
(* callbacks.  A callback runs some time after the change it announces, so *)
(* what the node believes (connected, subscribed) and what the client has  *)
(* (client, onClient) are separate variables.  The library awaits one      *)
(* callback before it announces the next change.                           *)
(***************************************************************************)
EXTENDS Naturals

CONSTANTS
  FeedCount,   \* the operational feeds are subscribed in the order 1..FeedCount
  MaxLosses,   \* bound: broken connections
  MaxCloses    \* bound: times the library gives up and closes the client

ASSUME BusBounds == FeedCount \in Nat \ {0} /\ {MaxLosses, MaxCloses} \subseteq Nat

VARIABLES
  broker,      \* TRUE: the broker can be reached
  client,      \* nats.Client: its status, "none" before the first connection
  news,        \* the callback the library has still to run
  onClient,    \* feeds the current client is subscribed to
  connected,   \* Bus._connected
  subscribed,  \* Bus._subscribed
  supervisor,  \* where the lifespan coroutine or its supervisor is suspended
  feed,        \* the feed whose subscription is awaited
  serving,     \* the startup is over: requests are handled
  losses, closes

connectionVars == <<broker, client, news, onClient, connected, subscribed,
                    supervisor, feed, serving, losses, closes>>

Feeds == 1..FeedCount

BusTypeOK ==
  /\ {broker, connected, serving} \subseteq BOOLEAN
  /\ client \in {"none", "up", "reconnecting", "closed"}
  /\ news \in {"nothing", "disconnected", "reconnected", "closed"}
  /\ onClient \subseteq Feeds /\ subscribed \subseteq Feeds
  /\ supervisor \in {"connecting", "subscribing", "asleep", "ended"}
  /\ feed \in Feeds
  /\ losses \in 0..MaxLosses /\ closes \in 0..MaxCloses

\* The startup is suspended in nats.connect.
BusInit ==
  /\ broker \in BOOLEAN
  /\ client = "none" /\ news = "nothing" /\ onClient = {}
  /\ connected = FALSE /\ subscribed = {}
  /\ supervisor = "connecting" /\ feed = 1 /\ serving = FALSE
  /\ losses = 0 /\ closes = 0

-----------------------------------------------------------------------------
(* The broker and the client library.                                       *)

Lose ==
  /\ client = "up" /\ news = "nothing" /\ losses < MaxLosses
  /\ losses' = losses + 1
  /\ broker' \in BOOLEAN
  /\ client' = "reconnecting" /\ news' = "disconnected"
  /\ UNCHANGED <<onClient, connected, subscribed, supervisor, feed, serving, closes>>

BrokerReturns ==
  /\ ~ broker /\ broker' = TRUE
  /\ UNCHANGED <<client, news, onClient, connected, subscribed, supervisor, feed,
                 serving, losses, closes>>

\* The library restores the subscriptions the client had.
Reconnect ==
  /\ client = "reconnecting" /\ news = "nothing" /\ broker
  /\ client' = "up" /\ news' = "reconnected"
  /\ UNCHANGED <<broker, onClient, connected, subscribed, supervisor, feed,
                 serving, losses, closes>>

GiveUpClient ==
  /\ client \in {"up", "reconnecting"} /\ news = "nothing" /\ closes < MaxCloses
  /\ closes' = closes + 1
  /\ client' = "closed" /\ news' = "closed"
  /\ UNCHANGED <<broker, onClient, connected, subscribed, supervisor, feed,
                 serving, losses>>

\* _disconnected, _reconnected and _closed.
Callback ==
  /\ news # "nothing" /\ news' = "nothing"
  /\ connected' = (news = "reconnected")
  /\ UNCHANGED <<broker, client, onClient, subscribed, supervisor, feed, serving,
                 losses, closes>>

-----------------------------------------------------------------------------
(* subscribe_operational_feeds.                                             *)

\* The feeds after k that Bus.subscribe does not find in its table.
Remaining(k, table) == {j \in Feeds : j > k /\ j \notin table}

\* From the return of feed k's subscription to the next await: feeds in the
\* table return at once; without a connection all remaining ones are skipped; a
\* closed client raises, which ends the coroutine.
SubscribeAfter(k, table, installed) ==
  LET left == Remaining(k, table) IN
  \/ /\ ~ connected' \/ left = {}
     /\ supervisor' = "asleep" /\ serving' = TRUE
     /\ onClient' = installed /\ UNCHANGED feed
  \/ /\ connected' /\ left # {} /\ client' = "closed"
     /\ supervisor' = "ended" /\ onClient' = installed
     /\ UNCHANGED <<feed, serving>>
  \/ /\ connected' /\ client' # "closed"
     /\ \E next \in left :
          /\ \A j \in left : next <= j
          /\ feed' = next /\ onClient' = installed \cup {next}
     /\ supervisor' = "subscribing" /\ UNCHANGED serving

Subscribed ==
  /\ supervisor = "subscribing"
  /\ subscribed' = subscribed \cup {feed}
  /\ UNCHANGED <<broker, client, news, connected, losses, closes>>
  /\ SubscribeAfter(feed, subscribed', onClient)

-----------------------------------------------------------------------------
(* Bus.connect and the supervisor.                                          *)

\* Faulty variant: the table of subscriptions survives a new connection.
ConnectedRemembering ==
  /\ supervisor = "connecting" /\ broker
  /\ client' = "up" /\ connected' = TRUE /\ UNCHANGED subscribed
  /\ SubscribeAfter(0, subscribed', {})
  /\ UNCHANGED <<broker, news, losses, closes>>

\* nats.connect returns a new client, with no subscription.
Connected ==
  /\ supervisor = "connecting" /\ broker
  /\ client' = "up" /\ connected' = TRUE /\ subscribed' = {}
  /\ SubscribeAfter(0, {}, {})
  /\ UNCHANGED <<broker, news, losses, closes>>

\* nats.connect raises or times out; the node goes on without a bus.
ConnectFails ==
  /\ supervisor = "connecting" /\ ~ broker
  /\ supervisor' = "asleep" /\ serving' = TRUE
  /\ UNCHANGED <<broker, client, news, onClient, connected, subscribed, feed,
                 losses, closes>>

\* Faulty variant: a client that is up is taken for one that reconnects itself.
ConnectPatiently ==
  IF client \in {"up", "reconnecting"}
  THEN UNCHANGED <<connected, supervisor, onClient, feed, serving>>
  ELSE supervisor' = "connecting" /\ UNCHANGED <<connected, onClient, feed, serving>>

\* connect() up to its await.  A client that is up is used as it is, one that is
\* reconnecting is left alone, and only otherwise a new one is opened.
Connect ==
  \/ /\ client = "up"
     /\ connected' = TRUE
     /\ SubscribeAfter(0, subscribed, onClient)
  \/ /\ client = "reconnecting"
     /\ UNCHANGED <<connected, supervisor, onClient, feed, serving>>
  \/ /\ client \in {"none", "closed"}
     /\ supervisor' = "connecting"
     /\ UNCHANGED <<connected, onClient, feed, serving>>

\* One turn of reconnect_supervisor after its sleep.
Supervise ==
  /\ supervisor = "asleep"
  /\ UNCHANGED <<broker, client, news, subscribed, losses, closes>>
  /\ IF connected
     THEN UNCHANGED <<connected, supervisor, onClient, feed, serving>>
     ELSE Connect

-----------------------------------------------------------------------------
(* Bus.publish_outcome, as its callers' actions use it.                     *)

CanPublish == connected /\ client # "none"

\* publish() and flush() return; the connection may have been lost since the
\* broker answered.
Accepted == UNCHANGED connectionVars

\* One of them raises or times out: the bytes may or may not have left.
DeliveryUnknown ==
  /\ connected' = FALSE
  /\ UNCHANGED <<broker, client, news, onClient, subscribed, supervisor, feed,
                 serving, losses, closes>>

LibraryStep == Lose \/ BrokerReturns \/ Reconnect \/ GiveUpClient \/ Callback

LifespanStep == Subscribed \/ Connected \/ ConnectFails
=============================================================================
