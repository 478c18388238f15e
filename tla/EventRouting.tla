---------------------------- MODULE EventRouting ----------------------------
(***************************************************************************)
(* How a notification or a file event reaches the connections it is for.   *)
(* BroadcastNotification and BroadcastToDocument                           *)
(* (src/backEnd/internal/pkg/redisUtils/redisPub.go) route it to the       *)
(* connections of their own server and publish it to Redis; the subscriber *)
(* of every other server (redisSub.go) routes it to its own connections;   *)
(* RouteEvent (websocket/localPoolAction.go) starts a goroutine for each   *)
(* session listed, which offers the message to the writePump of the        *)
(* connection the session leads to once and drops it when the pump is not  *)
(* waiting for one.                                                        *)
(*                                                                         *)
(* One server is modelled: connections, lists and managers are             *)
(* ConnectionPool's, with all of its goroutines and clients, and servers   *)
(* share nothing but Redis, so that for this one an event is published     *)
(* either here or elsewhere.  A target is a user (userIndex) or a document *)
(* (docSessions), which are routed alike.                                  *)
(***************************************************************************)
EXTENDS ConnectionPool

CONSTANTS
    Event,         \* events published: bounds their number
    NoTarget, NoEvent,
    MayFail        \* whether publications and subscriptions may fail

ASSUME RoutingAssumption ==
    /\ User \cap Doc = {} /\ NoTarget \notin User \cup Doc
    /\ NoUser \notin Doc /\ NoDoc \notin User
    /\ NoEvent \notin Event /\ MayFail \in BOOLEAN

VARIABLES
    event,         \* the publishers: target, whether here, program counter
    routing,       \* RouteEvent of an event on this server
    offers,        \* goroutines about to offer an event to a connection
    pump,          \* the event a writePump is writing, or NoEvent
    channel,       \* pubsub.Channel() of the subscriber
    subscribed,    \* whether the subscription stands
    got,           \* how many times an event was written to a connection
    seen           \* history: what the properties need to remember

routingVars == <<event, routing, offers, pump, channel, subscribed, got, seen>>
rvars == <<vars, routingVars>>
transport == <<channel, subscribed>>

Target == User \cup Doc
\* userIndex or docSessions.
IndexOf(t) == IF t \in User THEN userIndex[t] ELSE docSessions[t]

\* The connection is one the target's list should lead to: its tab's user, or
\* the file joined on it.
Listed(c, t) ==
    IF t \in User THEN who[c].user = t
    ELSE /\ file[c] = t
         /\ \A h \in Handler : ~(go[h].conn = c /\ go[h].pc \in JoinPC)
\* And it is registered and served.
ConnectedTo(c, t) == Registered(c) /\ Serving(c) /\ Listed(c, t)

RInit ==
    /\ Init
    /\ event = [e \in Event |-> [pc |-> "none", target |-> NoTarget,
                                 here |-> FALSE]]
    /\ routing = [e \in Event |-> [pc |-> "idle", list |-> <<>>]]
    /\ offers = [e \in Event |-> [c \in Conn |-> 0]]
    /\ pump = [c \in Conn |-> NoEvent]
    /\ channel = <<>> /\ subscribed = TRUE
    /\ got = [e \in Event |-> [c \in Conn |-> 0]]
    /\ seen = [owed |-> [e \in Event |-> {}], missed |-> {},
               loaded |-> [e \in Event |-> <<>>],
               listed |-> [e \in Event |-> {}]]

-----------------------------------------------------------------------------
(* The registry.                                                           *)

\* A step of ConnectionPool.  An event is owed no more to a connection that
\* leaves the target (history).
PoolStep ==
    /\ Next
    /\ UNCHANGED <<event, routing, offers, pump, transport, got>>
    /\ seen' = [seen EXCEPT !.owed =
                  [e \in Event |-> {c \in seen.owed[e] :
                                      ConnectedTo(c, event[e].target)'}]]

-----------------------------------------------------------------------------
(* Publishing.                                                             *)

\* A new event, owed to those who are connected (history).
Publish(e, t, pc, here) ==
    /\ event[e].pc = "none"
    /\ event' = [event EXCEPT ![e] = [pc |-> pc, target |-> t, here |-> here]]
Owes(e, t) == [seen EXCEPT !.owed[e] = {c \in Conn : ConnectedTo(c, t)}]

\* BroadcastNotification, BroadcastToDocument: RouteEvent first, in the
\* goroutine of the request.
Broadcast(e, t) ==
    /\ Publish(e, t, "route", TRUE)
    /\ routing' = [routing EXCEPT ![e].pc = "load"]
    /\ seen' = Owes(e, t)
    /\ UNCHANGED <<vars, offers, pump, transport, got>>

\* PubRedis: to every server that is subscribed at the moment, this one too.
PubRedis(e) ==
    /\ event[e].pc = "route" /\ routing[e].pc = "done"
    /\ event' = [event EXCEPT ![e].pc = "published"]
    /\ \/ channel' = IF subscribed THEN Append(channel, e) ELSE channel
       \/ MayFail /\ UNCHANGED channel
    /\ UNCHANGED <<vars, routing, offers, pump, subscribed, got, seen>>

\* Another server has routed and published an event, or failed to publish it.
PublishElsewhere(e, t) ==
    /\ Publish(e, t, "published", FALSE)
    /\ \/ /\ subscribed /\ channel' = Append(channel, e)
          /\ seen' = Owes(e, t)
       \/ /\ ~subscribed \/ MayFail
          /\ UNCHANGED channel
          /\ seen' = [Owes(e, t) EXCEPT !.missed = @ \cup ({e} \X Conn)]
    /\ UNCHANGED <<vars, routing, offers, pump, subscribed, got>>

-----------------------------------------------------------------------------
(* The subscriber.                                                         *)

\* Every message of the channel starts a handler.
ReceiveAll ==
    /\ channel # <<>>
    /\ channel' = Tail(channel)
    /\ routing' = [routing EXCEPT ![Head(channel)].pc = "load"]
    /\ UNCHANGED <<vars, event, offers, pump, subscribed, got, seen>>

\* subRedis: an event of this server has been routed already; any other one
\* gets a goroutine of its own (HandleUserNotification, HandleDocEvent).
Receive ==
    LET e == Head(channel)
    IN  /\ channel # <<>>
        /\ channel' = Tail(channel)
        /\ routing' = IF event[e].here THEN routing
                      ELSE [routing EXCEPT ![e].pc = "load"]
        /\ UNCHANGED <<vars, event, offers, pump, subscribed, got, seen>>

\* The subscription breaks with what its channel still held; StartSubscriber
\* subscribes again after five seconds, and Redis keeps nothing meanwhile.
SubscriptionLost ==
    /\ MayFail /\ subscribed
    /\ subscribed' = FALSE
    /\ channel' = <<>>
    /\ seen' = [seen EXCEPT !.missed = @ \cup
                  ({e \in ToSet(channel) : ~event[e].here} \X Conn)]
    /\ UNCHANGED <<vars, event, routing, offers, pump, got>>

Resubscribe ==
    /\ ~subscribed
    /\ subscribed' = TRUE
    /\ UNCHANGED <<vars, event, routing, offers, pump, channel, got, seen>>

-----------------------------------------------------------------------------
(* RouteEvent: routeToUser and routeToDocument.                            *)

\* The list as it is now is gone through.
LoadIndex(e) ==
    LET t == event[e].target
    IN  /\ routing[e].pc = "load"
        /\ routing' = [routing EXCEPT ![e] = [pc |-> "loop",
                                              list |-> IndexOf(t)]]
        /\ seen' = [seen EXCEPT !.loaded[e] = IndexOf(t),
                                !.listed[e] = {c \in Conn : Listed(c, t)}]
        /\ UNCHANGED <<vars, event, offers, pump, transport, got>>

\* The last of the list is passed over.
RouteAllButLast(e) ==
    LET list == routing[e].list
    IN  /\ routing[e].pc = "loop"
        /\ IF Len(list) < 2
           THEN /\ routing' = [routing EXCEPT ![e].pc = "done"]
                /\ UNCHANGED offers
           ELSE /\ routing' = [routing EXCEPT ![e].list = Tail(@)]
                /\ offers' = [offers EXCEPT ![e][managers[Head(list)]] = @ + 1]
        /\ UNCHANGED <<vars, event, pump, transport, got, seen>>

\* The manager a session has by then gets a goroutine; a session without one
\* is passed over.
RouteNext(e) ==
    LET list == routing[e].list
        mgr == managers[Head(list)]
    IN  /\ routing[e].pc = "loop"
        /\ IF list = <<>>
           THEN /\ routing' = [routing EXCEPT ![e].pc = "done"]
                /\ UNCHANGED offers
           ELSE /\ routing' = [routing EXCEPT ![e].list = Tail(@)]
                /\ offers' = IF mgr = NoConn THEN offers
                             ELSE [offers EXCEPT ![e][mgr] = @ + 1]
        /\ UNCHANGED <<vars, event, pump, transport, got, seen>>

\* By nobody: the goroutine of another event's routing.
OfferUnbidden(e, c) ==
    /\ offers' = [offers EXCEPT ![e][c] = @ - 1]
    /\ pump' = [pump EXCEPT ![c] = e]
    /\ UNCHANGED <<vars, event, routing, transport, got, seen>>

\* select { case mgr.send <- bResponse: default: }.  The pump takes no message
\* while it writes another one, a ping or the answer to auth, nor after it has
\* returned; of these only the events are kept, so that it may be busy anyway.
Offer(e, c) ==
    /\ offers[e][c] > 0
    /\ offers' = [offers EXCEPT ![e][c] = @ - 1]
    /\ \/ /\ pump[c] = NoEvent
          /\ pump' = [pump EXCEPT ![c] = e] /\ UNCHANGED seen
       \/ /\ seen' = [seen EXCEPT !.missed = @ \cup {<<e, c>>}]
          /\ UNCHANGED pump
    /\ UNCHANGED <<vars, event, routing, transport, got>>

-----------------------------------------------------------------------------
(* writePump, which goes on until a write fails: neither a cancelled       *)
(* context nor a socket that readPump has closed ends it.                  *)

\* The bytes are the connection's, whether or not its peer reads them.
WriteMessage(c) ==
    /\ pump[c] # NoEvent /\ link[c] # "closed"
    /\ got' = [got EXCEPT ![pump[c]][c] = @ + 1]
    /\ pump' = [pump EXCEPT ![c] = NoEvent]
    /\ UNCHANGED <<vars, event, routing, offers, transport, seen>>

\* The write fails: writePump closes the socket, cancels the context, returns.
WriteFails(c) ==
    /\ pump[c] # NoEvent
    /\ PumpExit(c) \/ (link[c] = "closed" /\ UNCHANGED vars)
    /\ pump' = [pump EXCEPT ![c] = NoEvent]
    /\ seen' = [seen EXCEPT !.missed = @ \cup {<<pump[c], c>>}]
    /\ UNCHANGED <<event, routing, offers, transport, got>>

RNext ==
    \/ PoolStep
    \/ \E e \in Event :
         \/ \E t \in Target : Broadcast(e, t) \/ PublishElsewhere(e, t)
         \/ PubRedis(e) \/ LoadIndex(e) \/ RouteNext(e)
         \/ \E c \in Conn : Offer(e, c)
    \/ Receive \/ SubscriptionLost \/ Resubscribe
    \/ \E c \in Conn : WriteMessage(c) \/ WriteFails(c)

RSpec == RInit /\ [][RNext]_rvars

-----------------------------------------------------------------------------
(* Properties.                                                             *)

RTypeOK ==
    /\ event \in [Event -> [pc : {"none", "route", "published"},
                            target : Target \cup {NoTarget}, here : BOOLEAN]]
    /\ routing \in [Event -> [pc : {"idle", "load", "loop", "done"},
                              list : Seq(Session \cup {NoSession})]]
    /\ offers \in [Event -> [Conn -> Nat]]
    /\ pump \in [Conn -> Event \cup {NoEvent}]
    /\ channel \in Seq(Event) /\ subscribed \in BOOLEAN
    /\ got \in [Event -> [Conn -> Nat]]
    /\ seen \in [owed : [Event -> SUBSET Conn], missed : SUBSET (Event \X Conn),
                 loaded : [Event -> Seq(Session \cup {NoSession})],
                 listed : [Event -> SUBSET Conn]]

\* No other connection of the tab was ever authenticated here.
Alone(c) == \A d \in SameTab(c) : ~Identified(d)
\* No update of the target's list was lost, and no connection of the tab was
\* cleaned up before its authentication reached the user's list, nor did its
\* messages overlap before they reached the document's.
Sound(t, c) ==
    /\ t \notin hist.lost
    /\ \A d \in IF t \in User THEN hist.late ELSE hist.tangled :
          who[d].session # who[c].session

(* However the publisher, the subscriber, the goroutines of routing and    *)
(* those of the registry interleave, a connection is written an event at   *)
(* most as often as its tab was in the list that was loaded: whatever      *)
(* updates the list has lost and however many connections the tab has, the *)
(* event goes through one list, once (localPoolAction.go:147-210,          *)
(* redisSub.go:77-96).                                                     *)
RoutedAsListed == \A e \in Event, c \in Conn :
    got[e][c] <= Occurrences(who[c].session, seen.loaded[e])

(* A connection is written an event once at most, and only if it was of    *)
(* the event's target when the list was loaded: the user's, or on the      *)
(* document it had joined and not yet left.  Excepted are the lists an     *)
(* update was lost from, the tabs whose joinFile and exitFile overlapped   *)
(* and those that authenticated a second connection: their session may be  *)
(* listed twice, or where it does not belong, and lead to another          *)
(* connection (localPoolAction.go:24-121, 163-176, 195-208).               *)
OnceToItsTarget == \A e \in Event, c \in Conn :
    Alone(c) /\ Sound(event[e].target, c) =>
        /\ got[e][c] <= 1
        /\ got[e][c] = 1 => c \in seen.listed[e]

\* Nothing of the event is under way any more.
Settled(e) ==
    /\ event[e].pc = "published"
    /\ routing[e].pc \in {"idle", "done"} /\ e \notin ToSet(channel)
    /\ \A c \in Conn : offers[e][c] = 0 /\ pump[c] # e

(* A connection that was of the target and registered when the event was   *)
(* published, and has been since, has got it in the end, unless its pump   *)
(* was busy at the wrong moment or its write failed, Redis or the          *)
(* subscription failed, its list lost an update, its messages overlapped   *)
(* or its tab authenticated another connection (localPoolAction.go:24-210, *)
(* redisSub.go:43-100).                                                    *)
GotOrMissed == \A e \in Event : Settled(e) =>
    \A c \in seen.owed[e] :
        \/ got[e][c] > 0
        \/ <<e, c>> \in seen.missed
        \/ ~Alone(c)
        \/ ~Sound(event[e].target, c)
=============================================================================
