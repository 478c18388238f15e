------------------------- MODULE EventRoutingProofs -------------------------
(***************************************************************************)
(* Theorems about EventRouting, for any sets of connections, tabs, users,  *)
(* documents, goroutines and events.  The routing goes through lists that  *)
(* ConnectionPool keeps, so that its inductive invariant ListsInv is a     *)
(* part of the one below, and every step of the registry keeps it by       *)
(* ListsStep.  Counted follows an event from the list that was loaded to   *)
(* the connections; LoadedOnce and OwedOK relate that list to them.        *)
(***************************************************************************)
EXTENDS EventRouting, ConnectionPoolProofs

-----------------------------------------------------------------------------
(* The invariant.                                                          *)

\* The goroutines that offer an event to a connection, its pump and its peer.
Pumped(e, c) == IF pump[c] = e THEN 1 ELSE 0
Reached(e, c) == got[e][c] + offers[e][c] + Pumped(e, c)

\* An event goes through routing once: it is routed here and then published,
\* or taken from the channel once.
Flow(e) ==
    /\ event[e].pc = "none" => routing[e].pc = "idle"
    /\ event[e].pc # "published" => e \notin ToSet(channel)
    /\ event[e].pc # "none" => event[e].target \in Target
    /\ event[e].pc = "route" => event[e].here /\ routing[e].pc # "idle"
    /\ event[e].pc = "published" /\ event[e].here => routing[e].pc = "done"
    /\ e \in ToSet(channel) /\ ~event[e].here => routing[e].pc = "idle"
    /\ routing[e].pc \in {"idle", "load"} => \A c \in Conn : Reached(e, c) = 0
    /\ routing[e].pc # "loop" => routing[e].list = <<>>

\* What is left of a list is a part of it, and every goroutine of routing is
\* accounted for by an entry that was passed.
Suffix(e) == \A n \in Keys :
    Occurrences(n, routing[e].list) <= Occurrences(n, seen.loaded[e])
Counted(e) == \A c \in Conn :
    Reached(e, c) + Occurrences(who[c].session, routing[e].list)
      <= Occurrences(who[c].session, seen.loaded[e])
\* Nothing leads to a connection that was not opened.
Unled(e) == \A c \in Conn : link[c] = "none" => Reached(e, c) = 0

\* A tab's only authenticated connection, and lists that are exact for it.
Only(c, s) ==
    \A k \in Conn \ {c} : who[k].session = s => ~Identified(k)
SoundFor(t, s) ==
    /\ t \notin hist.lost
    /\ \A d \in IF t \in User THEN hist.late ELSE hist.tangled :
          who[d].session # s
Exact(e, c, s) ==
    /\ Occurrences(s, seen.loaded[e]) <= 1
    /\ Occurrences(s, seen.loaded[e]) # 0 => c \in seen.listed[e]
LoadedOnce(e) == \A c \in Conn, s \in Session :
    /\ routing[e].pc \in {"loop", "done"}
    /\ Only(c, s) /\ SoundFor(event[e].target, s)
    => Exact(e, c, s)

\* Where an event is that a connection has not got yet.
Coming(e, c) ==
    \/ Reached(e, c) # 0 \/ <<e, c>> \in seen.missed
    \/ routing[e].pc = "load"
    \/ Occurrences(who[c].session, routing[e].list) # 0
    \/ e \in ToSet(channel) /\ ~event[e].here
OwedOK(e) == \A c \in seen.owed[e] :
    /\ event[e].pc # "none" /\ ConnectedTo(c, event[e].target)
    /\ Alone(c) /\ Sound(event[e].target, c) => Coming(e, c)

EventOK(e) == /\ Flow(e) /\ Suffix(e) /\ Counted(e) /\ Unled(e)
              /\ LoadedOnce(e) /\ OwedOK(e)

ChannelOnce ==
    \A i, j \in 1..Len(channel) : channel[i] = channel[j] => i = j
NoTabLeads == managers[NoSession] = NoConn

RIInv == /\ ListsInv /\ RTypeOK /\ ChannelOnce /\ NoTabLeads
         /\ \A e \in Event : EventOK(e)

-----------------------------------------------------------------------------
(* Types.                                                                  *)

\* Counts are numbers.
LEMMA ReachedType ==
    ASSUME RTypeOK, NEW e \in Event, NEW c \in Conn
    PROVE  /\ got[e][c] \in Nat /\ offers[e][c] \in Nat
           /\ Pumped(e, c) \in {0, 1} /\ Reached(e, c) \in Nat
           /\ (Reached(e, c) = 0) <=> (got[e][c] = 0 /\ offers[e][c] = 0
                                         /\ pump[c] # e)
<1>1. got[e][c] \in Nat /\ offers[e][c] \in Nat
  BY DEF RTypeOK
<1>2. Pumped(e, c) \in {0, 1} /\ (Pumped(e, c) = 0 <=> pump[c] # e)
  BY DEF Pumped
<1>3. Reached(e, c) = got[e][c] + offers[e][c] + Pumped(e, c)
  BY DEF Reached
<1>4. /\ Reached(e, c) \in Nat
      /\ Reached(e, c) = 0
           <=> (got[e][c] = 0 /\ offers[e][c] = 0 /\ Pumped(e, c) = 0)
  BY <1>1, <1>2, <1>3
<1>. QED BY <1>1, <1>2, <1>4

\* Lists are lists of sessions, and what occurs in them is counted.
LEMMA ListTypes ==
    ASSUME ListsInv, RTypeOK, NEW e \in Event
    PROVE  /\ routing[e].list \in Seq(Keys)
           /\ seen.loaded[e] \in Seq(Keys)
           /\ \A n : /\ Occurrences(n, routing[e].list) \in Nat
                     /\ Occurrences(n, seen.loaded[e]) \in Nat
           /\ \A t \in Target : IndexOf(t) \in Seq(Keys)
<1>1. routing[e].list \in Seq(Keys) /\ seen.loaded[e] \in Seq(Keys)
  BY DEF RTypeOK, Keys
<1>2. \A t \in Target : IndexOf(t) \in Seq(Keys)
  BY DEF ListsInv, IInv, TypeOK, Target, IndexOf, Keys
<1>. QED BY <1>1, <1>2, AtFinite

\* The tab of a connection, or none.
LEMMA TabType ==
    ASSUME ListsInv, NEW c \in Conn
    PROVE  /\ who[c].session \in Keys
           /\ link[c] # "none" => who[c].session \in Session
           /\ Identified(c) => link[c] # "none" /\ client[c] = who[c]
           /\ c \in hist.listed => /\ Identified(c) /\ link[c] # "none"
                                   /\ client[c] = who[c]
<1>1. /\ TypeOK /\ Unopened /\ Opened /\ ClientIsTab /\ AuthAssigned
  BY DEF ListsInv, IInv, Bookkeeping
<1>2. who[c].session \in Keys
  BY <1>1 DEF TypeOK, Identity, Keys
<1>3. Identified(c) => link[c] # "none" /\ client[c] = who[c]
  BY <1>1 DEF Identified, Unopened, ClientIsTab, Nobody
<1>4. c \in hist.listed => link[c] # "none" /\ client[c] = who[c]
  BY <1>1 DEF Unopened, AuthAssigned
<1>5. link[c] # "none" => who[c].session \in Session
  BY <1>1 DEF Opened
<1>6. c \in hist.listed => Identified(c)
  BY <1>4, <1>5, PoolAssumption DEF Identified
<1>. QED BY <1>2, <1>3, <1>4, <1>5, <1>6

-----------------------------------------------------------------------------
(* The registry's steps.                                                   *)

\* Tabs, authentications and the history of the registry stay.
LEMMA PoolKeeps ==
    ASSUME ListsInv, [Next]_vars
    PROVE  /\ \A c \in Conn :
                /\ link[c] # "none" => link'[c] # "none" /\ who'[c] = who[c]
                /\ Identified(c) => Identified(c)'
           /\ hist.lost \subseteq hist'.lost
           /\ hist.late \subseteq hist'.late
           /\ hist.tangled \subseteq hist'.tangled
<1>1. TypeOK /\ Bookkeeping /\ Docs
  BY DEF ListsInv, IInv
<1>2. ASSUME NEW c \in Conn
      PROVE  /\ link[c] # "none" => link'[c] # "none" /\ who'[c] = who[c]
             /\ Identified(c) => Identified(c)'
  <2>1. link[c] # "none" => link'[c] # "none" /\ who'[c] = who[c]
    BY <1>1, LinkChange, Monotone
  <2>2. client[c] # Nobody => client'[c] = client[c]
    BY <1>1, Monotone
  <2>3. Identified(c) => client[c] # Nobody
    BY DEF Identified, Nobody
  <2>. QED BY <2>1, <2>2, <2>3 DEF Identified
<1>3. /\ hist.lost \subseteq hist'.lost /\ hist.late \subseteq hist'.late
      /\ hist.tangled \subseteq hist'.tangled
  BY <1>1, HistChange
<1>. QED BY <1>2, <1>3

\* No connection is registered without a tab.
LEMMA NoTabNoManager ==
    ASSUME ListsInv, [Next]_vars, managers[NoSession] = NoConn
    PROVE  managers'[NoSession] = NoConn
<1>0. TypeOK /\ Bookkeeping
  BY DEF ListsInv, IInv
<1>1. ASSUME NEW h \in Handler, AuthAddManager(h)
      PROVE  managers'[NoSession] = NoConn
  <2> DEFINE c == go[h].conn
  <2>1. c \in Conn /\ go[h].pc = "addManager"
    BY <1>0, <1>1 DEF AuthAddManager, Step, TypeOK
  <2>2. client[c] = who[c]
    BY <1>0, <2>1 DEF Bookkeeping, AuthAssigned, AuthPC
  <2>3. link[c] # "none"
    BY <1>0, <2>1 DEF Bookkeeping, Unopened
  <2>4. client[c].session # NoSession
    BY <2>1, <2>2, <2>3, TabType, PoolAssumption
  <2>5. managers' = [managers EXCEPT ![client[c].session] = c]
    BY <1>1 DEF AuthAddManager
  <2>. HIDE DEF c
  <2>. QED BY <1>0, <2>4, <2>5 DEF TypeOK
<1>2. ASSUME NEW d \in Conn, CleanDeleteManagersMap(d)
      PROVE  managers'[NoSession] = NoConn
  BY <1>0, <1>2 DEF CleanDeleteManagersMap, TypeOK
<1>. QED BY <1>1, <1>2, ManagersChange

\* What exempts a tab from the promises exempts it for good.
LEMMA SoundBefore ==
    ASSUME ListsInv, [Next]_vars, NEW t \in Target, NEW s \in Session,
           SoundFor(t, s)'
    PROVE  SoundFor(t, s)
<1>1. TypeOK /\ Users
  BY DEF ListsInv, IInv
<1>2. ASSUME NEW d \in hist.late \cup hist.tangled
      PROVE  d \in Conn /\ who'[d] = who[d]
  BY <1>1, <1>2, PoolKeeps DEF TypeOK, Users
<1>3. /\ hist.lost \subseteq hist'.lost /\ hist.late \subseteq hist'.late
      /\ hist.tangled \subseteq hist'.tangled
  BY PoolKeeps
<1>4. t \notin hist.lost
  BY <1>3 DEF SoundFor
<1>5. CASE t \in User
  BY <1>2, <1>3, <1>4, <1>5 DEF SoundFor
<1>6. CASE t \notin User
  BY <1>2, <1>3, <1>4, <1>6 DEF SoundFor
<1>. QED BY <1>5, <1>6

LEMMA OnlyBefore ==
    ASSUME ListsInv, [Next]_vars, NEW c \in Conn, NEW s \in Session, Only(c, s)'
    PROVE  Only(c, s)
<1> SUFFICES ASSUME NEW k \in Conn \ {c}, who[k].session = s, Identified(k)
             PROVE  FALSE
  BY DEF Only
<1>1. link[k] # "none"
  BY TabType
<1>2. who'[k].session = s /\ Identified(k)'
  BY <1>1, PoolKeeps
<1>. QED BY <1>2 DEF Only

\* The promises about a connection in terms of its tab.
LEMMA AloneIs ==
    ASSUME NEW c \in Conn, NEW t
    PROVE  /\ Alone(c) <=> Only(c, who[c].session)
           /\ Sound(t, c) <=> SoundFor(t, who[c].session)
  BY DEF Alone, Only, SameTab, Sound, SoundFor

\* A step of the registry keeps the invariant.
LEMMA PoolStepKeeps ==
    ASSUME RIInv, PoolStep
    PROVE  RIInv'
<1>0. /\ ListsInv /\ RTypeOK /\ ChannelOnce /\ NoTabLeads /\ [Next]_vars
      /\ \A e \in Event : EventOK(e)
  BY DEF RIInv, PoolStep
<1>1. ListsInv'
  BY <1>0, ListsStep
<1>2. /\ event' = event /\ routing' = routing /\ offers' = offers
      /\ pump' = pump /\ channel' = channel /\ subscribed' = subscribed
      /\ got' = got
  BY DEF PoolStep, transport
<1>3. /\ seen'.missed = seen.missed /\ seen'.loaded = seen.loaded
      /\ seen'.listed = seen.listed
      /\ \A e \in Event : seen'.owed[e] = {c \in seen.owed[e] :
                                      ConnectedTo(c, event[e].target)'}
  BY <1>0 DEF PoolStep, RTypeOK
<1>4. RTypeOK'
  <2>1. [e \in Event |-> {c \in seen.owed[e] :
                            ConnectedTo(c, event[e].target)'}]
          \in [Event -> SUBSET Conn]
    BY <1>0 DEF RTypeOK
  <2>2. seen' \in [owed : [Event -> SUBSET Conn],
                   missed : SUBSET (Event \X Conn),
                   loaded : [Event -> Seq(Session \cup {NoSession})],
                   listed : [Event -> SUBSET Conn]]
    BY <1>0, <2>1 DEF PoolStep, RTypeOK
  <2>. QED BY <1>0, <1>2, <2>2 DEF RTypeOK
<1>5. ChannelOnce' /\ NoTabLeads'
  BY <1>0, <1>2, NoTabNoManager DEF ChannelOnce, NoTabLeads
<1>6. ASSUME NEW e \in Event
      PROVE  EventOK(e)'
  <2>0. /\ Flow(e) /\ Suffix(e) /\ Counted(e) /\ Unled(e)
        /\ LoadedOnce(e) /\ OwedOK(e)
    BY <1>0 DEF EventOK
  <2>1. \A c \in Conn : Reached(e, c)' = Reached(e, c)
    BY <1>2 DEF Reached, Pumped
  <2>2. Flow(e)' /\ Suffix(e)'
    BY <1>2, <1>3, <2>0, <2>1 DEF Flow, Suffix
  <2>3. ASSUME NEW c \in Conn
        PROVE  Reached(e, c)' + Occurrences(who'[c].session, routing'[e].list)
                 <= Occurrences(who'[c].session, seen'.loaded[e])
    <3>1. CASE link[c] # "none"
      <4>1. who'[c] = who[c]
        BY <1>0, <3>1, PoolKeeps
      <4>. QED BY <1>2, <1>3, <2>0, <2>1, <4>1 DEF Counted
    <3>2. CASE link[c] = "none"
      <4>1. Reached(e, c)' = 0
        BY <2>0, <2>1, <3>2 DEF Unled
      <4>2. who'[c].session \in Keys
        BY <1>1 DEF ListsInv, IInv, TypeOK, Identity, Keys
      <4>3. Occurrences(who'[c].session, routing[e].list)
              <= Occurrences(who'[c].session, seen.loaded[e])
        BY <2>0, <4>2 DEF Suffix
      <4>4. Occurrences(who'[c].session, routing[e].list) \in Nat
        BY <1>0, ListTypes
      <4>. QED BY <1>2, <1>3, <4>1, <4>3, <4>4
    <3>. QED BY <3>1, <3>2
  <2>4. Unled(e)'
    BY <1>0, <2>0, <2>1, PoolKeeps DEF Unled
  <2>5. ASSUME NEW c \in Conn, NEW s \in Session,
               routing'[e].pc \in {"loop", "done"}, Only(c, s)',
               SoundFor(event[e].target, s)'
        PROVE  Exact(e, c, s)'
    <3>1. event[e].pc # "none" /\ event[e].target \in Target
      BY <1>2, <2>0, <2>5 DEF Flow
    <3>2. PICK t \in Target : t = event[e].target /\ t = event'[e].target
      BY <1>2, <3>1
    <3>3. SoundFor(t, s)'
      BY <2>5, <3>2 DEF SoundFor
    <3>4. Only(c, s) /\ SoundFor(event[e].target, s)
      BY <1>0, <2>5, <3>2, <3>3, OnlyBefore, SoundBefore
    <3>5. Exact(e, c, s)
      BY <1>2, <2>0, <2>5, <3>4 DEF LoadedOnce
    <3>. QED BY <1>3, <3>5 DEF Exact
  <2>6. LoadedOnce(e)'
    BY <2>5 DEF LoadedOnce
  <2>7. ASSUME NEW c \in seen'.owed[e]
        PROVE  /\ event'[e].pc # "none" /\ ConnectedTo(c, event[e].target)'
               /\ Alone(c)' /\ Sound(event[e].target, c)' => Coming(e, c)'
    <3>1. c \in seen.owed[e] /\ ConnectedTo(c, event[e].target)'
      BY <1>3
    <3>2. /\ event[e].pc # "none" /\ ConnectedTo(c, event[e].target)
          /\ c \in Conn /\ event[e].target \in Target
          /\ Alone(c) /\ Sound(event[e].target, c) => Coming(e, c)
      BY <1>0, <2>0, <3>1 DEF OwedOK, RTypeOK, Flow
    <3>3. link[c] # "none" /\ who[c].session \in Session
      BY <1>0, <3>2, TabType DEF ConnectedTo, Registered
    <3>4. who'[c] = who[c]
      BY <1>0, <3>2, <3>3, PoolKeeps
    <3>5. ASSUME Alone(c)', Sound(event[e].target, c)'
          PROVE  Coming(e, c)'
      <4>0. PICK t \in Target, s \in Session :
              /\ t = event[e].target /\ t = event'[e].target
              /\ s = who[c].session /\ s = who'[c].session
        BY <1>2, <3>2, <3>3, <3>4
      <4>1. Only(c, s)'
        BY <3>5, <4>0 DEF Alone, Only, SameTab
      <4>2. SoundFor(t, s)'
        BY <3>5, <4>0 DEF Sound, SoundFor
      <4>3. Only(c, who[c].session) /\ SoundFor(event[e].target, who[c].session)
        BY <1>0, <3>2, <4>0, <4>1, <4>2, OnlyBefore, SoundBefore
      <4>4. Coming(e, c)
        BY <3>2, <4>3, AloneIs
      <4>. QED BY <1>2, <1>3, <2>1, <3>2, <3>4, <4>4 DEF Coming
    <3>. QED BY <1>2, <3>1, <3>2, <3>5
  <2>8. OwedOK(e)'
    BY <2>7 DEF OwedOK
  <2>. QED BY <2>2, <2>3, <2>4, <2>6, <2>8 DEF EventOK, Counted
<1>. QED BY <1>1, <1>4, <1>5, <1>6 DEF RIInv

-----------------------------------------------------------------------------
(* The steps of routing.                                                   *)

\* What of the registry a promise about a tab depends on; a step of routing
\* changes at most a link, when a write fails.
promised == <<who, client, go, cleanup, file, hist>>

\* While an event has not got to a new list, its part of the invariant holds on
\* as long as no connection is reached once more and none is forgotten.
LEMMA EventGoesOn ==
    ASSUME RIInv, RTypeOK', UNCHANGED promised, NEW e \in Event, Flow(e)',
           event'[e].target = event[e].target,
           event[e].pc # "none" => event'[e].pc # "none",
           routing'[e].list = routing[e].list,
           routing'[e].pc \in {"loop", "done"} =>
             routing[e].pc \in {"loop", "done"},
           seen'.loaded[e] = seen.loaded[e], seen'.listed[e] = seen.listed[e],
           seen'.owed[e] = seen.owed[e],
           \A c \in Conn : /\ Reached(e, c)' <= Reached(e, c)
                           /\ link'[c] = "none" => link[c] = "none"
                           /\ Coming(e, c) => Coming(e, c)'
    PROVE  EventOK(e)'
<1>0. /\ Suffix(e) /\ Counted(e) /\ Unled(e) /\ LoadedOnce(e) /\ OwedOK(e)
      /\ RTypeOK /\ ListsInv
  BY DEF RIInv, EventOK
<1>1. \A c \in Conn : Reached(e, c) \in Nat /\ Reached(e, c)' \in Nat
  <2>1. \A c \in Conn : Reached(e, c) \in Nat
    BY <1>0, ReachedType
  <2>2. \A c \in Conn : got'[e][c] \in Nat /\ offers'[e][c] \in Nat
    BY DEF RTypeOK
  <2>. QED BY <2>1, <2>2 DEF Reached, Pumped
<1>2. Suffix(e)'
  BY <1>0 DEF Suffix
<1>3. Counted(e)'
  <2> SUFFICES ASSUME NEW c \in Conn
               PROVE  Reached(e, c)'
                        + Occurrences(who[c].session, routing[e].list)
                        <= Occurrences(who[c].session, seen.loaded[e])
    BY DEF Counted, promised
  <2>1. Reached(e, c) + Occurrences(who[c].session, routing[e].list)
          <= Occurrences(who[c].session, seen.loaded[e])
    BY <1>0 DEF Counted
  <2>2. /\ Occurrences(who[c].session, routing[e].list) \in Nat
        /\ Occurrences(who[c].session, seen.loaded[e]) \in Nat
    BY <1>0, ListTypes
  <2>. QED BY <1>1, <2>1, <2>2
<1>4. Unled(e)'
  <2> SUFFICES ASSUME NEW c \in Conn, link'[c] = "none"
               PROVE  Reached(e, c)' = 0
    BY DEF Unled
  <2>1. Reached(e, c) = 0
    BY <1>0 DEF Unled
  <2>. QED BY <1>1, <2>1
<1>5. LoadedOnce(e)'
  BY <1>0 DEF LoadedOnce, Only, SoundFor, Exact, Identified, promised
<1>6. OwedOK(e)'
  <2> SUFFICES ASSUME NEW c \in seen.owed[e]
               PROVE  /\ event'[e].pc # "none"
                      /\ ConnectedTo(c, event[e].target)'
                      /\ Alone(c)' /\ Sound(event[e].target, c)'
                         => Coming(e, c)'
    BY DEF OwedOK
  <2>1. /\ event[e].pc # "none" /\ ConnectedTo(c, event[e].target)
        /\ Alone(c) /\ Sound(event[e].target, c) => Coming(e, c)
    BY <1>0 DEF OwedOK
  <2>2. c \in Conn
    BY <1>0 DEF RTypeOK
  <2>3. ConnectedTo(c, event[e].target)'
    BY <2>1 DEF ConnectedTo, Registered, Authenticating, Serving, Listed,
       promised
  <2>4. Alone(c)' /\ Sound(event[e].target, c)' =>
          Alone(c) /\ Sound(event[e].target, c)
    BY DEF Alone, Sound, SameTab, Identified, promised
  <2>. QED BY <2>1, <2>2, <2>3, <2>4
<1>. QED BY <1>2, <1>3, <1>4, <1>5, <1>6 DEF EventOK

\* An event the step is not about.
LEMMA EventStays ==
    ASSUME RIInv, RTypeOK', UNCHANGED promised, NEW e \in Event,
           event'[e] = event[e], routing'[e] = routing[e],
           seen'.loaded[e] = seen.loaded[e], seen'.listed[e] = seen.listed[e],
           seen'.owed[e] = seen.owed[e],
           e \in ToSet(channel') <=> e \in ToSet(channel),
           \A c \in Conn : /\ Reached(e, c)' = Reached(e, c)
                           /\ link'[c] = "none" => link[c] = "none"
                           /\ <<e, c>> \in seen.missed =>
                                <<e, c>> \in seen'.missed
    PROVE  EventOK(e)'
<1>1. Flow(e)'
  BY DEF RIInv, EventOK, Flow
<1>2. \A c \in Conn : Coming(e, c) => Coming(e, c)'
  BY DEF Coming, promised
<1>3. \A c \in Conn : Reached(e, c)' <= Reached(e, c)
  <2>1. \A c \in Conn : Reached(e, c) \in Nat
    BY ReachedType DEF RIInv
  <2>2. \A n \in Nat : n <= n
    OBVIOUS
  <2>. QED BY <2>1, <2>2
<1>. QED BY <1>1, <1>2, <1>3, EventGoesOn

\* A step that is not the registry's.
LEMMA RegistryStands ==
    ASSUME RIInv, UNCHANGED vars
    PROVE  /\ ListsInv' /\ NoTabLeads' /\ UNCHANGED promised
           /\ link' = link /\ who' = who /\ managers' = managers
           /\ userIndex' = userIndex /\ docSessions' = docSessions
<1>1. ListsInv'
  BY ListsStep DEF RIInv
<1>. QED BY <1>1 DEF RIInv, NoTabLeads, vars, promised

\* The channel holds what it held and the message that arrives.
LEMMA Arrived ==
    ASSUME NEW ch \in Seq(Event), NEW e \in Event, e \notin ToSet(ch)
    PROVE  /\ Append(ch, e) \in Seq(Event)
           /\ ToSet(Append(ch, e)) = ToSet(ch) \cup {e}
           /\ (\A i, j \in 1..Len(ch) : ch[i] = ch[j] => i = j) =>
                \A i, j \in 1..Len(Append(ch, e)) :
                  Append(ch, e)[i] = Append(ch, e)[j] => i = j
<1> DEFINE longer == Append(ch, e)
<1>1. /\ longer \in Seq(Event) /\ Len(longer) = Len(ch) + 1
      /\ \A i \in 1..Len(ch) : longer[i] = ch[i]
      /\ longer[Len(ch) + 1] = e /\ Len(ch) \in Nat
      /\ DOMAIN longer = 1..(Len(ch) + 1) /\ DOMAIN ch = 1..Len(ch)
  OBVIOUS
<1>. HIDE DEF longer
<1>2. ToSet(longer) = ToSet(ch) \cup {e}
  BY <1>1 DEF ToSet
<1>3. \A i \in 1..Len(ch) : ch[i] # e
  BY <1>1 DEF ToSet
<1>4. ASSUME \A i, j \in 1..Len(ch) : ch[i] = ch[j] => i = j,
             NEW i \in 1..Len(longer), NEW j \in 1..Len(longer),
             longer[i] = longer[j]
      PROVE  i = j
  <2>1. /\ i \in 1..Len(ch) \/ i = Len(ch) + 1
        /\ j \in 1..Len(ch) \/ j = Len(ch) + 1
    BY <1>1
  <2>. QED BY <1>1, <1>3, <1>4, <2>1
<1>. QED BY <1>1, <1>2, <1>4 DEF longer

\* The message taken from a channel was there once.
LEMMA Taken ==
    ASSUME NEW ch \in Seq(Event), ch # <<>>,
           \A i, j \in 1..Len(ch) : ch[i] = ch[j] => i = j
    PROVE  /\ Tail(ch) \in Seq(Event) /\ Head(ch) \in Event
           /\ ToSet(ch) = ToSet(Tail(ch)) \cup {Head(ch)}
           /\ Head(ch) \notin ToSet(Tail(ch))
           /\ \A i, j \in 1..Len(Tail(ch)) :
                Tail(ch)[i] = Tail(ch)[j] => i = j
<1> DEFINE rest == Tail(ch)
<1>1. /\ rest \in Seq(Event) /\ Len(rest) = Len(ch) - 1
      /\ Len(ch) \in Nat \ {0} /\ Head(ch) = ch[1] /\ ch[1] \in Event
      /\ \A i \in 1..(Len(ch) - 1) : rest[i] = ch[i + 1]
      /\ DOMAIN rest = 1..(Len(ch) - 1) /\ DOMAIN ch = 1..Len(ch)
  OBVIOUS
<1>. HIDE DEF rest
<1>2. \A i \in 1..(Len(ch) - 1) : i + 1 \in 1..Len(ch) /\ i + 1 # 1
  BY <1>1
<1>3. \A i \in 1..Len(ch) : i = 1 \/ (i - 1 \in 1..(Len(ch) - 1)
                                    /\ ch[i] = rest[i - 1])
  BY <1>1
<1>4. 1 \in 1..Len(ch)
  BY <1>1
<1>5. ToSet(ch) = ToSet(rest) \cup {Head(ch)}
  <2>1. \A x : x \in ToSet(ch) <=> \E i \in 1..Len(ch) : ch[i] = x
    BY <1>1 DEF ToSet
  <2>2. \A x : x \in ToSet(rest) <=> \E i \in 1..(Len(ch) - 1) : rest[i] = x
    BY <1>1 DEF ToSet
  <2>3. \A x : x \in ToSet(ch) => x = Head(ch) \/ x \in ToSet(rest)
    BY <1>1, <1>3, <2>1, <2>2
  <2>4. \A x : x \in ToSet(rest) => x \in ToSet(ch)
    BY <1>1, <1>2, <2>1, <2>2
  <2>5. Head(ch) \in ToSet(ch)
    BY <1>1, <1>4, <2>1
  <2>. QED BY <2>3, <2>4, <2>5
<1>6. Head(ch) \notin ToSet(rest)
  BY <1>1, <1>2, <1>4 DEF ToSet
<1>7. ASSUME NEW i \in 1..Len(rest), NEW j \in 1..Len(rest), rest[i] = rest[j]
      PROVE  i = j
  <2>1. i \in 1..(Len(ch) - 1) /\ j \in 1..(Len(ch) - 1)
    BY <1>1
  <2>2. ch[i + 1] = ch[j + 1]
    BY <1>1, <1>7, <2>1
  <2>3. i + 1 = j + 1
    BY <1>2, <2>1, <2>2
  <2>. QED BY <2>1, <2>3
<1>. QED BY <1>1, <1>5, <1>6, <1>7 DEF rest

\* What the history has room for.
SeenType == [owed : [Event -> SUBSET Conn], missed : SUBSET (Event \X Conn),
             loaded : [Event -> Seq(Session \cup {NoSession})],
             listed : [Event -> SUBSET Conn]]

\* A new event has left no trace, and is owed to those who are connected.
LEMMA Published ==
    ASSUME RIInv, NEW e \in Event, NEW t \in Target, event[e].pc = "none"
    PROVE  /\ routing[e].pc = "idle" /\ routing[e].list = <<>>
           /\ e \notin ToSet(channel)
           /\ \A c \in Conn : Reached(e, c) = 0
           /\ Owes(e, t) \in SeenType
           /\ Owes(e, t).missed = seen.missed
           /\ Owes(e, t).loaded = seen.loaded
           /\ Owes(e, t).listed = seen.listed
           /\ Owes(e, t).owed[e] = {c \in Conn : ConnectedTo(c, t)}
           /\ \A f \in Event \ {e} : Owes(e, t).owed[f] = seen.owed[f]
<1>1. Flow(e) /\ RTypeOK
  BY DEF RIInv, EventOK
<1>2. /\ routing[e].pc = "idle" /\ routing[e].list = <<>>
      /\ e \notin ToSet(channel) /\ \A c \in Conn : Reached(e, c) = 0
  BY <1>1 DEF Flow
<1>3. {c \in Conn : ConnectedTo(c, t)} \in SUBSET Conn
  OBVIOUS
<1>4. /\ Owes(e, t) \in SeenType
      /\ Owes(e, t).missed = seen.missed /\ Owes(e, t).loaded = seen.loaded
      /\ Owes(e, t).listed = seen.listed
      /\ Owes(e, t).owed[e] = {c \in Conn : ConnectedTo(c, t)}
      /\ \A f \in Event \ {e} : Owes(e, t).owed[f] = seen.owed[f]
  BY <1>1, <1>3 DEF Owes, RTypeOK, SeenType
<1>. QED BY <1>2, <1>4

\* The list of an event that has just been published is empty, and everybody
\* connected is to come.
LEMMA NewEventOK ==
    ASSUME RIInv, NEW e \in Event, NEW t \in Target,
           UNCHANGED vars, Flow(e)', \A c \in Conn : Reached(e, c)' = 0,
           routing'[e].list = <<>>, routing'[e].pc \in {"idle", "load"},
           event'[e].target = t, event'[e].pc # "none",
           seen'.loaded[e] = seen.loaded[e],
           seen'.owed[e] = {c \in Conn : ConnectedTo(c, t)},
           \A c \in Conn : Coming(e, c)'
    PROVE  EventOK(e)'
<1>1. ListsInv /\ RTypeOK
  BY DEF RIInv
<1>2. \A n : Occurrences(n, routing'[e].list) = 0
  BY OccursNowhere
<1>3. \A n : Occurrences(n, seen.loaded[e]) \in Nat
  BY <1>1, ListTypes
<1>4. Suffix(e)' /\ Counted(e)'
  BY <1>2, <1>3 DEF Suffix, Counted
<1>5. Unled(e)' /\ LoadedOnce(e)'
  BY DEF Unled, LoadedOnce
<1>6. OwedOK(e)'
  <2>1. UNCHANGED promised
    BY DEF vars, promised
  <2>2. \A c \in Conn : ConnectedTo(c, t) => ConnectedTo(c, event[e].target)'
    BY <2>1 DEF ConnectedTo, Registered, Authenticating, Serving, Listed,
       promised
  <2>. QED BY <2>2 DEF OwedOK
<1>. QED BY <1>4, <1>5, <1>6 DEF EventOK

\* An event is published here: it is about to be routed.
LEMMA BroadcastKeeps ==
    ASSUME RIInv, NEW e \in Event, NEW t \in Target, Broadcast(e, t)
    PROVE  RIInv'
<1>0. /\ RTypeOK /\ ChannelOnce /\ UNCHANGED vars
      /\ offers' = offers /\ pump' = pump /\ channel' = channel
      /\ subscribed' = subscribed /\ got' = got /\ seen' = Owes(e, t)
      /\ event[e].pc = "none"
      /\ event' = [event EXCEPT ![e] = [pc |-> "route", target |-> t,
                                        here |-> TRUE]]
      /\ routing' = [routing EXCEPT ![e].pc = "load"]
  BY DEF RIInv, Broadcast, Publish, transport
<1>1. /\ ListsInv' /\ NoTabLeads' /\ UNCHANGED promised /\ link' = link
  BY <1>0, RegistryStands
<1>2. /\ routing'[e].pc = "load" /\ routing'[e].list = routing[e].list
      /\ \A f \in Event \ {e} : routing'[f] = routing[f]
      /\ routing' \in [Event -> [pc : {"idle", "load", "loop", "done"},
                              list : Seq(Session \cup {NoSession})]]
  BY <1>0 DEF RTypeOK
<1>3. /\ routing[e].list = <<>> /\ e \notin ToSet(channel)
      /\ \A c \in Conn : Reached(e, c) = 0
  BY <1>0, Published
<1>4. /\ event'[e].pc = "route" /\ event'[e].target = t /\ event'[e].here
      /\ \A f \in Event \ {e} : event'[f] = event[f]
      /\ event' \in [Event -> [pc : {"none", "route", "published"},
                               target : Target \cup {NoTarget},
                               here : BOOLEAN]]
  BY <1>0 DEF RTypeOK
<1>t. RTypeOK'
  <2>1. seen' \in SeenType
    BY <1>0, Published
  <2>. QED BY <1>0, <1>2, <1>4, <2>1 DEF RTypeOK, SeenType
<1>5. ChannelOnce'
  BY <1>0 DEF ChannelOnce
<1>6. \A f \in Event, c \in Conn : Reached(f, c)' = Reached(f, c)
  BY <1>0 DEF Reached, Pumped
<1>7. /\ seen'.missed = seen.missed /\ seen'.loaded = seen.loaded
      /\ seen'.listed = seen.listed
      /\ seen'.owed[e] = {c \in Conn : ConnectedTo(c, t)}
      /\ \A f \in Event \ {e} : seen'.owed[f] = seen.owed[f]
  BY <1>0, Published
<1>8. Flow(e)'
  BY <1>0, <1>2, <1>3, <1>4, <1>6 DEF Flow
<1>9. \A c \in Conn : Coming(e, c)'
  BY <1>2 DEF Coming
<1>10. EventOK(e)'
  BY <1>0, <1>2, <1>3, <1>4, <1>6, <1>7, <1>8, <1>9, NewEventOK
<1>11. ASSUME NEW f \in Event \ {e}
       PROVE  EventOK(f)'
  <2>1. /\ event'[f] = event[f] /\ routing'[f] = routing[f]
        /\ seen'.loaded[f] = seen.loaded[f]
        /\ seen'.listed[f] = seen.listed[f] /\ seen'.owed[f] = seen.owed[f]
        /\ f \in ToSet(channel') <=> f \in ToSet(channel)
        /\ \A c \in Conn : /\ Reached(f, c)' = Reached(f, c)
                           /\ link'[c] = "none" => link[c] = "none"
                           /\ <<f, c>> \in seen.missed =>
                                <<f, c>> \in seen'.missed
    BY <1>0, <1>1, <1>2, <1>4, <1>6, <1>7
  <2>. QED BY <1>1, <1>t, <2>1, EventStays
<1>. QED BY <1>1, <1>t, <1>5, <1>10, <1>11 DEF RIInv

\* An event published elsewhere is in the channel, or was missed.
LEMMA PublishElsewhereKeeps ==
    ASSUME RIInv, NEW e \in Event, NEW t \in Target, PublishElsewhere(e, t)
    PROVE  RIInv'
<1>0. /\ RTypeOK /\ ChannelOnce /\ UNCHANGED vars /\ routing' = routing
      /\ offers' = offers /\ pump' = pump /\ subscribed' = subscribed
      /\ got' = got /\ event[e].pc = "none"
      /\ event' = [event EXCEPT ![e] = [pc |-> "published", target |-> t,
                                        here |-> FALSE]]
  BY DEF RIInv, PublishElsewhere, Publish
<1>1. /\ ListsInv' /\ NoTabLeads' /\ UNCHANGED promised /\ link' = link
  BY <1>0, RegistryStands
<1>2. /\ routing[e].list = <<>> /\ routing[e].pc = "idle"
      /\ e \notin ToSet(channel)
      /\ \A c \in Conn : Reached(e, c) = 0
  BY <1>0, Published
<1>t. /\ event'[e].pc = "published" /\ event'[e].target = t
      /\ ~event'[e].here
      /\ \A f \in Event \ {e} : event'[f] = event[f]
      /\ event' \in [Event -> [pc : {"none", "route", "published"},
                               target : Target \cup {NoTarget},
                               here : BOOLEAN]]
  BY <1>0 DEF RTypeOK
<1>3. /\ channel' = channel \/ channel' = Append(channel, e)
      /\ channel' \in Seq(Event) /\ ChannelOnce'
      /\ \A f \in Event \ {e} : f \in ToSet(channel') <=> f \in ToSet(channel)
  <2>1. channel' = channel \/ channel' = Append(channel, e)
    BY DEF PublishElsewhere
  <2>2. channel \in Seq(Event)
    BY <1>0 DEF RTypeOK
  <2>3. CASE channel' = channel
    BY <1>0, <2>2, <2>3 DEF ChannelOnce
  <2>4. CASE channel' = Append(channel, e)
    BY <1>0, <1>2, <2>2, <2>4, Arrived DEF ChannelOnce
  <2>. QED BY <2>1, <2>3, <2>4
<1>4. /\ seen' \in SeenType /\ seen'.loaded = seen.loaded
      /\ seen'.listed = seen.listed
      /\ seen.missed \subseteq seen'.missed
      /\ seen'.owed[e] = {c \in Conn : ConnectedTo(c, t)}
      /\ \A f \in Event \ {e} : seen'.owed[f] = seen.owed[f]
      /\ e \in ToSet(channel') \/ \A c \in Conn : <<e, c>> \in seen'.missed
  <2> DEFINE owes == Owes(e, t)
  <2>1. /\ owes \in SeenType /\ owes.loaded = seen.loaded
        /\ owes.listed = seen.listed /\ owes.missed = seen.missed
        /\ owes.owed[e] = {c \in Conn : ConnectedTo(c, t)}
        /\ \A f \in Event \ {e} : owes.owed[f] = seen.owed[f]
    BY <1>0, Published
  <2>. HIDE DEF owes
  <2>2. CASE seen' = owes /\ channel' = Append(channel, e)
    <3>1. e \in ToSet(channel')
      BY <1>0, <1>2, <2>2, Arrived DEF RTypeOK
    <3>. QED BY <2>1, <2>2, <3>1
  <2>3. CASE seen' = [owes EXCEPT !.missed = @ \cup ({e} \X Conn)]
    <3>1. {e} \X Conn \in SUBSET (Event \X Conn)
      OBVIOUS
    <3>2. \A c \in Conn : <<e, c>> \in {e} \X Conn
      OBVIOUS
    <3>3. /\ seen' \in SeenType /\ seen'.loaded = owes.loaded
          /\ seen'.listed = owes.listed /\ seen'.owed = owes.owed
          /\ seen'.missed = owes.missed \cup ({e} \X Conn)
      BY <2>1, <2>3, <3>1 DEF SeenType
    <3>. QED BY <2>1, <3>2, <3>3
  <2>. QED BY <2>2, <2>3 DEF PublishElsewhere, owes
<1>5. RTypeOK'
  BY <1>0, <1>3, <1>4, <1>t DEF RTypeOK, SeenType
<1>6. \A f \in Event, c \in Conn : Reached(f, c)' = Reached(f, c)
  BY <1>0 DEF Reached, Pumped
<1>7. Flow(e)'
  BY <1>0, <1>2, <1>6, <1>t DEF Flow
<1>8. \A c \in Conn : Coming(e, c)'
  BY <1>4, <1>t DEF Coming
<1>9. EventOK(e)'
  BY <1>0, <1>2, <1>4, <1>6, <1>7, <1>8, <1>t, NewEventOK
<1>10. ASSUME NEW f \in Event \ {e}
       PROVE  EventOK(f)'
  <2>1. /\ event'[f] = event[f] /\ routing'[f] = routing[f]
        /\ seen'.loaded[f] = seen.loaded[f]
        /\ seen'.listed[f] = seen.listed[f] /\ seen'.owed[f] = seen.owed[f]
        /\ f \in ToSet(channel') <=> f \in ToSet(channel)
        /\ \A c \in Conn : /\ Reached(f, c)' = Reached(f, c)
                           /\ link'[c] = "none" => link[c] = "none"
                           /\ <<f, c>> \in seen.missed =>
                                <<f, c>> \in seen'.missed
    BY <1>0, <1>1, <1>3, <1>4, <1>6, <1>t
  <2>. QED BY <1>1, <1>5, <2>1, EventStays
<1>. QED BY <1>1, <1>3, <1>5, <1>9, <1>10 DEF RIInv

\* Only events published here are in the channel and routed already.
LEMMA PubRedisKeeps ==
    ASSUME RIInv, NEW e \in Event, PubRedis(e)
    PROVE  RIInv'
<1>0. /\ RTypeOK /\ ChannelOnce /\ Flow(e) /\ UNCHANGED vars
      /\ routing' = routing /\ offers' = offers /\ pump' = pump
      /\ subscribed' = subscribed /\ got' = got /\ seen' = seen
      /\ event[e].pc = "route" /\ routing[e].pc = "done"
      /\ event' = [event EXCEPT ![e].pc = "published"]
  BY DEF RIInv, EventOK, PubRedis
<1>1. /\ ListsInv' /\ NoTabLeads' /\ UNCHANGED promised /\ link' = link
  BY <1>0, RegistryStands
<1>2. /\ event'[e].pc = "published" /\ event'[e].target = event[e].target
      /\ event'[e].here <=> event[e].here
      /\ \A f \in Event \ {e} : event'[f] = event[f]
      /\ event' \in [Event -> [pc : {"none", "route", "published"},
                               target : Target \cup {NoTarget},
                               here : BOOLEAN]]
  <2>1. event \in [Event -> [pc : {"none", "route", "published"},
                             target : Target \cup {NoTarget},
                             here : BOOLEAN]]
    BY <1>0 DEF RTypeOK
  <2>2. /\ [event[e] EXCEPT !.pc = "published"]
             \in [pc : {"none", "route", "published"},
                 target : Target \cup {NoTarget}, here : BOOLEAN]
        /\ [event[e] EXCEPT !.pc = "published"].pc = "published"
        /\ [event[e] EXCEPT !.pc = "published"].target = event[e].target
        /\ [event[e] EXCEPT !.pc = "published"].here <=> event[e].here
    BY <2>1
  <2>3. event' = [event EXCEPT ![e] = [event[e] EXCEPT !.pc = "published"]]
    BY <1>0
  <2>4. event'[e] = [event[e] EXCEPT !.pc = "published"]
    BY <2>1, <2>3
  <2>5. \A f \in Event \ {e} : event'[f] = event[f]
    BY <2>1, <2>3
  <2>6. event' \in [Event -> [pc : {"none", "route", "published"},
                              target : Target \cup {NoTarget},
                              here : BOOLEAN]]
    BY <2>1, <2>2, <2>3
  <2>. QED BY <2>2, <2>4, <2>5, <2>6
<1>h. event[e].here /\ event'[e].here
  BY <1>0, <1>2 DEF Flow
<1>3. /\ channel' \in Seq(Event) /\ ChannelOnce'
      /\ \A f \in Event \ {e} : f \in ToSet(channel') <=> f \in ToSet(channel)
  <2>1. channel' = channel \/ channel' = Append(channel, e)
    BY DEF PubRedis
  <2>2. channel \in Seq(Event) /\ e \notin ToSet(channel)
    BY <1>0 DEF RTypeOK, Flow
  <2>3. CASE channel' = channel
    BY <1>0, <2>2, <2>3 DEF ChannelOnce
  <2>4. CASE channel' = Append(channel, e)
    BY <1>0, <2>2, <2>4, Arrived DEF ChannelOnce
  <2>. QED BY <2>1, <2>3, <2>4
<1>4. RTypeOK'
  BY <1>0, <1>2, <1>3 DEF RTypeOK
<1>5. \A f \in Event, c \in Conn : /\ Reached(f, c)' = Reached(f, c)
                                 /\ Reached(f, c) \in Nat
  BY <1>0, ReachedType DEF Reached, Pumped
<1>6. EventOK(e)'
  <2>1. Flow(e)'
    BY <1>0, <1>2, <1>5, <1>h DEF Flow
  <2>2. \A c \in Conn : Coming(e, c) => Coming(e, c)'
    BY <1>0, <1>1, <1>2, <1>5, <1>h DEF Coming, promised
  <2>3. \A c \in Conn : Reached(e, c)' <= Reached(e, c)
    <3>1. \A n \in Nat : n <= n
      OBVIOUS
    <3>. QED BY <1>5, <3>1
  <2>. QED BY <1>0, <1>1, <1>2, <1>4, <2>1, <2>2, <2>3, EventGoesOn
<1>7. ASSUME NEW f \in Event \ {e}
      PROVE  EventOK(f)'
  <2>1. /\ event'[f] = event[f] /\ routing'[f] = routing[f]
        /\ seen'.loaded[f] = seen.loaded[f]
        /\ seen'.listed[f] = seen.listed[f] /\ seen'.owed[f] = seen.owed[f]
        /\ f \in ToSet(channel') <=> f \in ToSet(channel)
        /\ \A c \in Conn : /\ Reached(f, c)' = Reached(f, c)
                           /\ link'[c] = "none" => link[c] = "none"
                           /\ <<f, c>> \in seen.missed =>
                                <<f, c>> \in seen'.missed
    BY <1>0, <1>1, <1>2, <1>3, <1>5
  <2>. QED BY <1>1, <1>4, <2>1, EventStays
<1>. QED BY <1>1, <1>3, <1>4, <1>6, <1>7 DEF RIInv

\* A message of the channel has been routed here already, or is about to be.
LEMMA ReceiveKeeps ==
    ASSUME RIInv, Receive
    PROVE  RIInv'
<1>e. PICK e : e = Head(channel)
  OBVIOUS
<1>0. /\ RTypeOK /\ ChannelOnce /\ UNCHANGED vars /\ event' = event
      /\ offers' = offers /\ pump' = pump /\ subscribed' = subscribed
      /\ got' = got /\ seen' = seen /\ channel # <<>>
      /\ channel' = Tail(channel) /\ channel \in Seq(Event)
      /\ routing' = IF event[e].here THEN routing
                    ELSE [routing EXCEPT ![e].pc = "load"]
  BY <1>e DEF RIInv, Receive, RTypeOK
<1>1. /\ ListsInv' /\ NoTabLeads' /\ UNCHANGED promised /\ link' = link
  BY <1>0, RegistryStands
<1>2. /\ channel' \in Seq(Event) /\ e \in Event
      /\ ToSet(channel) = ToSet(channel') \cup {e} /\ e \notin ToSet(channel')
      /\ ChannelOnce'
  BY <1>0, <1>e, Taken DEF ChannelOnce
<1>3. Flow(e)
  BY <1>2 DEF RIInv, EventOK
<1>4. /\ routing' \in [Event -> [pc : {"idle", "load", "loop", "done"},
                                list : Seq(Session \cup {NoSession})]]
      /\ \A f \in Event \ {e} : routing'[f] = routing[f]
      /\ routing'[e].list = routing[e].list
      /\ event[e].here => routing'[e].pc = routing[e].pc
      /\ ~event[e].here => routing'[e].pc = "load" /\ routing[e].pc = "idle"
      /\ event[e].pc = "published"
  <2>1. routing \in [Event -> [pc : {"idle", "load", "loop", "done"},
                               list : Seq(Session \cup {NoSession})]]
    BY <1>0 DEF RTypeOK
  <2>2. /\ event[e].pc = "published"
        /\ ~event[e].here => routing[e].pc = "idle"
    BY <1>2, <1>3 DEF Flow
  <2>3. CASE event[e].here
    BY <1>0, <2>1, <2>2, <2>3
  <2>4. CASE ~event[e].here
    <3>1. routing' = [routing EXCEPT ![e].pc = "load"]
      BY <1>0, <2>4
    <3>. QED BY <1>2, <2>1, <2>2, <2>4, <3>1
  <2>. QED BY <2>3, <2>4
<1>5. RTypeOK'
  BY <1>0, <1>2, <1>4 DEF RTypeOK
<1>6. \A f \in Event, c \in Conn : /\ Reached(f, c)' = Reached(f, c)
                                 /\ Reached(f, c) \in Nat
  BY <1>0, ReachedType DEF Reached, Pumped
<1>7. EventOK(e)'
  <2>1. Flow(e)'
    BY <1>0, <1>2, <1>3, <1>4, <1>6 DEF Flow
  <2>2. \A c \in Conn : Coming(e, c) => Coming(e, c)'
    BY <1>0, <1>1, <1>2, <1>4, <1>6 DEF Coming, promised
  <2>3. \A c \in Conn : Reached(e, c)' <= Reached(e, c)
    <3>1. \A n \in Nat : n <= n
      OBVIOUS
    <3>. QED BY <1>2, <1>6, <3>1
  <2>. QED BY <1>0, <1>1, <1>2, <1>4, <1>5, <2>1, <2>2, <2>3, EventGoesOn
<1>8. ASSUME NEW f \in Event \ {e}
      PROVE  EventOK(f)'
  <2>1. /\ event'[f] = event[f] /\ routing'[f] = routing[f]
        /\ seen'.loaded[f] = seen.loaded[f]
        /\ seen'.listed[f] = seen.listed[f] /\ seen'.owed[f] = seen.owed[f]
        /\ f \in ToSet(channel') <=> f \in ToSet(channel)
        /\ \A c \in Conn : /\ Reached(f, c)' = Reached(f, c)
                           /\ link'[c] = "none" => link[c] = "none"
                           /\ <<f, c>> \in seen.missed =>
                                <<f, c>> \in seen'.missed
    BY <1>0, <1>1, <1>2, <1>4, <1>6
  <2>. QED BY <1>1, <1>5, <2>1, EventStays
<1>. QED BY <1>1, <1>2, <1>5, <1>7, <1>8 DEF RIInv

\* What the channel held is missed, where it was not routed already.
LEMMA SubscriptionLostKeeps ==
    ASSUME RIInv, SubscriptionLost
    PROVE  RIInv'
<1> DEFINE lost == {e \in ToSet(channel) : ~event[e].here}
<1>0. /\ RTypeOK /\ ChannelOnce /\ UNCHANGED vars /\ event' = event
      /\ routing' = routing /\ offers' = offers /\ pump' = pump
      /\ got' = got /\ channel' = <<>> /\ subscribed' \in BOOLEAN
      /\ channel' \in Seq(Event)
      /\ seen' = [seen EXCEPT !.missed = @ \cup (lost \X Conn)]
  <2>1. subscribed' = FALSE /\ channel' = <<>>
    BY DEF SubscriptionLost
  <2>2. FALSE \in BOOLEAN /\ <<>> \in Seq(Event)
    OBVIOUS
  <2>3. subscribed' \in BOOLEAN
    BY <2>1, <2>2, Zenon
  <2>4. channel' \in Seq(Event)
    BY <2>1, <2>2
  <2>. QED BY <2>3, <2>4 DEF RIInv, SubscriptionLost
<1>1. /\ ListsInv' /\ NoTabLeads' /\ UNCHANGED promised /\ link' = link
  BY <1>0, RegistryStands
<1>2. lost \in SUBSET Event
  BY <1>0 DEF RTypeOK, ToSet
<1>3. /\ seen' \in SeenType /\ seen'.loaded = seen.loaded
      /\ seen'.listed = seen.listed /\ seen'.owed = seen.owed
      /\ seen'.missed = seen.missed \cup (lost \X Conn)
  <2>1. lost \X Conn \in SUBSET (Event \X Conn)
    BY <1>2
  <2>. HIDE DEF lost
  <2>. QED BY <1>0, <2>1 DEF RTypeOK, SeenType
<1>4. RTypeOK'
  BY <1>0, <1>3 DEF RTypeOK, SeenType
<1>5. ToSet(channel') = {} /\ ChannelOnce'
  BY <1>0 DEF ToSet, ChannelOnce
<1>6. \A f \in Event, c \in Conn : /\ Reached(f, c)' = Reached(f, c)
                                 /\ Reached(f, c) \in Nat
  BY <1>0, ReachedType DEF Reached, Pumped
<1>7. ASSUME NEW f \in Event
      PROVE  EventOK(f)'
  <2>1. Flow(f)'
    BY <1>0, <1>5, <1>6 DEF RIInv, EventOK, Flow
  <2>2. ASSUME NEW c \in Conn, Coming(f, c)
        PROVE  Coming(f, c)'
    <3>1. CASE f \in ToSet(channel) /\ ~event[f].here
      <4>1. <<f, c>> \in lost \X Conn
        BY <3>1
      <4>. QED BY <1>3, <4>1 DEF Coming
    <3>2. CASE ~(f \in ToSet(channel) /\ ~event[f].here)
      BY <1>0, <1>1, <1>3, <1>6, <2>2, <3>2 DEF Coming, promised
    <3>. QED BY <3>1, <3>2
  <2>3. \A c \in Conn : Reached(f, c)' <= Reached(f, c)
    <3>1. \A n \in Nat : n <= n
      OBVIOUS
    <3>. QED BY <1>6, <3>1
  <2>. QED BY <1>0, <1>1, <1>3, <1>4, <2>1, <2>2, <2>3, EventGoesOn
<1>. QED BY <1>1, <1>4, <1>5, <1>7 DEF RIInv

LEMMA ResubscribeKeeps ==
    ASSUME RIInv, Resubscribe
    PROVE  RIInv'
<1>0. /\ RTypeOK /\ ChannelOnce /\ UNCHANGED vars /\ event' = event
      /\ routing' = routing /\ offers' = offers /\ pump' = pump
      /\ got' = got /\ channel' = channel /\ subscribed' = TRUE
      /\ seen' = seen
  BY DEF RIInv, Resubscribe
<1>1. /\ ListsInv' /\ NoTabLeads' /\ UNCHANGED promised /\ link' = link
  BY <1>0, RegistryStands
<1>2. RTypeOK' /\ ChannelOnce'
  BY <1>0 DEF RTypeOK, ChannelOnce
<1>3. \A f \in Event, c \in Conn : Reached(f, c)' = Reached(f, c)
  BY <1>0 DEF Reached, Pumped
<1>4. \A f \in Event : EventOK(f)'
  BY <1>0, <1>1, <1>2, <1>3, EventStays
<1>. QED BY <1>1, <1>2, <1>4 DEF RIInv

\* What a writePump and the goroutines that offer it an event do about e.
LEMMA HandedOver ==
    ASSUME RIInv, RTypeOK', ListsInv', NoTabLeads', UNCHANGED promised,
           event' = event, routing' = routing, channel' = channel,
           seen'.owed = seen.owed, seen'.loaded = seen.loaded,
           seen'.listed = seen.listed, seen.missed \subseteq seen'.missed,
           NEW e \in Event, NEW c \in Conn,
           \A k \in Conn : link'[k] = "none" => link[k] = "none",
           \A f \in Event, k \in Conn : f # e \/ k # c =>
             Reached(f, k)' = Reached(f, k),
           Reached(e, c)' = Reached(e, c)
             \/ (Reached(e, c)' <= Reached(e, c) /\ Reached(e, c) # 0
                 /\ <<e, c>> \in seen'.missed)
    PROVE  RIInv'
<1>0. RTypeOK /\ Flow(e) /\ ChannelOnce
  BY DEF RIInv, EventOK
<1>1. \A k \in Conn : Reached(e, k) \in Nat
  BY <1>0, ReachedType
<1>2. \A k \in Conn : Reached(e, k)' <= Reached(e, k)
  <2>1. \A n \in Nat : n <= n
    OBVIOUS
  <2>. QED BY <1>1, <2>1
<1>3. Flow(e)'
  <2>1. ASSUME routing[e].pc \in {"idle", "load"}, NEW k \in Conn
        PROVE  Reached(e, k)' = 0
    <3>1. Reached(e, k) = 0
      BY <1>0, <2>1 DEF Flow
    <3>2. k # c \/ Reached(e, c)' = Reached(e, c)
      BY <3>1
    <3>. QED BY <3>1, <3>2
  <2>. QED BY <1>0, <2>1 DEF Flow
<1>4. \A k \in Conn : Coming(e, k) => Coming(e, k)'
  BY DEF Coming, promised
<1>5. EventOK(e)'
  BY <1>2, <1>3, <1>4, EventGoesOn
<1>6. ASSUME NEW f \in Event \ {e}
      PROVE  EventOK(f)'
  BY EventStays
<1>7. ChannelOnce'
  BY <1>0 DEF ChannelOnce
<1>. QED BY <1>5, <1>6, <1>7 DEF RIInv

\* An event that is offered is taken or missed.
LEMMA OfferKeeps ==
    ASSUME RIInv, NEW e \in Event, NEW c \in Conn, Offer(e, c)
    PROVE  RIInv'
<1>0. /\ RTypeOK /\ UNCHANGED vars /\ event' = event /\ routing' = routing
      /\ channel' = channel /\ subscribed' = subscribed /\ got' = got
      /\ offers[e][c] > 0 /\ offers' = [offers EXCEPT ![e][c] = @ - 1]
  BY DEF RIInv, Offer, transport
<1>1. /\ ListsInv' /\ NoTabLeads' /\ UNCHANGED promised /\ link' = link
  BY <1>0, RegistryStands
<1>2. /\ offers' \in [Event -> [Conn -> Nat]]
      /\ offers'[e][c] = offers[e][c] - 1
      /\ \A f \in Event, k \in Conn : f # e \/ k # c =>
           offers'[f][k] = offers[f][k]
  <2>1. offers \in [Event -> [Conn -> Nat]] /\ offers[e][c] \in Nat
    BY <1>0 DEF RTypeOK
  <2>2. offers[e][c] - 1 \in Nat
    BY <1>0, <2>1
  <2>. QED BY <1>0, <2>1, <2>2
<1>3. CASE pump[c] = NoEvent /\ pump' = [pump EXCEPT ![c] = e] /\ seen' = seen
  <2>1. /\ pump' \in [Conn -> Event \cup {NoEvent}] /\ pump'[c] = e
        /\ \A k \in Conn : k # c => pump'[k] = pump[k]
        /\ \A f \in Event : f # NoEvent
    BY <1>0, <1>3, RoutingAssumption DEF RTypeOK
  <2>2. RTypeOK'
    BY <1>0, <1>2, <1>3, <2>1 DEF RTypeOK
  <2>3. \A f \in Event, k \in Conn : f # e \/ k # c =>
          Pumped(f, k)' = Pumped(f, k)
    BY <1>3, <2>1 DEF Pumped
  <2>4. \A f \in Event, k \in Conn : f # e \/ k # c =>
          Reached(f, k)' = Reached(f, k)
    BY <1>0, <1>2, <2>3 DEF Reached
  <2>5. Reached(e, c)' = Reached(e, c)
    <3>1. Pumped(e, c) = 0 /\ Pumped(e, c)' = 1
      BY <1>3, <2>1 DEF Pumped
    <3>2. got[e][c] \in Nat /\ offers[e][c] \in Nat
      BY <1>0 DEF RTypeOK
    <3>3. got'[e][c] = got[e][c]
      BY <1>0
    <3>. QED BY <1>2, <3>1, <3>2, <3>3 DEF Reached
  <2>6. /\ seen'.owed = seen.owed /\ seen'.loaded = seen.loaded
        /\ seen'.listed = seen.listed /\ seen.missed \subseteq seen'.missed
        /\ \A k \in Conn : link'[k] = "none" => link[k] = "none"
        /\ Reached(e, c)' = Reached(e, c)
             \/ (Reached(e, c)' <= Reached(e, c) /\ Reached(e, c) # 0
                 /\ <<e, c>> \in seen'.missed)
    BY <1>1, <1>3, <2>5
  <2>. QED BY <1>0, <1>1, <2>2, <2>4, <2>6, HandedOver
<1>4. CASE pump' = pump
           /\ seen' = [seen EXCEPT !.missed = @ \cup {<<e, c>>}]
  <2>1. /\ seen' \in SeenType /\ seen'.owed = seen.owed
        /\ seen'.loaded = seen.loaded /\ seen'.listed = seen.listed
        /\ seen'.missed = seen.missed \cup {<<e, c>>}
    <3>1. {<<e, c>>} \in SUBSET (Event \X Conn)
      OBVIOUS
    <3>. QED BY <1>0, <1>4, <3>1 DEF RTypeOK, SeenType
  <2>2. RTypeOK'
    BY <1>0, <1>2, <1>4, <2>1 DEF RTypeOK, SeenType
  <2>3. \A f \in Event, k \in Conn : Pumped(f, k)' = Pumped(f, k)
    BY <1>4 DEF Pumped
  <2>4. \A f \in Event, k \in Conn : f # e \/ k # c =>
          Reached(f, k)' = Reached(f, k)
    BY <1>0, <1>2, <2>3 DEF Reached
  <2>5. Reached(e, c)' <= Reached(e, c) /\ Reached(e, c) # 0
    <3>1. /\ got[e][c] \in Nat /\ offers[e][c] \in Nat
          /\ Pumped(e, c) \in {0, 1}
      BY <1>0, ReachedType
    <3>2. got'[e][c] = got[e][c] /\ Pumped(e, c)' = Pumped(e, c)
      BY <1>0, <2>3
    <3>. QED BY <1>0, <1>2, <3>1, <3>2 DEF Reached
  <2>6. <<e, c>> \in seen'.missed /\ seen.missed \subseteq seen'.missed
    BY <2>1
  <2>. QED BY <1>0, <1>1, <2>1, <2>2, <2>4, <2>5, <2>6, HandedOver
<1>. QED BY <1>3, <1>4 DEF Offer

\* An event that a pump holds is written.
LEMMA WriteMessageKeeps ==
    ASSUME RIInv, NEW c \in Conn, WriteMessage(c)
    PROVE  RIInv'
<1>e. PICK e : e = pump[c]
  OBVIOUS
<1>0. /\ RTypeOK /\ UNCHANGED vars /\ event' = event /\ routing' = routing
      /\ channel' = channel /\ subscribed' = subscribed
      /\ offers' = offers /\ seen' = seen /\ e \in Event
      /\ got' = [got EXCEPT ![e][c] = @ + 1]
      /\ pump' = [pump EXCEPT ![c] = NoEvent]
  BY <1>e DEF RIInv, WriteMessage, transport, RTypeOK
<1>1. /\ ListsInv' /\ NoTabLeads' /\ UNCHANGED promised /\ link' = link
  BY <1>0, RegistryStands
<1>2. /\ got' \in [Event -> [Conn -> Nat]]
      /\ got'[e][c] = got[e][c] + 1
      /\ \A f \in Event, k \in Conn : f # e \/ k # c => got'[f][k] = got[f][k]
  BY <1>0 DEF RTypeOK
<1>3. /\ pump' \in [Conn -> Event \cup {NoEvent}] /\ pump'[c] = NoEvent
      /\ \A k \in Conn : k # c => pump'[k] = pump[k]
      /\ \A f \in Event : f # NoEvent
  BY <1>0, RoutingAssumption DEF RTypeOK
<1>4. RTypeOK'
  BY <1>0, <1>2, <1>3 DEF RTypeOK
<1>5. \A f \in Event, k \in Conn : f # e \/ k # c =>
        Pumped(f, k)' = Pumped(f, k)
  BY <1>e, <1>3 DEF Pumped
<1>6. \A f \in Event, k \in Conn : f # e \/ k # c =>
        Reached(f, k)' = Reached(f, k)
  BY <1>0, <1>2, <1>5 DEF Reached
<1>7. Reached(e, c)' = Reached(e, c)
  <2>1. Pumped(e, c) = 1 /\ Pumped(e, c)' = 0
    BY <1>0, <1>e, <1>3 DEF Pumped
  <2>2. got[e][c] \in Nat /\ offers[e][c] \in Nat
    BY <1>0 DEF RTypeOK
  <2>3. offers'[e][c] = offers[e][c]
    BY <1>0
  <2>. QED BY <1>2, <2>1, <2>2, <2>3 DEF Reached
<1>8. /\ seen'.owed = seen.owed /\ seen'.loaded = seen.loaded
      /\ seen'.listed = seen.listed /\ seen.missed \subseteq seen'.missed
      /\ \A k \in Conn : link'[k] = "none" => link[k] = "none"
      /\ Reached(e, c)' = Reached(e, c)
           \/ (Reached(e, c)' <= Reached(e, c) /\ Reached(e, c) # 0
               /\ <<e, c>> \in seen'.missed)
  BY <1>0, <1>1, <1>7
<1>. QED BY <1>0, <1>1, <1>4, <1>6, <1>8, HandedOver

\* An event whose write fails is missed, and the socket may close.
LEMMA WriteFailsKeeps ==
    ASSUME RIInv, NEW c \in Conn, WriteFails(c)
    PROVE  RIInv'
<1>e. PICK e : e = pump[c]
  OBVIOUS
<1>0. /\ RTypeOK /\ event' = event /\ routing' = routing
      /\ channel' = channel /\ subscribed' = subscribed
      /\ offers' = offers /\ got' = got /\ e \in Event
      /\ seen' = [seen EXCEPT !.missed = @ \cup {<<e, c>>}]
      /\ pump' = [pump EXCEPT ![c] = NoEvent]
  BY <1>e DEF RIInv, WriteFails, transport, RTypeOK
<1>1. /\ ListsInv' /\ NoTabLeads' /\ UNCHANGED promised
      /\ \A k \in Conn : link'[k] = "none" => link[k] = "none"
  <2>1. CASE UNCHANGED vars
    BY <2>1, RegistryStands
  <2>2. CASE PumpExit(c)
    <3>1. [Next]_vars
      BY <2>2 DEF Next
    <3>2. /\ link' = [link EXCEPT ![c] = "closed"] /\ UNCHANGED promised
          /\ managers' = managers
      BY <2>2 DEF PumpExit, promised, maps
    <3>3. link \in [Conn -> {"none", "up", "lost", "closed"}]
      BY DEF RIInv, ListsInv, IInv, TypeOK
    <3>4. ListsInv'
      BY <3>1, ListsStep DEF RIInv
    <3>. QED BY <3>2, <3>3, <3>4 DEF RIInv, NoTabLeads
  <2>. QED BY <2>1, <2>2 DEF WriteFails
<1>2. /\ seen' \in SeenType /\ seen'.owed = seen.owed
      /\ seen'.loaded = seen.loaded /\ seen'.listed = seen.listed
      /\ seen'.missed = seen.missed \cup {<<e, c>>}
  <2>1. {<<e, c>>} \in SUBSET (Event \X Conn)
    BY <1>0
  <2>. QED BY <1>0, <2>1 DEF RTypeOK, SeenType
<1>3. /\ pump' \in [Conn -> Event \cup {NoEvent}] /\ pump'[c] = NoEvent
      /\ \A k \in Conn : k # c => pump'[k] = pump[k]
      /\ \A f \in Event : f # NoEvent
  BY <1>0, RoutingAssumption DEF RTypeOK
<1>4. RTypeOK'
  BY <1>0, <1>2, <1>3 DEF RTypeOK, SeenType
<1>5. \A f \in Event, k \in Conn : f # e \/ k # c =>
        Pumped(f, k)' = Pumped(f, k)
  BY <1>e, <1>3 DEF Pumped
<1>6. \A f \in Event, k \in Conn : f # e \/ k # c =>
        Reached(f, k)' = Reached(f, k)
  BY <1>0, <1>5 DEF Reached
<1>7. Reached(e, c)' <= Reached(e, c) /\ Reached(e, c) # 0
  <2>1. Pumped(e, c) = 1 /\ Pumped(e, c)' = 0
    BY <1>0, <1>e, <1>3 DEF Pumped
  <2>2. got[e][c] \in Nat /\ offers[e][c] \in Nat
    BY <1>0 DEF RTypeOK
  <2>3. offers'[e][c] = offers[e][c] /\ got'[e][c] = got[e][c]
    BY <1>0
  <2>. QED BY <2>1, <2>2, <2>3 DEF Reached
<1>8. <<e, c>> \in seen'.missed /\ seen.missed \subseteq seen'.missed
  BY <1>2
<1>. QED BY <1>0, <1>1, <1>2, <1>4, <1>6, <1>7, <1>8, HandedOver

-----------------------------------------------------------------------------
(* Going through a list.                                                   *)

\* The cardinality of a set that has one member at most.
LEMMA OneAtMost ==
    ASSUME NEW S, NEW x, S \subseteq {x}
    PROVE  /\ Cardinality(S) \in {0, 1}
           /\ Cardinality(S) # 0 <=> x \in S
<1>1. S = {} \/ S = {x}
  OBVIOUS
<1>2. Cardinality({}) = 0 /\ Cardinality({x}) = 1
  BY FS_EmptySet, FS_Singleton
<1>. QED BY <1>1, <1>2

\* A list that is exact holds the session of a tab that has authenticated one
\* connection once at most, and only if the connection is the target's.
LEMMA ListIsExact ==
    ASSUME ListsInv, NEW c \in Conn, NEW s \in Session, NEW t \in Target,
           Only(c, s), SoundFor(t, s)
    PROVE  /\ Occurrences(s, IndexOf(t)) \in {0, 1}
           /\ Occurrences(s, IndexOf(t)) # 0 => Listed(c, t)
           /\ ConnectedTo(c, t) /\ who[c].session = s =>
                Occurrences(s, IndexOf(t)) # 0
<1>0. /\ TypeOK /\ ClientIsTab /\ AuthAssigned /\ DocsExact
      /\ UserListExact /\ hist.listed \subseteq Conn
  BY ListedType DEF ListsInv, IInv, Bookkeeping
<1>1. CASE t \in User
  <2>1. UserExact(t, s)
    BY <1>0, <1>1, UserExactIs DEF SoundFor
  <2>2. Occurrences(s, IndexOf(t)) = Cardinality(Owners(t, s))
    BY <1>1, <2>1 DEF UserExact, SoundFor, IndexOf
  <2>3. Owners(t, s) \subseteq {c}
    BY <1>0, TabType DEF Owners, Only
  <2>4. c \in Owners(t, s) => Listed(c, t)
    BY <1>1 DEF Owners, Listed
  <2>5. ConnectedTo(c, t) /\ who[c].session = s => c \in Owners(t, s)
    <3>1. who[c] \in Identity
      BY <1>0 DEF TypeOK
    <3>2. who[c].user = t /\ who[c].session = s =>
            who[c] = [user |-> t, session |-> s]
      BY <3>1 DEF Identity
    <3>. QED BY <1>1, <3>2 DEF ConnectedTo, Registered, Serving, Listed,
             Owners, Unlisted
  <2>. QED BY <2>2, <2>3, <2>4, <2>5, OneAtMost
<1>2. CASE t \notin User
  <2>1. t \in Doc \ hist.lost
    BY <1>2 DEF Target, SoundFor
  <2>2. Orderly(s)
    <3>1. \A k \in hist.tangled : k \in Conn /\ who[k].session # s
      BY <1>0, <1>2 DEF TypeOK, SoundFor
    <3>. QED BY <1>0, <3>1, PoolAssumption DEF Orderly, ClientIsTab, Nobody
  <2>3. Occurrences(s, IndexOf(t)) = Cardinality(Joined(t, s))
    BY <1>0, <1>2, <2>1, <2>2 DEF DocsExact, IndexOf
  <2>4. ASSUME NEW k \in Joined(t, s)
        PROVE  k = c
    <3>1. k \in Conn /\ client[k].session = s
      BY <2>4 DEF Joined
    <3>2. Identified(k) /\ who[k].session = s
      BY <1>0, <3>1, PoolAssumption DEF Identified, ClientIsTab, Nobody
    <3>. QED BY <3>1, <3>2 DEF Only
  <2>5. Joined(t, s) \subseteq {c}
    BY <2>4
  <2>6. c \in Joined(t, s) => Listed(c, t)
    BY <1>2 DEF Joined, Joining, Listed
  <2>7. ConnectedTo(c, t) /\ who[c].session = s => c \in Joined(t, s)
    <3>1. c \in hist.listed => client[c] = who[c]
      BY <1>0 DEF AuthAssigned
    <3>. QED BY <1>2, <3>1 DEF ConnectedTo, Registered, Listed, Joined, Joining
  <2>. QED BY <2>3, <2>5, <2>6, <2>7, OneAtMost
<1>. QED BY <1>1, <1>2

\* Whom a list that was just loaded leads to.
LEMMA LoadIndexKeeps ==
    ASSUME RIInv, NEW e \in Event, LoadIndex(e)
    PROVE  RIInv'
<1>t. PICK t : t = event[e].target
  OBVIOUS
<1> DEFINE listed == {c \in Conn : Listed(c, t)}
<1>0. /\ ListsInv /\ RTypeOK /\ ChannelOnce /\ Flow(e) /\ OwedOK(e)
      /\ Unled(e) /\ UNCHANGED vars /\ event' = event /\ offers' = offers
      /\ pump' = pump /\ channel' = channel /\ subscribed' = subscribed
      /\ got' = got /\ routing[e].pc = "load"
      /\ routing' = [routing EXCEPT ![e] = [pc |-> "loop",
                                            list |-> IndexOf(t)]]
      /\ seen' = [seen EXCEPT !.loaded[e] = IndexOf(t), !.listed[e] = listed]
  BY <1>t DEF RIInv, EventOK, LoadIndex, transport
<1>1. /\ ListsInv' /\ NoTabLeads' /\ UNCHANGED promised /\ link' = link
      /\ who' = who
  BY <1>0, RegistryStands
<1>2. t \in Target /\ IndexOf(t) \in Seq(Keys) /\ event[e].pc # "none"
  BY <1>0, <1>t, ListTypes DEF Flow
<1>3. /\ routing' \in [Event -> [pc : {"idle", "load", "loop", "done"},
                                list : Seq(Session \cup {NoSession})]]
      /\ routing'[e].pc = "loop" /\ routing'[e].list = IndexOf(t)
      /\ \A f \in Event \ {e} : routing'[f] = routing[f]
  BY <1>0, <1>2 DEF RTypeOK, Keys
<1>4. /\ seen' \in SeenType /\ seen'.owed = seen.owed
      /\ seen'.missed = seen.missed
      /\ seen'.loaded[e] = IndexOf(t) /\ seen'.listed[e] = listed
      /\ \A f \in Event \ {e} : /\ seen'.loaded[f] = seen.loaded[f]
                               /\ seen'.listed[f] = seen.listed[f]
  <2>1. listed \in SUBSET Conn
    OBVIOUS
  <2>. HIDE DEF listed
  <2>. QED BY <1>0, <1>2, <2>1 DEF RTypeOK, SeenType, Keys
<1>5. RTypeOK'
  BY <1>0, <1>3, <1>4 DEF RTypeOK, SeenType
<1>6. ChannelOnce'
  BY <1>0 DEF ChannelOnce
<1>7. \A f \in Event, c \in Conn : Reached(f, c)' = Reached(f, c)
  BY <1>0 DEF Reached, Pumped
<1>8. \A c \in Conn : Reached(e, c) = 0
  BY <1>0 DEF Flow
<1>9. EventOK(e)'
  <2>0. \A n : Occurrences(n, IndexOf(t)) \in Nat
    BY <1>2, AtFinite
  <2>1. Flow(e)'
    BY <1>0, <1>3, <1>7 DEF Flow
  <2>2. Suffix(e)' /\ Counted(e)' /\ Unled(e)'
    BY <1>3, <1>4, <1>7, <1>8, <2>0 DEF Suffix, Counted, Unled
  <2>3. ASSUME NEW c \in Conn, NEW s \in Session, Only(c, s)',
               SoundFor(event[e].target, s)'
        PROVE  Exact(e, c, s)'
    <3>1. Only(c, s) /\ SoundFor(t, s)
      BY <1>0, <1>1, <1>t, <2>3 DEF Only, SoundFor, Identified, promised
    <3>2. /\ Occurrences(s, IndexOf(t)) \in {0, 1}
          /\ Occurrences(s, IndexOf(t)) # 0 => Listed(c, t)
      BY <1>0, <1>2, <3>1, ListIsExact
    <3>3. c \in listed <=> Listed(c, t)
      OBVIOUS
    <3>. QED BY <1>4, <3>2, <3>3 DEF Exact
  <2>4. LoadedOnce(e)'
    BY <2>3 DEF LoadedOnce
  <2>5. ASSUME NEW c \in seen.owed[e]
        PROVE  /\ ConnectedTo(c, event[e].target)'
               /\ Alone(c)' /\ Sound(event[e].target, c)' => Coming(e, c)'
    <3>1. c \in Conn /\ ConnectedTo(c, t)
      BY <1>0, <1>t DEF OwedOK, RTypeOK
    <3>2. ConnectedTo(c, event[e].target)'
      BY <1>0, <1>1, <1>t, <3>1 DEF ConnectedTo, Registered, Authenticating,
         Serving, Listed, promised
    <3>3. who[c].session \in Session
      BY <1>0, <3>1, TabType DEF ConnectedTo, Registered
    <3>4. ASSUME Alone(c)', Sound(event[e].target, c)'
          PROVE  Coming(e, c)'
      <4>1. Alone(c) /\ Sound(t, c)
        BY <1>0, <1>1, <1>t, <3>4 DEF Alone, Sound, SameTab, Identified,
           promised
      <4>2. Only(c, who[c].session) /\ SoundFor(t, who[c].session)
        BY <3>1, <4>1, AloneIs
      <4>3. Occurrences(who[c].session, IndexOf(t)) # 0
        BY <1>0, <1>2, <3>1, <3>3, <4>2, ListIsExact
      <4>. QED BY <1>1, <1>3, <4>3 DEF Coming
    <3>. QED BY <3>2, <3>4
  <2>6. OwedOK(e)'
    BY <1>0, <1>2, <1>4, <2>5 DEF OwedOK
  <2>. QED BY <2>1, <2>2, <2>4, <2>6 DEF EventOK
<1>10. ASSUME NEW f \in Event \ {e}
       PROVE  EventOK(f)'
  <2>1. /\ event'[f] = event[f] /\ routing'[f] = routing[f]
        /\ seen'.loaded[f] = seen.loaded[f]
        /\ seen'.listed[f] = seen.listed[f] /\ seen'.owed[f] = seen.owed[f]
        /\ f \in ToSet(channel') <=> f \in ToSet(channel)
        /\ \A c \in Conn : /\ Reached(f, c)' = Reached(f, c)
                           /\ link'[c] = "none" => link[c] = "none"
                           /\ <<f, c>> \in seen.missed =>
                                <<f, c>> \in seen'.missed
    BY <1>0, <1>1, <1>3, <1>4, <1>7
  <2>. QED BY <1>1, <1>5, <2>1, EventStays
<1>. QED BY <1>1, <1>5, <1>6, <1>9, <1>10 DEF RIInv

\* The session of a tab with one connection leads to it.
LEMMA LeadsHome ==
    ASSUME ListsInv, NEW c \in Conn, NEW t, ConnectedTo(c, t), Alone(c)
    PROVE  managers[who[c].session] = c
<1>1. Unrivalled(c) /\ ManagerStored(c)
  BY DEF ConnectedTo, Registered, Authenticating, Alone, Unrivalled,
     ManagerStored, AuthPC
<1>. QED BY <1>1 DEF ListsInv, IInv, ManagerKept

\* The end of a list.
LEMMA RouteLastKeeps ==
    ASSUME RIInv, NEW e \in Event, RouteNext(e), routing[e].list = <<>>
    PROVE  RIInv'
<1>0. /\ RTypeOK /\ ChannelOnce /\ Flow(e) /\ UNCHANGED vars
      /\ event' = event /\ offers' = offers /\ pump' = pump
      /\ channel' = channel /\ subscribed' = subscribed
      /\ got' = got /\ seen' = seen /\ routing[e].pc = "loop"
      /\ routing' = [routing EXCEPT ![e].pc = "done"]
  BY DEF RIInv, EventOK, RouteNext, transport
<1>1. /\ ListsInv' /\ NoTabLeads' /\ UNCHANGED promised /\ link' = link
  BY <1>0, RegistryStands
<1>2. /\ routing' \in [Event -> [pc : {"idle", "load", "loop", "done"},
                                list : Seq(Session \cup {NoSession})]]
      /\ routing'[e].pc = "done" /\ routing'[e].list = routing[e].list
      /\ \A f \in Event \ {e} : routing'[f] = routing[f]
  BY <1>0 DEF RTypeOK
<1>3. RTypeOK' /\ ChannelOnce'
  BY <1>0, <1>2 DEF RTypeOK, ChannelOnce
<1>4. \A f \in Event, c \in Conn : /\ Reached(f, c)' = Reached(f, c)
                                 /\ Reached(f, c) \in Nat
  BY <1>0, ReachedType DEF Reached, Pumped
<1>5. EventOK(e)'
  <2>1. Flow(e)'
    BY <1>0, <1>2, <1>4 DEF Flow
  <2>2. \A c \in Conn : Coming(e, c) => Coming(e, c)'
    BY <1>0, <1>1, <1>2, <1>4 DEF Coming, promised
  <2>3. \A c \in Conn : Reached(e, c)' <= Reached(e, c)
    <3>1. \A n \in Nat : n <= n
      OBVIOUS
    <3>. QED BY <1>4, <3>1
  <2>. QED BY <1>0, <1>1, <1>2, <1>3, <2>1, <2>2, <2>3, EventGoesOn
<1>6. ASSUME NEW f \in Event \ {e}
      PROVE  EventOK(f)'
  <2>1. /\ event'[f] = event[f] /\ routing'[f] = routing[f]
        /\ seen'.loaded[f] = seen.loaded[f]
        /\ seen'.listed[f] = seen.listed[f] /\ seen'.owed[f] = seen.owed[f]
        /\ f \in ToSet(channel') <=> f \in ToSet(channel)
        /\ \A c \in Conn : /\ Reached(f, c)' = Reached(f, c)
                           /\ link'[c] = "none" => link[c] = "none"
                           /\ <<f, c>> \in seen.missed =>
                                <<f, c>> \in seen'.missed
    BY <1>0, <1>1, <1>2, <1>4
  <2>. QED BY <1>1, <1>3, <2>1, EventStays
<1>. QED BY <1>1, <1>3, <1>5, <1>6 DEF RIInv

\* An entry of a list is exchanged for a goroutine, or leads nowhere.
LEMMA RouteEntryKeeps ==
    ASSUME RIInv, NEW e \in Event, RouteNext(e), routing[e].list # <<>>
    PROVE  RIInv'
<1>n. PICK n, mgr : n = Head(routing[e].list) /\ mgr = managers[n]
  OBVIOUS
<1>0. /\ ListsInv /\ RTypeOK /\ ChannelOnce /\ NoTabLeads /\ UNCHANGED vars
      /\ Flow(e) /\ Suffix(e) /\ Counted(e) /\ Unled(e) /\ LoadedOnce(e)
      /\ OwedOK(e) /\ TypeOK /\ Users
  BY DEF RIInv, EventOK, RouteNext, ListsInv, IInv
<1>a. /\ event' = event /\ pump' = pump
      /\ channel' = channel /\ subscribed' = subscribed
      /\ got' = got /\ seen' = seen /\ routing[e].pc = "loop"
      /\ routing' = [routing EXCEPT ![e].list = Tail(@)]
      /\ offers' = IF mgr = NoConn THEN offers
                   ELSE [offers EXCEPT ![e][mgr] = @ + 1]
  BY <1>n DEF RouteNext, transport
<1>1. /\ ListsInv' /\ NoTabLeads' /\ UNCHANGED promised /\ link' = link
      /\ who' = who
  BY <1>0, RegistryStands
<1>2. /\ routing[e].list \in Seq(Keys) /\ n \in Keys
      /\ Tail(routing[e].list) \in Seq(Keys)
      /\ \A m : /\ Occurrences(m, routing[e].list) \in Nat
                /\ Occurrences(m, seen.loaded[e]) \in Nat
                /\ Occurrences(m, Tail(routing[e].list)) \in Nat
  <2>1. /\ routing[e].list \in Seq(Keys)
        /\ \A m : /\ Occurrences(m, routing[e].list) \in Nat
                  /\ Occurrences(m, seen.loaded[e]) \in Nat
    BY <1>0, ListTypes
  <2>2. n \in Keys /\ Tail(routing[e].list) \in Seq(Keys)
    BY <1>n, <2>1
  <2>. QED BY <2>1, <2>2, AtFinite
<1>3. /\ routing' \in [Event -> [pc : {"idle", "load", "loop", "done"},
                                list : Seq(Session \cup {NoSession})]]
      /\ routing'[e].pc = "loop"
      /\ routing'[e].list = Tail(routing[e].list)
      /\ \A f \in Event \ {e} : routing'[f] = routing[f]
  BY <1>0, <1>2, <1>a DEF RTypeOK, Keys
<1>4. /\ \A m : Occurrences(m, routing'[e].list) =
                  IF m = n THEN Occurrences(m, routing[e].list) - 1
                  ELSE Occurrences(m, routing[e].list)
      /\ Occurrences(n, routing[e].list) # 0
  BY <1>2, <1>3, <1>n, OccursTail
<1>5. mgr # NoConn => /\ mgr \in Conn /\ n \in Session /\ link[mgr] # "none"
                      /\ who[mgr].session = n
  BY <1>0, <1>2, <1>n DEF TypeOK, NoTabLeads, Users, Keys
<1>6. /\ offers' \in [Event -> [Conn -> Nat]]
      /\ \A f \in Event, c \in Conn : f # e \/ c # mgr =>
           offers'[f][c] = offers[f][c]
      /\ mgr # NoConn => offers'[e][mgr] = offers[e][mgr] + 1
  <2>1. offers \in [Event -> [Conn -> Nat]]
    BY <1>0 DEF RTypeOK
  <2>2. CASE mgr = NoConn
    BY <1>a, <2>1, <2>2
  <2>3. CASE mgr # NoConn
    <3>1. mgr \in Conn /\ offers[e][mgr] \in Nat
      BY <1>5, <2>1, <2>3
    <3>2. offers' = [offers EXCEPT ![e][mgr] = @ + 1]
      BY <1>a, <2>3
    <3>. QED BY <2>1, <3>1, <3>2
  <2>. QED BY <2>2, <2>3
<1>7. RTypeOK' /\ ChannelOnce'
  BY <1>0, <1>3, <1>6, <1>a DEF RTypeOK, ChannelOnce
<1>8. /\ \A f \in Event, c \in Conn : f # e \/ c # mgr =>
           Reached(f, c)' = Reached(f, c)
      /\ mgr # NoConn => Reached(e, mgr)' = Reached(e, mgr) + 1
      /\ \A f \in Event, c \in Conn : Reached(f, c) \in Nat
  <2>1. \A f \in Event, c \in Conn : Pumped(f, c)' = Pumped(f, c)
    BY <1>a DEF Pumped
  <2>2. \A f \in Event, c \in Conn :
          /\ got[f][c] \in Nat /\ offers[f][c] \in Nat
          /\ Pumped(f, c) \in {0, 1} /\ Reached(f, c) \in Nat
    BY <1>0, ReachedType
  <2>3. \A f \in Event, c \in Conn : f # e \/ c # mgr =>
           Reached(f, c)' = Reached(f, c)
    BY <1>6, <1>a, <2>1 DEF Reached
  <2>4. ASSUME mgr # NoConn
        PROVE  Reached(e, mgr)' = Reached(e, mgr) + 1
    <3>1. mgr \in Conn
      BY <1>5, <2>4
    <3>2. /\ got[e][mgr] \in Nat /\ offers[e][mgr] \in Nat
          /\ Pumped(e, mgr) \in Int /\ Pumped(e, mgr)' = Pumped(e, mgr)
          /\ offers'[e][mgr] = offers[e][mgr] + 1
          /\ got'[e][mgr] = got[e][mgr]
      BY <1>6, <1>a, <2>1, <2>2, <2>4, <3>1
    <3>. QED BY <3>2 DEF Reached
  <2>. QED BY <2>2, <2>3, <2>4
<1>9. EventOK(e)'
  <2>1. Flow(e)'
    BY <1>0, <1>3, <1>a DEF Flow
  <2>2. Suffix(e)'
    <3> SUFFICES ASSUME NEW m \in Keys
                 PROVE  Occurrences(m, routing'[e].list)
                          <= Occurrences(m, seen.loaded[e])
      BY <1>a DEF Suffix
    <3>1. Occurrences(m, routing[e].list) <= Occurrences(m, seen.loaded[e])
      BY <1>0 DEF Suffix
    <3>. QED BY <1>2, <1>4, <3>1
  <2>3. Counted(e)'
    <3> SUFFICES ASSUME NEW c \in Conn
                 PROVE  Reached(e, c)'
                          + Occurrences(who[c].session, routing'[e].list)
                          <= Occurrences(who[c].session, seen.loaded[e])
      BY <1>1, <1>a DEF Counted
    <3> DEFINE m == who[c].session
    <3>1. Reached(e, c) + Occurrences(m, routing[e].list)
            <= Occurrences(m, seen.loaded[e])
      BY <1>0 DEF Counted
    <3>2. \/ c # mgr /\ Reached(e, c)' = Reached(e, c)
          \/ m = n /\ Reached(e, c)' = Reached(e, c) + 1
      <4>1. c # NoConn
        BY PoolAssumption
      <4>. QED BY <1>5, <1>8, <4>1
    <3>. HIDE DEF m
    <3>3. /\ Occurrences(m, routing[e].list) \in Nat
          /\ Occurrences(m, seen.loaded[e]) \in Nat
          /\ Reached(e, c) \in Nat
          /\ Occurrences(m, routing'[e].list) =
                  IF m = n THEN Occurrences(m, routing[e].list) - 1
                  ELSE Occurrences(m, routing[e].list)
      BY <1>2, <1>4, <1>8
    <3>4. Reached(e, c)' + Occurrences(m, routing'[e].list)
            <= Occurrences(m, seen.loaded[e])
      BY <3>1, <3>2, <3>3
    <3>. QED BY <3>4 DEF m
  <2>4. Unled(e)'
    BY <1>0, <1>1, <1>5, <1>8, PoolAssumption DEF Unled
  <2>5. LoadedOnce(e)'
    BY <1>0, <1>1, <1>a DEF LoadedOnce, Only, SoundFor, Exact, Identified,
       promised
  <2>6. ASSUME NEW c \in seen.owed[e]
        PROVE  /\ ConnectedTo(c, event[e].target)'
               /\ Alone(c)' /\ Sound(event[e].target, c)' => Coming(e, c)'
    <3>1. /\ c \in Conn /\ ConnectedTo(c, event[e].target)
          /\ Alone(c) /\ Sound(event[e].target, c) => Coming(e, c)
      BY <1>0 DEF OwedOK, RTypeOK
    <3>2. ConnectedTo(c, event[e].target)'
      BY <1>1, <1>a, <3>1 DEF ConnectedTo, Registered, Authenticating,
         Serving, Listed, promised
    <3>3. ASSUME Alone(c)', Sound(event[e].target, c)'
          PROVE  Coming(e, c)'
      <4>1. Alone(c) /\ Coming(e, c)
        BY <1>1, <1>a, <3>1, <3>3 DEF Alone, Sound, SameTab, Identified,
           promised
      <4>2. managers[who[c].session] = c /\ c # NoConn
        BY <1>0, <3>1, <4>1, LeadsHome, PoolAssumption
      <4>3. Reached(e, c) # 0 => Reached(e, c)' # 0
        BY <1>8, <3>1, <4>2
      <4>4. CASE who[c].session = n
        <5>1. mgr = c
          BY <1>n, <4>2, <4>4
        <5>2. Reached(e, c)' # 0
          BY <1>8, <3>1, <4>2, <5>1
        <5>. QED BY <5>2 DEF Coming
      <4>5. CASE who[c].session # n
        BY <1>1, <1>4, <1>a, <4>1, <4>3, <4>5 DEF Coming
      <4>. QED BY <4>4, <4>5
    <3>. QED BY <3>2, <3>3
  <2>7. OwedOK(e)'
    BY <1>0, <1>a, <2>6 DEF OwedOK
  <2>. QED BY <2>1, <2>2, <2>3, <2>4, <2>5, <2>7 DEF EventOK
<1>10. ASSUME NEW f \in Event \ {e}
       PROVE  EventOK(f)'
  <2>1. /\ event'[f] = event[f] /\ routing'[f] = routing[f]
        /\ seen'.loaded[f] = seen.loaded[f]
        /\ seen'.listed[f] = seen.listed[f] /\ seen'.owed[f] = seen.owed[f]
        /\ f \in ToSet(channel') <=> f \in ToSet(channel)
        /\ \A c \in Conn : /\ Reached(f, c)' = Reached(f, c)
                           /\ link'[c] = "none" => link[c] = "none"
                           /\ <<f, c>> \in seen.missed =>
                                <<f, c>> \in seen'.missed
    BY <1>1, <1>3, <1>8, <1>a
  <2>. QED BY <1>1, <1>7, <2>1, EventStays
<1>. QED BY <1>1, <1>7, <1>9, <1>10 DEF RIInv

-----------------------------------------------------------------------------
(* The theorems.                                                           *)

LEMMA RoutingInit == RInit => RIInv
<1> SUFFICES ASSUME RInit PROVE RIInv
  OBVIOUS
<1>1. ListsInv /\ Init
  BY ListsInit DEF RInit
<1>2. NoTabLeads /\ \A c \in Conn : link[c] = "none"
  BY <1>1 DEF Init, NoTabLeads
<1>3. /\ seen = [owed |-> [e \in Event |-> {}], missed |-> {},
                 loaded |-> [e \in Event |-> <<>>],
                 listed |-> [e \in Event |-> {}]]
      /\ channel = <<>> /\ ToSet(channel) = {}
  BY DEF RInit, ToSet
<1>4. RTypeOK /\ ChannelOnce
  <2>1. seen \in SeenType
    BY <1>3 DEF SeenType
  <2>2. subscribed \in BOOLEAN
    <3>1. TRUE \in BOOLEAN /\ subscribed = TRUE
      BY DEF RInit
    <3>. QED BY <3>1, Zenon
  <2>3. event \in [Event -> [pc : {"none", "route", "published"},
                             target : Target \cup {NoTarget},
                             here : BOOLEAN]]
    BY DEF RInit
  <2>. QED BY <1>3, <2>1, <2>2, <2>3 DEF RTypeOK, ChannelOnce, SeenType, RInit
<1>5. \A e \in Event, c \in Conn : Reached(e, c) = 0
  BY RoutingAssumption DEF RInit, Reached, Pumped
<1>6. ASSUME NEW e \in Event
      PROVE  EventOK(e)
  <2>1. /\ event[e].pc = "none" /\ routing[e].pc = "idle"
        /\ routing[e].list = <<>> /\ seen.loaded[e] = <<>>
        /\ seen.owed[e] = {}
    BY <1>3 DEF RInit
  <2>2. Flow(e) /\ Unled(e) /\ LoadedOnce(e) /\ OwedOK(e)
    BY <1>3, <1>5, <2>1 DEF Flow, Unled, LoadedOnce, OwedOK
  <2>3. Suffix(e) /\ Counted(e)
    BY <1>5, <2>1, OccursNowhere DEF Suffix, Counted
  <2>. QED BY <2>2, <2>3 DEF EventOK
<1>. QED BY <1>1, <1>2, <1>4, <1>6 DEF RIInv

LEMMA RoutingStep == RIInv /\ [RNext]_rvars => RIInv'
<1> SUFFICES ASSUME RIInv, [RNext]_rvars PROVE RIInv'
  OBVIOUS
<1>1. CASE PoolStep
  BY <1>1, PoolStepKeeps
<1>2. ASSUME NEW e \in Event, NEW t \in Target,
             Broadcast(e, t) \/ PublishElsewhere(e, t)
      PROVE  RIInv'
  BY <1>2, BroadcastKeeps, PublishElsewhereKeeps
<1>3. ASSUME NEW e \in Event, PubRedis(e) \/ LoadIndex(e)
      PROVE  RIInv'
  BY <1>3, PubRedisKeeps, LoadIndexKeeps
<1>4. ASSUME NEW e \in Event, RouteNext(e)
      PROVE  RIInv'
  BY <1>4, RouteLastKeeps, RouteEntryKeeps
<1>5. ASSUME NEW e \in Event, NEW c \in Conn, Offer(e, c)
      PROVE  RIInv'
  BY <1>5, OfferKeeps
<1>6. CASE Receive \/ SubscriptionLost \/ Resubscribe
  BY <1>6, ReceiveKeeps, SubscriptionLostKeeps, ResubscribeKeeps
<1>7. ASSUME NEW c \in Conn, WriteMessage(c) \/ WriteFails(c)
      PROVE  RIInv'
  BY <1>7, WriteMessageKeeps, WriteFailsKeeps
<1>8. CASE UNCHANGED rvars
  <2>1. /\ UNCHANGED vars /\ event' = event /\ routing' = routing
        /\ offers' = offers /\ pump' = pump /\ channel' = channel
        /\ subscribed' = subscribed /\ got' = got /\ seen' = seen
    BY <1>8 DEF rvars, routingVars
  <2>2. /\ ListsInv' /\ NoTabLeads' /\ UNCHANGED promised /\ link' = link
    BY <2>1, RegistryStands
  <2>3. RTypeOK' /\ ChannelOnce'
    BY <2>1 DEF RIInv, RTypeOK, ChannelOnce
  <2>4. \A f \in Event, c \in Conn : Reached(f, c)' = Reached(f, c)
    BY <2>1 DEF Reached, Pumped
  <2>5. \A f \in Event : EventOK(f)'
    BY <2>1, <2>2, <2>3, <2>4, EventStays
  <2>. QED BY <2>2, <2>3, <2>5 DEF RIInv
<1>. QED BY <1>1, <1>2, <1>3, <1>4, <1>5, <1>6, <1>7, <1>8 DEF RNext

LEMMA RoutingAlways == RSpec => []RIInv
  BY RoutingInit, RoutingStep, PTL DEF RSpec

(***************************************************************************)
(* Every variable of the routing keeps its type.                           *)
(***************************************************************************)
THEOREM RoutingTypeTheorem == RSpec => []RTypeOK
<1>1. RIInv => RTypeOK
  BY DEF RIInv
<1>. QED BY <1>1, RoutingAlways, PTL

(***************************************************************************)
(* No connection is written an event more often than its tab was in the    *)
(* list that was loaded, whatever the registry lost.                       *)
(***************************************************************************)
THEOREM ListedTheorem == RSpec => []RoutedAsListed
<1>1. RIInv => RoutedAsListed
  <2> SUFFICES ASSUME RIInv, NEW e \in Event, NEW c \in Conn
               PROVE  got[e][c] <= Occurrences(who[c].session, seen.loaded[e])
    BY DEF RoutedAsListed
  <2>1. ListsInv /\ RTypeOK /\ Counted(e)
    BY DEF RIInv, EventOK
  <2>2. /\ got[e][c] \in Nat /\ offers[e][c] \in Nat
        /\ Pumped(e, c) \in {0, 1}
    BY <2>1, ReachedType
  <2>3. /\ Occurrences(who[c].session, routing[e].list) \in Nat
        /\ Occurrences(who[c].session, seen.loaded[e]) \in Nat
    BY <2>1, ListTypes
  <2>4. got[e][c] + offers[e][c] + Pumped(e, c)
          + Occurrences(who[c].session, routing[e].list)
          <= Occurrences(who[c].session, seen.loaded[e])
    BY <2>1 DEF Counted, Reached
  <2>. QED BY <2>2, <2>3, <2>4
<1>. QED BY <1>1, RoutingAlways, PTL

(***************************************************************************)
(* A tab with one authenticated connection is written an event once at     *)
(* most, and only as one of the target's, as long as no update of the      *)
(* target's list was lost and the tab's own messages did not overlap.      *)
(***************************************************************************)
THEOREM OnceTheorem == RSpec => []OnceToItsTarget
<1>1. RIInv => OnceToItsTarget
  <2> SUFFICES ASSUME RIInv, NEW e \in Event, NEW c \in Conn,
                      Alone(c), Sound(event[e].target, c)
               PROVE  /\ got[e][c] <= 1
                      /\ got[e][c] = 1 => c \in seen.listed[e]
    BY DEF OnceToItsTarget
  <2>1. /\ ListsInv /\ RTypeOK /\ Flow(e) /\ Counted(e) /\ Unled(e)
        /\ LoadedOnce(e)
    BY DEF RIInv, EventOK
  <2>2. /\ got[e][c] \in Nat /\ offers[e][c] \in Nat
        /\ Pumped(e, c) \in {0, 1}
        /\ Reached(e, c) = 0 => got[e][c] = 0
    BY <2>1, ReachedType
  <2>3. CASE Reached(e, c) = 0
    BY <2>2, <2>3
  <2>4. CASE Reached(e, c) # 0
    <3>1. link[c] # "none"
      BY <2>1, <2>4 DEF Unled
    <3>2. who[c].session \in Session
      BY <2>1, <3>1, TabType
    <3>3. routing[e].pc \in {"loop", "done"}
      BY <2>1, <2>4 DEF Flow, RTypeOK
    <3>4. Only(c, who[c].session) /\ SoundFor(event[e].target, who[c].session)
      BY AloneIs
    <3>5. Exact(e, c, who[c].session)
      BY <2>1, <3>2, <3>3, <3>4 DEF LoadedOnce
    <3>6. /\ Occurrences(who[c].session, routing[e].list) \in Nat
          /\ Occurrences(who[c].session, seen.loaded[e]) \in Nat
      BY <2>1, ListTypes
    <3>7. got[e][c] + offers[e][c] + Pumped(e, c)
            + Occurrences(who[c].session, routing[e].list)
            <= Occurrences(who[c].session, seen.loaded[e])
      BY <2>1 DEF Counted, Reached
    <3>8. got[e][c] <= Occurrences(who[c].session, seen.loaded[e])
      BY <2>2, <3>6, <3>7
    <3>. QED BY <2>2, <3>5, <3>6, <3>8 DEF Exact
  <2>. QED BY <2>3, <2>4
<1>. QED BY <1>1, RoutingAlways, PTL

(***************************************************************************)
(* A connection that has been the target's since an event was published    *)
(* gets it in the end or is one of those that missed it for a reason that  *)
(* the property names.                                                     *)
(***************************************************************************)
THEOREM GotOrMissedTheorem == RSpec => []GotOrMissed
<1>1. RIInv => GotOrMissed
  <2> SUFFICES ASSUME RIInv, NEW e \in Event, Settled(e),
                      NEW c \in seen.owed[e], <<e, c>> \notin seen.missed,
                      Alone(c), Sound(event[e].target, c)
               PROVE  got[e][c] > 0
    BY DEF GotOrMissed
  <2>1. RTypeOK /\ Flow(e) /\ OwedOK(e) /\ c \in Conn
    BY DEF RIInv, EventOK, RTypeOK
  <2>2. Coming(e, c)
    BY <2>1 DEF OwedOK
  <2>3. routing[e].list = <<>> /\ routing[e].pc # "load"
    BY <2>1 DEF Flow, Settled
  <2>4. Occurrences(who[c].session, routing[e].list) = 0
    BY <2>3, OccursNowhere
  <2>5. Reached(e, c) # 0
    BY <2>2, <2>3, <2>4 DEF Coming, Settled
  <2>6. got[e][c] \in Nat /\ offers[e][c] = 0 /\ pump[c] # e
    BY <2>1 DEF RTypeOK, Settled
  <2>7. got[e][c] # 0
    BY <2>5, <2>6 DEF Reached, Pumped
  <2>. QED BY <2>6, <2>7
<1>. QED BY <1>1, RoutingAlways, PTL
=============================================================================
