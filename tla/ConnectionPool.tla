--------------------------- MODULE ConnectionPool ---------------------------
(***************************************************************************)
(* The registry of live WebSocket connections kept by one backend process  *)
(* (src/backEnd/internal/app/websocket): the four sync.Maps of             *)
(* SafeConnectionPool, the ConnectionManager of every connection, the      *)
(* goroutine started for every message (auth, joinFile, exitFile), the     *)
(* cleanup that runs when a connection's context is cancelled, and the     *)
(* session hashes written to Redis.  One sync.Map or Redis operation is    *)
(* one atomic step; a Load followed by a Store is two.                     *)
(*                                                                         *)
(* The client side is the part of websocket.service.ts and of the editor   *)
(* component that decides which messages a connection can carry: a tab has *)
(* one session identifier for its whole life, opens connections one after  *)
(* the other without closing the previous ones, sends "auth" when a        *)
(* connection opens and "joinFile"/"exitFile" on its current connection.   *)
(***************************************************************************)
EXTENDS SessionList

CONSTANTS
    Conn,          \* WebSocket connections (one ConnectionManager each)
    Session,       \* tabs: the sessionUUID of a WebSocketService
    User,          \* user identifiers
    Doc,           \* file UUIDs
    Handler,       \* message goroutines in flight: bounds their number
    NoConn, NoSession, NoUser, NoDoc,   \* nil, "", 0 and ""
    NoField,       \* a field absent from a Redis hash
    RedisMayFail,  \* whether a Redis command may fail (it is only logged)
    MayStop,       \* whether the server may be told to stop
    MaxOpen        \* bound on the editors opened in a behaviour

ASSUME PoolAssumption ==
    /\ NoConn \notin Conn
    /\ NoSession \notin Session
    /\ NoUser \notin User
    /\ NoDoc \notin Doc
    /\ NoField \notin User \cup Doc \cup {NoUser, NoDoc}
    /\ RedisMayFail \in BOOLEAN /\ MayStop \in BOOLEAN
    /\ MaxOpen \in Nat

VARIABLES
    link,          \* [Conn -> "none" | "up" | "lost" | "closed"]
    cancelled,     \* connections whose context is (or would be) cancelled
    who,           \* the identity a connection's auth message carries
    current,       \* the socket of a tab's WebSocketService
    editing,       \* the document whose editor a tab shows
    opened,        \* the number of editors opened so far (for MaxOpen)
    client,        \* manager.clientSocket.client (UserID, SessionID)
    file,          \* manager.currentFileUUID
    go,            \* the message goroutines
    cleanup,       \* WebSocketHandler: Start until it returns
    pool, userIndex, managers, docSessions,   \* SafeConnectionPool
    redis,         \* the hashes "session:<sessionID>"
    hist           \* history: what the properties need to remember

vars == <<link, cancelled, who, current, editing, opened, client, file, go,
          cleanup, pool, userIndex, managers, docSessions, redis, hist>>
clientSide == <<link, who, current, editing, opened>>
maps == <<pool, userIndex, managers, docSessions>>

Identity == [user : User \cup {NoUser}, session : Session \cup {NoSession}]
Nobody == [user |-> NoUser, session |-> NoSession]

AuthPC == {"auth", "addUser", "storeUser", "addManager", "storeRedis"}
JoinPC == {"join", "joinRedis", "joinLoad", "joinStore"}
ExitPC == {"exit", "exitStore", "exitRedis"}
CleanPC == {"none", "serve", "storeUser", "delManager", "loadDoc",
            "storeDoc", "delRedis", "finished"}

\* A goroutine: its program counter, its connection, the document of the
\* message or of the list it changes, the session identifier it captured and
\* the list it loaded.
Idle == [pc |-> "idle", conn |-> NoConn, doc |-> NoDoc,
         session |-> NoSession, list |-> <<>>]
Absent == [user |-> NoField, file |-> NoField]

Init ==
    /\ link = [c \in Conn |-> "none"]
    /\ cancelled = {}
    /\ who = [c \in Conn |-> Nobody]
    /\ current = [s \in Session |-> NoConn]
    /\ editing = [s \in Session |-> NoDoc]
    /\ opened = 0
    /\ client = [c \in Conn |-> Nobody]
    /\ file = [c \in Conn |-> NoDoc]
    /\ go = [h \in Handler |-> Idle]
    /\ cleanup = [c \in Conn |-> [Idle EXCEPT !.pc = "none"]]
    /\ pool = [s \in Session \cup {NoSession} |-> NoConn]
    /\ userIndex = [u \in User \cup {NoUser} |-> <<>>]
    /\ managers = [s \in Session \cup {NoSession} |-> NoConn]
    /\ docSessions = [d \in Doc \cup {NoDoc} |-> <<>>]
    /\ redis = [s \in Session \cup {NoSession} |-> Absent]
    /\ hist = [listed |-> {}, late |-> {}, tangled |-> {}, lost |-> {}]

-----------------------------------------------------------------------------
(* Goroutines.                                                             *)

Busy(c) == \E h \in Handler : go[h].pc # "idle" /\ go[h].conn = c
Reading(c) == link[c] = "up" /\ cleanup[c].pc # "finished"

\* readPump: `go manager.handleIncomingMessage(...)` for a message just read.
Spawn(h, c, pc, d) ==
    /\ go[h].pc = "idle"
    /\ go' = [go EXCEPT ![h] = [Idle EXCEPT !.pc = pc, !.conn = c, !.doc = d]]

Step(h, pc, next) ==
    /\ go[h].pc = pc
    /\ go' = [go EXCEPT ![h].pc = next]
\* A step after which the goroutine holds these values in its locals.
Hold(h, pc, next, d, s, list) ==
    /\ go[h].pc = pc
    /\ go' = [go EXCEPT ![h] = [pc |-> next, conn |-> go[h].conn, doc |-> d,
                                session |-> s, list |-> list]]
Done(h, pc) ==
    /\ go[h].pc = pc
    /\ go' = [go EXCEPT ![h] = Idle]
CleanHold(c, pc, next, d, s, list) ==
    /\ cleanup[c].pc = pc
    /\ cleanup' = [cleanup EXCEPT ![c] = [pc |-> next, conn |-> NoConn,
                                          doc |-> d, session |-> s,
                                          list |-> list]]
CleanStep(c, pc, next) ==
    /\ cleanup[c].pc = pc
    /\ cleanup' = [cleanup EXCEPT ![c].pc = next]

\* The list stored in place of `index`, when it is not the one that was
\* loaded, overwrites somebody's update: remember whose list it was.
Overwrites(key, index, loaded) == IF index = loaded THEN {} ELSE {key}

(* Redis: a command either takes effect or is logged as failed.            *)
Redis(s, fields) ==
    \/ redis' = [redis EXCEPT ![s] = fields]
    \/ RedisMayFail /\ UNCHANGED redis

-----------------------------------------------------------------------------
(* The client.                                                             *)

\* connect(): the tab's service drops its listeners on the previous socket,
\* which stays open, and onOpen sends "auth" on the new one.
Open(c, s, u, h) ==
    /\ link[c] = "none" /\ c \notin cancelled
    /\ link' = [link EXCEPT ![c] = "up"]
    /\ who' = [who EXCEPT ![c] = [user |-> u, session |-> s]]
    /\ current' = [current EXCEPT ![s] = c]
    /\ cleanup' = [cleanup EXCEPT ![c].pc = "serve"]
    /\ Spawn(h, c, "auth", NoDoc)
    /\ UNCHANGED <<cancelled, editing, opened, client, file, maps, redis,
                   hist>>

\* Nothing gets through any more: a closed tab, disconnect(), a broken or
\* stalled network.
ClientGone(c) ==
    /\ link[c] = "up"
    /\ link' = [link EXCEPT ![c] = "lost"]
    /\ UNCHANGED <<cancelled, who, current, editing, opened, client, file, go,
                   cleanup, maps, redis, hist>>

\* sendMessage on the tab's current socket; readPump starts a goroutine
\* whatever the earlier goroutines of the connection are doing.
Send(s, h, pc, d) ==
    LET c == current[s]
    IN  /\ c # NoConn
        /\ IF Reading(c)
           THEN /\ Spawn(h, c, pc, d)
                /\ hist' = IF Busy(c) \/ cleanup[c].pc # "serve"
                           THEN [hist EXCEPT !.tangled = @ \cup {c}]
                           ELSE hist
           ELSE UNCHANGED <<go, hist>>
        /\ UNCHANGED <<link, cancelled, who, current, client, file, cleanup,
                       maps, redis>>

\* ngOnInit and ngOnDestroy of the editor component.
OpenEditor(s, d, h) ==
    /\ editing[s] = NoDoc /\ opened < MaxOpen
    /\ editing' = [editing EXCEPT ![s] = d]
    /\ opened' = opened + 1
    /\ Send(s, h, "join", d)
CloseEditor(s, h) ==
    /\ editing[s] # NoDoc
    /\ editing' = [editing EXCEPT ![s] = NoDoc]
    /\ UNCHANGED opened
    /\ Send(s, h, "exit", NoDoc)

-----------------------------------------------------------------------------
(* handleAuthentication.                                                   *)

\* ValidJWT refuses the token (a client without a token, which sends
\* nothing, leaves the same state).
AuthRefused(h) ==
    /\ Done(h, "auth")
    /\ UNCHANGED <<clientSide, cancelled, client, file, cleanup, maps, redis,
                   hist>>

\* The token is accepted and manager.clientSocket.client assigned; when it
\* was expired and CreateJWT cannot renew it the handler ends here.  (The
\* assignment is not atomic: a reader that sees one new field and one old
\* finds the same entries, none, as one that sees both old.)
AuthAccepted(h) ==
    LET c == go[h].conn
    IN  /\ Step(h, "auth", "addUser") \/ Done(h, "auth")
        /\ client' = [client EXCEPT ![c] = who[c]]
        /\ UNCHANGED <<clientSide, cancelled, file, cleanup, maps, redis,
                       hist>>

\* storeLocalConnection: pool.Store (no code reads pool, so it is not a step
\* of its own), then the Load of addUserIndex.
AuthLoadUser(h) ==
    LET c == go[h].conn
    IN  /\ Hold(h, "addUser", "storeUser", NoDoc, NoSession,
                userIndex[client[c].user])
        /\ pool' = [pool EXCEPT ![client[c].session] = c]
        /\ UNCHANGED <<clientSide, cancelled, client, file, cleanup,
                       userIndex, managers, docSessions, redis, hist>>

AuthStoreUser(h) ==
    LET c == go[h].conn
        u == client[c].user
    IN  /\ Hold(h, "storeUser", "addManager", NoDoc, NoSession, <<>>)
        /\ userIndex' = [userIndex EXCEPT
                           ![u] = Append(go[h].list, client[c].session)]
        /\ hist' = [hist EXCEPT
                      !.listed = @ \cup {c},
                      !.lost = @ \cup Overwrites(u, userIndex[u], go[h].list),
                      !.late = IF cleanup[c].pc = "serve"
                               THEN @ ELSE @ \cup {c}]
        /\ UNCHANGED <<clientSide, cancelled, client, file, cleanup, pool,
                       managers, docSessions, redis>>

\* addManager forgotten.
AuthSkipsManager(h) ==
    /\ Step(h, "addManager", "storeRedis")
    /\ UNCHANGED <<clientSide, cancelled, client, file, cleanup, maps, redis,
                   hist>>

AuthAddManager(h) ==
    LET c == go[h].conn
    IN  /\ Step(h, "addManager", "storeRedis")
        /\ managers' = [managers EXCEPT ![client[c].session] = c]
        /\ UNCHANGED <<clientSide, cancelled, client, file, cleanup, pool,
                       userIndex, docSessions, redis, hist>>

\* The request's context is cancelled once WebSocketHandler has returned: a
\* command issued then fails.
AuthStoreSessionInRedis(h) ==
    LET c == go[h].conn
    IN  /\ Done(h, "storeRedis")
        /\ \/ Redis(client[c].session,
                    [user |-> client[c].user, file |-> NoDoc])
           \/ cleanup[c].pc = "finished" /\ UNCHANGED redis
        /\ UNCHANGED <<clientSide, cancelled, client, file, cleanup, maps,
                       hist>>

-----------------------------------------------------------------------------
(* handleJoinFile.                                                         *)

JoinSetFile(h) ==
    /\ Step(h, "join", "joinRedis")
    /\ file' = [file EXCEPT ![go[h].conn] = go[h].doc]
    /\ UNCHANGED <<clientSide, cancelled, client, cleanup, maps, redis, hist>>

JoinAddFileInSession(h) ==
    LET s == client[go[h].conn].session
    IN  /\ Step(h, "joinRedis", "joinLoad")
        /\ Redis(s, [redis[s] EXCEPT !.file = go[h].doc])
        /\ UNCHANGED <<clientSide, cancelled, client, file, cleanup, maps,
                       hist>>

\* AddSessionToDoc(data.FileUUID, SessionID): its argument, then its Load.
JoinLoadDoc(h) ==
    /\ Hold(h, "joinLoad", "joinStore", go[h].doc,
            client[go[h].conn].session, docSessions[go[h].doc])
    /\ UNCHANGED <<clientSide, cancelled, client, file, cleanup, maps, redis,
                   hist>>

\* AddSessionToDoc with its arguments swapped.
JoinStoresDocument(h) ==
    LET d == go[h].doc
    IN  /\ Done(h, "joinStore")
        /\ docSessions' = [docSessions EXCEPT ![d] = Append(go[h].list, d)]
        /\ UNCHANGED <<clientSide, cancelled, client, file, cleanup, pool,
                       userIndex, managers, redis, hist>>

JoinStoreDoc(h) ==
    LET d == go[h].doc
    IN  /\ Done(h, "joinStore")
        /\ docSessions' = [docSessions EXCEPT
                             ![d] = Append(go[h].list, go[h].session)]
        /\ hist' = [hist EXCEPT
                      !.lost = @ \cup
                          Overwrites(d, docSessions[d], go[h].list)]
        /\ UNCHANGED <<clientSide, cancelled, client, file, cleanup, pool,
                       userIndex, managers, redis>>

-----------------------------------------------------------------------------
(* handleExitFile: DeleteSessionInDoc, then DeleteFileInSession.           *)

\* currentFileUUID and SessionID are read, then the list is loaded; without
\* an entry to remove the method returns and keeps currentFileUUID.
ExitLoadDoc(h) ==
    LET c == go[h].conn
        d == file[c]
        s == client[c].session
    IN  /\ go[h].pc = "exit"
        /\ IF searchIndex(s, docSessions[d]) # 0
           THEN Hold(h, "exit", "exitStore", d, s, docSessions[d])
           ELSE Step(h, "exit", "exitRedis")
        /\ UNCHANGED <<clientSide, cancelled, client, file, cleanup, maps,
                       redis, hist>>

\* The list forgotten, currentFileUUID cleared.
ExitKeepsEntry(h) ==
    /\ Hold(h, "exitStore", "exitRedis", NoDoc, NoSession, <<>>)
    /\ file' = [file EXCEPT ![go[h].conn] = NoDoc]
    /\ UNCHANGED <<clientSide, cancelled, client, cleanup, maps, redis, hist>>

ExitStoreDoc(h) ==
    LET d == go[h].doc
    IN  /\ Hold(h, "exitStore", "exitRedis", NoDoc, NoSession, <<>>)
        /\ docSessions' = [docSessions EXCEPT
                             ![d] = WithoutSession(go[h].list, go[h].session)]
        /\ file' = [file EXCEPT ![go[h].conn] = NoDoc]
        /\ hist' = [hist EXCEPT
                      !.lost = @ \cup
                          Overwrites(d, docSessions[d], go[h].list)]
        /\ UNCHANGED <<clientSide, cancelled, client, cleanup, pool,
                       userIndex, managers, redis>>

\* DeleteFileInSession forgotten.
ExitKeepsFileInSession(h) ==
    /\ Done(h, "exitRedis")
    /\ UNCHANGED <<clientSide, cancelled, client, file, cleanup, maps, redis,
                   hist>>

ExitDeleteFileInSession(h) ==
    LET s == client[go[h].conn].session
    IN  /\ Done(h, "exitRedis")
        /\ Redis(s, [redis[s] EXCEPT !.file = NoDoc])
        /\ UNCHANGED <<clientSide, cancelled, client, file, cleanup, maps,
                       hist>>

-----------------------------------------------------------------------------
(* The pumps and the end of a connection.                                  *)

\* readPump or writePump returns: a read error or no pong for readTimeout, a
\* failed write or ping.  It closes the socket and cancels the context.
PumpExit(c) ==
    /\ link[c] = "lost" /\ cleanup[c].pc # "finished"
    /\ link' = [link EXCEPT ![c] = "closed"]
    /\ cancelled' = cancelled \cup {c}
    /\ UNCHANGED <<who, current, editing, opened, client, file, go, cleanup,
                   maps, redis, hist>>

\* main: SIGTERM cancels the server context, hence every connection's.
Shutdown ==
    /\ MayStop /\ cancelled # Conn
    /\ cancelled' = Conn
    /\ UNCHANGED <<clientSide, client, file, go, cleanup, maps, redis, hist>>

\* `<-manager.ctx.Done()`, then DeleteLocal: deleteLocalSession (pool.Delete,
\* see AuthLoadUser) and the Load of deleteUserIndex.
CleanLoadUser(c) ==
    LET u == client[c].user
        s == client[c].session
    IN  /\ c \in cancelled
        /\ pool' = [pool EXCEPT ![s] = NoConn]
        /\ IF searchIndex(s, userIndex[u]) # 0
           THEN CleanHold(c, "serve", "storeUser", NoDoc, s, userIndex[u])
           ELSE CleanStep(c, "serve", "delManager")
        /\ hist' = IF u # NoUser /\ c \notin hist.listed
                   THEN [hist EXCEPT !.late = @ \cup {c}] ELSE hist
        /\ UNCHANGED <<clientSide, cancelled, client, file, go, userIndex,
                       managers, docSessions, redis>>

CleanStoreUser(c) ==
    LET u == client[c].user
    IN  /\ CleanHold(c, "storeUser", "delManager", NoDoc, NoSession, <<>>)
        /\ userIndex' = [userIndex EXCEPT
                 ![u] = WithoutSession(cleanup[c].list, cleanup[c].session)]
        /\ hist' = [hist EXCEPT
             !.lost = @ \cup Overwrites(u, userIndex[u], cleanup[c].list)]
        /\ UNCHANGED <<clientSide, cancelled, client, file, go, pool,
                       managers, docSessions, redis>>

\* deleteManagersMap forgotten.
CleanKeepsManager(c) ==
    /\ CleanStep(c, "delManager", "loadDoc")
    /\ UNCHANGED <<clientSide, cancelled, client, file, go, maps, redis,
                   hist>>

CleanDeleteManagersMap(c) ==
    /\ CleanStep(c, "delManager", "loadDoc")
    /\ managers' = [managers EXCEPT ![client[c].session] = NoConn]
    /\ UNCHANGED <<clientSide, cancelled, client, file, go, pool, userIndex,
                   docSessions, redis, hist>>

\* DeleteSessionInDoc, called by the cleanup.
CleanLoadDoc(c) ==
    LET d == file[c]
        s == client[c].session
    IN  /\ IF searchIndex(s, docSessions[d]) # 0
           THEN CleanHold(c, "loadDoc", "storeDoc", d, s, docSessions[d])
           ELSE CleanStep(c, "loadDoc", "delRedis")
        /\ hist' = IF Busy(c) THEN [hist EXCEPT !.tangled = @ \cup {c}]
                   ELSE hist
        /\ UNCHANGED <<clientSide, cancelled, client, file, go, maps, redis>>

CleanStoreDoc(c) ==
    LET d == cleanup[c].doc
    IN  /\ CleanHold(c, "storeDoc", "delRedis", NoDoc, NoSession, <<>>)
        /\ docSessions' = [docSessions EXCEPT
                 ![d] = WithoutSession(cleanup[c].list, cleanup[c].session)]
        /\ file' = [file EXCEPT ![c] = NoDoc]
        /\ hist' = [hist EXCEPT
             !.lost = @ \cup Overwrites(d, docSessions[d], cleanup[c].list)]
        /\ UNCHANGED <<clientSide, cancelled, client, go, pool, userIndex,
                       managers, redis>>

\* DeleteSessionInRedis, then the deferred conn.Close().
CleanDeleteSessionInRedis(c) ==
    /\ CleanStep(c, "delRedis", "finished")
    /\ Redis(client[c].session, Absent)
    /\ link' = [link EXCEPT ![c] = "closed"]
    /\ UNCHANGED <<cancelled, who, current, editing, opened, client, file,
                   go, maps, hist>>

-----------------------------------------------------------------------------
Auth(h) ==
    \/ AuthRefused(h) \/ AuthAccepted(h) \/ AuthLoadUser(h)
    \/ AuthStoreUser(h) \/ AuthAddManager(h) \/ AuthStoreSessionInRedis(h)
Join(h) ==
    \/ JoinSetFile(h) \/ JoinAddFileInSession(h) \/ JoinLoadDoc(h)
    \/ JoinStoreDoc(h)
Exit(h) ==
    \/ ExitLoadDoc(h) \/ ExitStoreDoc(h) \/ ExitDeleteFileInSession(h)
Clean(c) ==
    \/ CleanLoadUser(c) \/ CleanStoreUser(c)
    \/ CleanDeleteManagersMap(c) \/ CleanLoadDoc(c) \/ CleanStoreDoc(c)
    \/ CleanDeleteSessionInRedis(c)
Client ==
    \/ \E c \in Conn, s \in Session, u \in User, h \in Handler :
          Open(c, s, u, h)
    \/ \E c \in Conn : ClientGone(c)
    \/ \E s \in Session, d \in Doc, h \in Handler : OpenEditor(s, d, h)
    \/ \E s \in Session, h \in Handler : CloseEditor(s, h)

Next ==
    \/ Client
    \/ \E h \in Handler : Auth(h) \/ Join(h) \/ Exit(h)
    \/ \E c \in Conn : Clean(c) \/ PumpExit(c)
    \/ Shutdown

\* The Go scheduler runs every goroutine, and a pump notices a lost peer at
\* the latest at its read deadline; nothing obliges a client to act.
Fairness ==
    /\ \A h \in Handler : WF_vars(Auth(h) \/ Join(h) \/ Exit(h))
    /\ \A c \in Conn : WF_vars(Clean(c))
    /\ \A c \in Conn : WF_vars(PumpExit(c))

Spec == Init /\ [][Next]_vars
FairSpec == Spec /\ Fairness

-----------------------------------------------------------------------------
(* Properties.                                                             *)

GoState == [pc : {"idle"} \cup AuthPC \cup JoinPC \cup ExitPC,
            conn : Conn \cup {NoConn}, doc : Doc \cup {NoDoc},
            session : Session \cup {NoSession},
            list : Seq(Session \cup {NoSession})]
CleanState == [pc : CleanPC, conn : Conn \cup {NoConn},
               doc : Doc \cup {NoDoc}, session : Session \cup {NoSession},
               list : Seq(Session \cup {NoSession})]

\* Every variable has its type; a goroutine that runs belongs to a
\* connection, and the message it handles to the connection's tab.
TypeOK ==
    /\ link \in [Conn -> {"none", "up", "lost", "closed"}]
    /\ cancelled \in SUBSET Conn
    /\ who \in [Conn -> Identity]
    /\ current \in [Session -> Conn \cup {NoConn}]
    /\ editing \in [Session -> Doc \cup {NoDoc}]
    /\ opened \in 0..MaxOpen
    /\ client \in [Conn -> Identity]
    /\ file \in [Conn -> Doc \cup {NoDoc}]
    /\ go \in [Handler -> GoState]
    /\ cleanup \in [Conn -> CleanState]
    /\ pool \in [Session \cup {NoSession} -> Conn \cup {NoConn}]
    /\ userIndex \in [User \cup {NoUser} -> Seq(Session \cup {NoSession})]
    /\ managers \in [Session \cup {NoSession} -> Conn \cup {NoConn}]
    /\ docSessions \in [Doc \cup {NoDoc} -> Seq(Session \cup {NoSession})]
    /\ redis \in [Session \cup {NoSession} ->
                    [user : User \cup {NoUser, NoField},
                     file : Doc \cup {NoDoc, NoField}]]
    /\ hist \in [listed : SUBSET Conn, late : SUBSET Conn,
                 tangled : SUBSET Conn,
                 lost : SUBSET (User \cup Doc \cup {NoUser, NoDoc})]
    /\ \A h \in Handler : go[h].pc # "idle" => go[h].conn \in Conn

Authenticating(c) ==
    \E h \in Handler : go[h].pc \in AuthPC /\ go[h].conn = c
Registered(c) == c \in hist.listed /\ ~Authenticating(c)
Serving(c) == cleanup[c].pc = "serve"
Identified(c) == client[c].session # NoSession
SameTab(c) == {d \in Conn \ {c} : who[d].session = who[c].session}

\* A connection that authenticated and is still served is the one its
\* session identifier leads to in every registry (routeToUser and
\* routeToDocument find it through managers), whatever the other tabs do:
\* only another connection of the same tab that got as far as
\* authenticating can have replaced or removed its entries.
EvictedOnlyByOwnTab ==
    \A c \in Conn :
        Registered(c) /\ Serving(c) =>
            \/ \E d \in SameTab(c) : Identified(d)
            \/ /\ managers[who[c].session] = c
               /\ RedisMayFail \/ redis[who[c].session].user = who[c].user

\* A user's list holds a tab's session exactly once for every connection of
\* that tab and user that is registered and not cleaned up: nobody served is
\* missing, no dead session stays, no notification is sent twice to a
\* connection.  Excepted are the lists an update was lost from (two
\* goroutines between Load and Store) and the tabs with a connection whose
\* cleanup passed the list before its own authentication reached it.
UserListExact ==
    \A u \in User \ hist.lost, s \in Session :
        LET owner == [user |-> u, session |-> s]
            unlisted == {"delManager", "loadDoc", "storeDoc", "delRedis",
                         "finished"}
        IN  (\A c \in hist.late : who[c] # owner) =>
                Occurrences(s, userIndex[u]) =
                Cardinality({c \in hist.listed :
                               /\ who[c] = owner
                               /\ cleanup[c].pc \notin unlisted})

\* A document's list holds a tab's session exactly once for every connection
\* on which the tab has joined the document and neither left it nor been
\* cleaned up.  Excepted are the lists an update was lost from and the tabs
\* with a connection whose goroutines overlapped.
DocListExact ==
    \A d \in Doc \ hist.lost, s \in Session :
        (\A c \in hist.tangled : who[c].session # s) =>
            Occurrences(s, docSessions[d]) =
            Cardinality({c \in Conn :
                           /\ client[c].session = s
                           /\ file[c] = d
                           /\ \A h \in Handler :
                                ~(go[h].conn = c /\ go[h].pc \in JoinPC)})

\* The server does not take a tab to edit a file it has left: while the tab
\* shows no editor and nothing it sent is being handled, no document's list
\* names it.  Excepted are the tabs whose messages overlapped (exitFile may run
\* before the joinFile sent earlier), those with another authenticated
\* connection, which keeps its entry, and the lists that lost an update.
LeftForgotten ==
    \A s \in Session, d \in Doc \ hist.lost :
        LET c == current[s]
        IN  /\ c # NoConn /\ Reading(c) /\ ~Busy(c) /\ editing[s] = NoDoc
            /\ \A k \in SameTab(c) : ~Identified(k)
            /\ \A k \in hist.tangled : who[k].session # s
            => ~Contains(docSessions[d], s)

\* A notification for a user is handed to a connection of somebody else only
\* while an older connection of the same tab, authenticated as the target
\* user, has not been cleaned up (or was cleaned up too early, or the list
\* lost an update).
MisroutedOnlyAfterRelogin ==
    \A u \in User \ hist.lost, s \in Session :
        LET c == managers[s]
        IN  c # NoConn /\ Contains(userIndex[u], s) /\ who[c].user # u =>
              \E d \in SameTab(c) :
                 /\ who[d].user = u
                 /\ cleanup[d].pc # "finished" \/ d \in hist.late

\* When Redis answers, the hash of a tab whose only authenticated connection
\* is served and idle names its user and the file it is editing, unless the
\* connection's goroutines overlapped.
RedisSessionCurrent ==
    \A c \in Conn \ hist.tangled :
        /\ ~RedisMayFail
        /\ Registered(c) /\ Serving(c) /\ ~Busy(c)
        /\ file[c] \notin hist.lost
        /\ \A d \in SameTab(c) : ~Identified(d)
        => redis[who[c].session] = [user |-> who[c].user, file |-> file[c]]

\* A served connection whose peer is gone, and whose goroutines are done, is
\* cleaned up in the end, and no session leads to it any more.
DeadConnectionForgotten ==
    \A c \in Conn :
        link[c] = "lost" /\ Serving(c) /\ ~Busy(c)
        ~> /\ cleanup[c].pc = "finished"
           /\ \A s \in Session : managers[s] # c
=============================================================================
