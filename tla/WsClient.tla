------------------------------ MODULE WsClient ------------------------------
(***************************************************************************)
(* One browser tab: its WebSocket (websocket.service.ts with               *)
(* websocketState.service.ts), who it takes its user to be                 *)
(* (userState.service.ts), the token in localStorage that all tabs share   *)
(* (token.service.ts) and the event bus that ties the three together.  The *)
(* bus is synchronous, so that a handler and all the handlers its events   *)
(* reach are one step; between two steps the network, timers, answers, the *)
(* user and other tabs come in any order.                                  *)
(*                                                                         *)
(* Of the server there is its end of every connection, which outlives the  *)
(* tab's until a ping fails or the read deadline passes, and the user it   *)
(* takes the connection for.  Its verdict on a token is any verdict here   *)
(* (Sessions has its reasons); the registry it keeps, and what the editor  *)
(* of the tab tells it, are ConnectionPool's.                              *)
(***************************************************************************)
EXTENDS Naturals

CONSTANTS
    User, Socket,
    NoUser, NoSocket,
    MaxAttempts,         \* maxAutoReconnect (4 in the code)
    MaxTimers            \* bound on the pending timers

ASSUME ClientAssumption ==
    /\ NoUser \notin User /\ NoSocket \notin Socket
    /\ MaxAttempts \in Nat \ {0} /\ MaxTimers \in Nat

VARIABLES
    token,         \* the user of the token in localStorage
    user,          \* userState: username, hasJWT and isLoggedIn
    socket,        \* this.socket, the one whose events are listened to
    sock,          \* the sockets, each with the server's end of it
    reconnecting,  \* websocketState.isReconnecting
    timers,        \* timers[k]: tryAgain scheduled after k attempts
    submitted,     \* whether login or register requests may be unanswered
    online,        \* whether the server can be reached
    gaveUp         \* history: all attempts failed, and no socket is usable since

client == <<token, user, socket, sock, reconnecting>>
vars == <<client, timers, submitted, online, gaveUp>>

\* served: the server's end lives; asked: the token it has been sent, and not
\* yet handled; who: whom it takes the connection for; answer: of auth, on its
\* way.  stray is history: it authenticated with another tab's token, or a
\* renewed token or a second login replaced it while it was open.
Closed == [state |-> "closed", served |-> FALSE, asked |-> NoUser,
           who |-> NoUser, answer |-> "none", stray |-> FALSE]
Connecting == [Closed EXCEPT !.state = "connecting"]
\* The browser is done with a socket; the server's end is not.
Shut(r) == IF r.served THEN [r EXCEPT !.state = "closed", !.answer = "none"]
           ELSE Closed

-----------------------------------------------------------------------------
(* The services, as functions of what they keep.                           *)

Now == [token |-> token, user |-> user, socket |-> socket, sock |-> sock,
        reconnecting |-> reconnecting]
Becomes(service) == \E b \in {service} :
    /\ token' = b.token /\ user' = b.user
    /\ socket' = b.socket /\ sock' = b.sock
    /\ reconnecting' = b.reconnecting

Open(b) == b.socket # NoSocket /\ b.sock[b.socket].state = "open"

UpdateForgetsFlag(b) == b    \* mutant
updateFromSocket(b) ==
    [b EXCEPT !.reconnecting = @ /\ ~Open(b)]

\* A socket not made yet, or garbage on both sides: all of them are alike.
Unused(b) == {s \in Socket :
                b.sock[s].state = "closed" /\ ~b.sock[s].served}

\* The former socket is no longer listened to, and not closed either: an open
\* one stays with the server; one that is connecting will open and never be
\* used, and is forgotten, as is one that is closing.
Former(b) ==
    IF b.socket = NoSocket THEN b
    ELSE IF Open(b) THEN [b EXCEPT !.sock[b.socket].answer = "none"]
    ELSE [b EXCEPT !.sock[b.socket] = Shut(@)]
MayConnect(b) == Unused(Former(b)) # {}
connect(b) ==
    LET new == CHOOSE s \in Unused(Former(b)) : TRUE
    IN  updateFromSocket([Former(b) EXCEPT !.socket = new,
                                           !.sock[new] = Connecting])

Strays(b) == IF Open(b) THEN [b EXCEPT !.sock[b.socket].stray = TRUE] ELSE b

\* What userState does for the events of the bus.
setUnauthenticated(b) == [b EXCEPT !.user = NoUser]
setAuthenticated(b, u) == connect([b EXCEPT !.user = u])

\* The token service, which emits UNAUTHENTICATION_REQUEST and
\* AUTHENTICATION_REQUEST.
removeToken(b) == setUnauthenticated([b EXCEPT !.token = NoUser])
setToken(b, u) == setAuthenticated([b EXCEPT !.token = u], u)
replaceToken(b, u) == setToken(removeToken(b), u)
websocketLogout(b) == removeToken(b)

DisconnectClosesNothing(b) == websocketLogout(b)    \* mutant

\* disconnect closes an open socket only, and emits WEBSOCKET_LOGOUT.
disconnect(b) ==
    websocketLogout(
        IF Open(b) THEN [b EXCEPT !.sock[b.socket].state = "closing"] ELSE b)
LogoutKeepsSocket(b) == removeToken(b)    \* mutant
logout(b) == disconnect(removeToken(b))

sendAuth(b) ==
    IF b.token = NoUser THEN disconnect(b)
    ELSE [b EXCEPT !.sock[b.socket].asked = b.token,
                   !.sock[b.socket].stray = b.token # b.user]

-----------------------------------------------------------------------------
Init ==
    /\ token = NoUser /\ user = NoUser
    /\ socket = NoSocket /\ sock = [s \in Socket |-> Closed]
    /\ reconnecting = FALSE
    /\ timers = [k \in 1..MaxAttempts |-> 0] /\ submitted = FALSE
    /\ online = TRUE /\ gaveUp = FALSE

-----------------------------------------------------------------------------
(* The user.                                                               *)

\* onSubmit of the login and register components, behind GuestGuard: any
\* number of requests, until the page is loaded again.
GuestGuard == user = NoUser
Submit ==
    /\ GuestGuard /\ submitted' = TRUE
    /\ UNCHANGED <<client, timers, online, gaveUp>>

\* handleAuthResponse; the user may have logged in by an earlier request
\* meanwhile.
Login(u) ==
    /\ submitted /\ MayConnect(Now)
    /\ Becomes(replaceToken(IF user = NoUser THEN Now ELSE Strays(Now), u))
    /\ UNCHANGED <<timers, submitted, online, gaveUp>>

\* A request that finds no token, or is answered 401, or 409 (whose new token
\* the error handlers do not find in the body); a refused login too.
Logout ==
    /\ Becomes(logout(Now))
    /\ UNCHANGED <<timers, submitted, online, gaveUp>>

\* The page is loaded again: everything is gone but the token, which the
\* constructor of userState reads.
Reload ==
    LET fresh == [Now EXCEPT !.user = token, !.socket = NoSocket,
                             !.sock = [s \in Socket |-> Shut(sock[s])],
                             !.reconnecting = FALSE]
    IN  /\ token = NoUser \/ MayConnect(fresh)
        /\ Becomes(IF token = NoUser THEN fresh ELSE connect(fresh))
        /\ timers' = [k \in DOMAIN timers |-> 0]
        /\ submitted' = FALSE /\ gaveUp' = FALSE
        /\ UNCHANGED online

\* Another tab of the browser logs in or out: this one is not told.
OtherTab(u) ==
    /\ token' = u
    /\ UNCHANGED <<user, socket, sock, reconnecting, timers, submitted,
                   online, gaveUp>>

-----------------------------------------------------------------------------
(* The network.                                                            *)

Switch ==
    /\ online' = ~online
    /\ UNCHANGED <<client, timers, submitted, gaveUp>>

OpenForgetsStatus(b) == sendAuth(b)    \* mutant
onOpen(b) == updateFromSocket(sendAuth(b))

Opens(s) ==
    LET b == [Now EXCEPT !.sock[s].state = "open", !.sock[s].served = TRUE]
    IN  /\ sock[s].state = "connecting" /\ online
        /\ Becomes(IF s = socket THEN onOpen(b) ELSE b)
        /\ gaveUp' = (gaveUp /\ ~(s = socket /\ token # NoUser))
        /\ UNCHANGED <<timers, submitted, online>>

\* Its first attempt is made at once.
autoReconnect(b) ==
    IF b.reconnecting THEN Becomes(b) /\ UNCHANGED timers
    ELSE /\ MayConnect(b)
         /\ Becomes(connect([b EXCEPT !.reconnecting = TRUE]))
         /\ timers' = [timers EXCEPT ![1] = @ + 1]

Pending ==
    LET Sum[k \in 0..MaxAttempts] ==
          IF k = 0 THEN 0 ELSE timers[k] + Sum[k - 1]
    IN  Sum[MaxAttempts]

\* The browser finds that a connection has failed or broken, or that its
\* closing is not answered; onClose with an event that is not clean.
Breaks(s) ==
    LET b == [Now EXCEPT !.sock[s] = Shut(@)]
    IN  /\ \/ sock[s].state # "closed" /\ ~online
           \/ sock[s].state \in {"open", "closing"} /\ ~sock[s].served
        /\ IF s = socket
           THEN /\ Pending < MaxTimers \/ reconnecting
                /\ autoReconnect(updateFromSocket(b))
           ELSE Becomes(b) /\ UNCHANGED timers
        /\ UNCHANGED <<submitted, online, gaveUp>>

\* The server answers the closing; onClose with a clean event.
ClosesCleanly(s) ==
    LET b == [Now EXCEPT !.sock[s] = Shut(@)]
    IN  /\ sock[s].state = "closing"
        /\ Becomes(IF s = socket THEN updateFromSocket(b) ELSE b)
        /\ UNCHANGED <<timers, submitted, online, gaveUp>>

\* tryAgain, ten seconds after the k-th attempt: whoever has logged out or in
\* meanwhile.
TryAgain(k) ==
    /\ timers[k] > 0
    /\ \/ /\ Open(Now) \/ k = MaxAttempts
          /\ timers' = [timers EXCEPT ![k] = @ - 1]
          /\ gaveUp' = (gaveUp \/ ~Open(Now))
          /\ UNCHANGED client
       \/ /\ ~Open(Now) /\ k < MaxAttempts /\ MayConnect(Now)
          /\ timers' = [timers EXCEPT ![k] = @ - 1, ![k + 1] = @ + 1]
          /\ Becomes(connect(Now))
          /\ UNCHANGED gaveUp
    /\ UNCHANGED <<submitted, online>>

-----------------------------------------------------------------------------
(* The server.                                                             *)

\* handleAuthentication, with any verdict, of a message that its end has got,
\* be the tab gone or not; the answer may be dropped, and one that renews
\* nothing changes nothing here.
Authenticate(s) ==
    /\ sock[s].served /\ sock[s].asked # NoUser
    /\ \E verdict \in {"Auth_success", "renewed", "Auth_failed"} :
         \E answer \in {"none"} \cup
                       IF s = socket /\ sock[s].state = "open"
                       THEN {verdict} \ {"Auth_success"} ELSE {} :
           sock' = [sock EXCEPT
             ![s].asked = NoUser, ![s].answer = answer,
             ![s].who = IF verdict = "Auth_failed" THEN @ ELSE sock[s].asked]
    /\ UNCHANGED <<token, user, socket, reconnecting, timers, submitted,
                   online, gaveUp>>

\* A ping fails or the read deadline passes, sixty seconds after the last
\* pong, or the close frame is read: the connection is cleaned up.
ServerEnds(s) ==
    /\ sock[s].served /\ (sock[s].state # "open" \/ ~online)
    /\ sock' = [sock EXCEPT ![s] =
                  IF @.state = "closed" THEN Closed
                  ELSE [@ EXCEPT !.served = FALSE, !.asked = NoUser,
                                 !.who = NoUser]]
    /\ UNCHANGED <<token, user, socket, reconnecting, timers, submitted,
                   online, gaveUp>>

-----------------------------------------------------------------------------
(* listenMessage, of the current socket while it is open.                  *)

Receives(type) == Open(Now) /\ sock[socket].answer = type
Taken == [Now EXCEPT !.sock[socket].answer = "none"]

\* replaceJWT: the token is removed and set, and setting it connects.
TakeRenewed ==
    /\ Receives("renewed") /\ MayConnect(Now)
    /\ \E u \in {sock[socket].who} \ {NoUser} :
         Becomes(replaceToken(Strays(Taken), u))
    /\ UNCHANGED <<timers, submitted, online, gaveUp>>

TakeFailed ==
    /\ Receives("Auth_failed")
    /\ Becomes(disconnect(Taken))
    /\ UNCHANGED <<timers, submitted, online, gaveUp>>

Next ==
    \/ \E s \in Socket :
         \/ Opens(s) \/ Breaks(s) \/ ClosesCleanly(s)
         \/ Authenticate(s) \/ ServerEnds(s)
    \/ \E u \in User : Login(u)
    \/ \E u \in User \cup {NoUser} : OtherTab(u)
    \/ \E k \in 1..MaxAttempts : TryAgain(k)
    \/ Submit \/ Logout \/ Reload \/ Switch
    \/ TakeRenewed \/ TakeFailed

\* The network brings a connection about or refuses it, timers fire, and the
\* deadlines of the server end what the tab has closed.
Fairness ==
    /\ WF_vars(\E s \in Socket \cap {socket} :
                  Opens(s) \/ Breaks(s) \/ ClosesCleanly(s))
    /\ WF_vars(\E k \in 1..MaxAttempts : TryAgain(k))
    /\ \A s \in Socket : WF_vars(sock[s].state = "closed" /\ ServerEnds(s))

Spec == Init /\ [][Next]_vars /\ Fairness

-----------------------------------------------------------------------------
\* Types, and the flag of the reconnection is down while the socket is open.
TypeOK ==
    /\ token \in User \cup {NoUser} /\ user \in User \cup {NoUser}
    /\ socket \in Socket \cup {NoSocket}
    /\ sock \in [Socket ->
         [state : {"closed", "connecting", "open", "closing"},
          served : BOOLEAN, asked : User \cup {NoUser},
          who : User \cup {NoUser},
          answer : {"none", "renewed", "Auth_failed"}, stray : BOOLEAN]]
    /\ reconnecting \in BOOLEAN /\ (reconnecting => ~Open(Now))
    /\ timers \in [1..MaxAttempts -> Nat] /\ submitted \in BOOLEAN
    /\ online \in BOOLEAN /\ gaveUp \in BOOLEAN

\* The server routes events to no connection that the tab holds open but the
\* current one, whatever timers, reloads, logouts and logins cross: connect()
\* leaves the former socket as it is, so that every caller must come after
\* its end.  A renewed token and a second login do not (connect is called on
\* an open socket), nor does a tab that a token of another tab authenticated.
NoStray == \A s \in Socket :
    sock[s].who # NoUser /\ sock[s].state = "open" /\ s # socket
    => sock[s].stray

\* The tab's connection is its user's, and a tab without a user has no open
\* connection: sendAuth reads the token as it is when the socket opens, maybe
\* after a logout and a login, and not as it was when connect was called.
\* Only the token of another tab makes the two differ.
RightUser ==
    Open(Now) /\ ~sock[socket].stray
    => user # NoUser /\ sock[socket].who \in {NoUser, user}

\* A tab whose user stays logged in is connected again once the server stays
\* reachable, unless its attempts had run out (autoReconnect): then nothing
\* but a login or a reload connects it.
Reconnects ==
    <>[](online /\ user # NoUser) => []<>(Open(Now) \/ gaveUp)

\* After the last logout of the browser the attempts scheduled before come to
\* an end, the server's end of what the tab has closed too, and the server
\* keeps no connection of the tab (but stray ones).
LoggedOutQuiet ==
    <>[](online /\ user = NoUser /\ token = NoUser)
    => <>[](\A s \in Socket : sock[s].who # NoUser => sock[s].stray)
=============================================================================
