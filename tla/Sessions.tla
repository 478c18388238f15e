------------------------------ MODULE Sessions ------------------------------
(***************************************************************************)
(* Accounts, JSON web tokens and login sessions: the register and login    *)
(* controllers and services, ValidJWT and CreateJWT, the authentication of *)
(* a WebSocket connection, the verdict of the HTTP controllers on a token, *)
(* CreateSession and the deletion of expired sessions.                     *)
(*                                                                         *)
(* Every handler goes through its statements of the database one after the *)
(* other, and none of it is a transaction: a statement may fail, and time  *)
(* passes, and other handlers run, between any two.  An index of the       *)
(* database makes a username unique; none makes the session of a user and  *)
(* an agent unique.                                                        *)
(***************************************************************************)
EXTENDS Naturals

CONSTANTS
    User,                  \* usernames
    Password, NoPassword,  \* NoPassword: there is no such account
    Agent,                 \* what browsers call themselves
    Request, Idle,         \* bound: handlers that run at the same time
    TTL,                   \* 15 days, of a token and of a session
    MaxTime,               \* bound of the clock
    MaxRows                \* bound of the session identifiers

VARIABLES
    now,
    account,     \* table users: the password of a username
    rows,        \* table sessions
    nextId,      \* its next identifier
    tokens,      \* the tokens that were answered
    req,         \* the handlers, each with what it holds
    promised,    \* history: until when a session was last granted
    lost,        \* history: it was swept while it was being extended
    raced,       \* history: two handlers found no session at once
    registered,  \* history: the registrations answered 201
    renewals     \* history: was there a session when HTTP renewed a token

history == <<promised, lost, raced, registered, renewals>>
vars == <<now, account, rows, nextId, tokens, req, history>>

Pair == User \X Agent
Token == [user : User, expires : Nat]    \* the agent is the request's
Row == [id : Nat, pair : Pair, expires : Nat]

\* A handler: its next statement, for whom, the password of a registration,
\* the session it found and when it looked, and whether it has to renew the
\* token.
Handler == [pc : {"create", "answer", "find", "insert", "update", "renew"},
            pair : Pair, password : Password \cup {NoPassword}, found : Nat,
            since : Nat, renew : BOOLEAN]

ASSUME SessionsAssumption ==
    /\ NoPassword \notin Password /\ Idle \notin Handler
    /\ TTL \in Nat \ {0} /\ MaxTime \in Nat /\ MaxRows \in Nat

-----------------------------------------------------------------------------
Init ==
    /\ now = 1
    /\ account = [u \in User |-> NoPassword]
    /\ rows = {} /\ nextId = 1 /\ tokens = {}
    /\ req = [r \in Request |-> Idle]
    /\ promised = [p \in Pair |-> 0]
    /\ lost = {} /\ raced = {} /\ registered = {} /\ renewals = {}

At(r, pc) == req[r] # Idle /\ req[r].pc = pc
Begins(r, pc, p, password, renew) ==
    /\ req[r] = Idle
    /\ req' = [req EXCEPT ![r] =
         [pc |-> pc, pair |-> p, password |-> password, found |-> 0,
          since |-> 0, renew |-> renew]]
Goes(r, pc) == req' = [req EXCEPT ![r].pc = pc]
Ends(r) == req' = [req EXCEPT ![r] = Idle]

Tick ==
    /\ now < MaxTime /\ now' = now + 1
    /\ UNCHANGED <<account, rows, nextId, tokens, req, history>>

-----------------------------------------------------------------------------
(* Accounts.                                                               *)

\* Register: the lookup; a username that is taken is answered 409.
RegisterFind(r, p, password) ==
    /\ account[p[1]] = NoPassword
    /\ Begins(r, "create", p, password, FALSE)
    /\ UNCHANGED <<now, account, rows, nextId, tokens, history>>

\* Register: Create, which the index refuses when another one came first; that
\* is answered 500.
RegisterOverwrites(r) ==    \* mutant: no index
    /\ At(r, "create")
    /\ account' = [account EXCEPT ![req[r].pair[1]] = req[r].password]
    /\ Goes(r, "answer")
    /\ UNCHANGED <<now, rows, nextId, tokens, history>>

RegisterCreate(r) ==
    LET u == req[r].pair[1]
    IN  /\ At(r, "create")
        /\ \/ /\ account[u] = NoPassword
              /\ account' = [account EXCEPT ![u] = req[r].password]
              /\ Goes(r, "answer")
           \/ /\ account[u] # NoPassword
              /\ Ends(r) /\ UNCHANGED account
        /\ UNCHANGED <<now, rows, nextId, tokens, history>>

\* Login; anything but the password of an account is answered 401.
LoginCheck(r, p) ==
    /\ account[p[1]] # NoPassword
    /\ Begins(r, "answer", p, NoPassword, FALSE)
    /\ UNCHANGED <<now, account, rows, nextId, tokens, history>>

CreateJWT(u) == tokens' = tokens \cup {[user |-> u, expires |-> now + TTL]}

\* CreateJWT and the answer, 201 or 202; the session comes after it.
Answer(r) ==
    /\ At(r, "answer")
    /\ CreateJWT(req[r].pair[1])
    /\ registered' = registered \cup
         IF req[r].password = NoPassword THEN {}
         ELSE {<<req[r].pair[1], req[r].password>>}
    /\ req' = [req EXCEPT ![r].pc = "find", ![r].password = NoPassword]
    /\ UNCHANGED <<now, account, rows, nextId, promised, lost, raced, renewals>>

-----------------------------------------------------------------------------
(* ValidJWT, of a token that was answered and the agent of the request.     *)

SessionsOf(p) == {s \in rows : s.pair = p}
Active(p) == \E s \in SessionsOf(p) : s.expires > now

ErrTokenExpired(t, a) == now > t.expires /\ ~Active(<<t.user, a>>)
ErrJWTExpired(t, a) == now > t.expires /\ Active(<<t.user, a>>)

\* handleAuthentication: Auth_failed without a session, else CreateSession for
\* the user the message names, and a new token when the old one has expired.
Authenticate(r, t, a, u) ==
    /\ ~ErrTokenExpired(t, a)
    /\ Begins(r, "find", <<u, a>>, NoPassword, ErrJWTExpired(t, a))
    /\ UNCHANGED <<now, account, rows, nextId, tokens, history>>

Renew(r) ==
    /\ At(r, "renew")
    /\ CreateJWT(req[r].pair[1])
    /\ Ends(r)
    /\ UNCHANGED <<now, account, rows, nextId, history>>

\* An HTTP request with an expired token: TokenExpiredValidSession makes
\* another one for ErrTokenExpired, and any other error is answered 401.
HttpRenews(t, a) ==
    /\ ErrTokenExpired(t, a)
    /\ CreateJWT(t.user)
    /\ renewals' = renewals \cup {Active(<<t.user, a>>)}
    /\ UNCHANGED <<now, account, rows, nextId, req, promised, lost, raced,
                   registered>>

-----------------------------------------------------------------------------
(* CreateSession.                                                          *)

Finds(r, pc, id) ==
    req' = [req EXCEPT ![r].pc = pc, ![r].found = id, ![r].since = now]

AfterSession(r) == IF req[r].renew THEN Goes(r, "renew") ELSE Ends(r)

FindAgain(r) ==    \* mutant: only sessions that have not expired count
    LET p == req[r].pair
    IN  /\ At(r, "find")
        /\ ~Active(p)
        /\ Finds(r, "insert", 0)
        /\ raced' = raced \cup
             {q \in {p} : \E o \in Request \ {r} :
                At(o, "insert") /\ req[o].pair = p}
        /\ UNCHANGED <<now, account, rows, nextId, tokens, promised, lost,
                       registered, renewals>>

FindOfAnyUser(r) ==    \* mutant: without the user and the agent
    /\ At(r, "find")
    /\ \E s \in rows : Finds(r, "update", s.id)
    /\ UNCHANGED <<now, account, rows, nextId, tokens, history>>

\* First: the session of the user and the agent with the lowest identifier.
FindNothing(r) ==
    LET p == req[r].pair
    IN  /\ At(r, "find")
        /\ SessionsOf(p) = {}
        /\ Finds(r, "insert", 0)
        /\ raced' = raced \cup
             {q \in {p} : \E o \in Request \ {r} :
                At(o, "insert") /\ req[o].pair = p}
        /\ UNCHANGED <<now, account, rows, nextId, tokens, promised, lost,
                       registered, renewals>>

FindSession(r) ==
    /\ At(r, "find")
    /\ \E s \in SessionsOf(req[r].pair) :
         /\ \A o \in SessionsOf(req[r].pair) : s.id <= o.id
         /\ Finds(r, "update", s.id)
    /\ UNCHANGED <<now, account, rows, nextId, tokens, history>>

\* The clock is read after the session was looked for, before the statement.
Expiries(r) == {e + TTL : e \in req[r].since .. now}

Promise(p, e, kept) ==
    /\ promised' = [promised EXCEPT ![p] = e]
    /\ lost' = IF kept THEN lost \ {p} ELSE lost \cup {p}
    /\ UNCHANGED <<raced, registered, renewals>>

SessionInsert(r) ==
    /\ At(r, "insert") /\ nextId <= MaxRows
    /\ \E e \in Expiries(r) :
         /\ rows' = rows \cup
              {[id |-> nextId, pair |-> req[r].pair, expires |-> e]}
         /\ Promise(req[r].pair, e, TRUE)
    /\ nextId' = nextId + 1
    /\ AfterSession(r)
    /\ UNCHANGED <<now, account, tokens>>

FoundBy(r) == {s \in rows : s.id = req[r].found}

UpdateInserts(r) ==    \* mutant: the row is saved once more
    /\ At(r, "update")
    /\ \E e \in Expiries(r) :
         /\ rows' = rows \cup {[s EXCEPT !.expires = e] : s \in FoundBy(r)}
         /\ Promise(req[r].pair, e, TRUE)
    /\ AfterSession(r)
    /\ UNCHANGED <<now, account, nextId, tokens>>

\* UpdateSessionTime, by the identifier that was found: no row is no error.
SessionUpdate(r) ==
    /\ At(r, "update")
    /\ \E e \in Expiries(r) :
         /\ rows' = (rows \ FoundBy(r))
                    \cup {[s EXCEPT !.expires = e] : s \in FoundBy(r)}
         /\ Promise(req[r].pair, e, FoundBy(r) # {})
    /\ AfterSession(r)
    /\ UNCHANGED <<now, account, nextId, tokens>>

\* deleteExpiredSessions, when the server starts and every 24 hours.
Sweep ==
    /\ rows' = {s \in rows : s.expires >= now}
    /\ UNCHANGED <<now, account, nextId, tokens, req, history>>

\* A statement fails, or the server stops: the handler returns; only that of a
\* WebSocket goes on after a session it could not create.
Fails(r) ==
    /\ req[r] # Idle
    /\ \/ Ends(r)
       \/ req[r].pc \in {"find", "insert", "update"} /\ AfterSession(r)
    /\ UNCHANGED <<now, account, rows, nextId, tokens, history>>

Next ==
    \/ \E r \in Request :
         \/ \E p \in Pair, password \in Password : RegisterFind(r, p, password)
         \/ \E p \in Pair : LoginCheck(r, p)
         \/ \E t \in tokens, a \in Agent : Authenticate(r, t, a, t.user)
         \/ RegisterCreate(r) \/ Answer(r) \/ Renew(r)
         \/ FindNothing(r) \/ FindSession(r)
         \/ SessionInsert(r) \/ SessionUpdate(r) \/ Fails(r)
    \/ \E t \in tokens, a \in Agent : HttpRenews(t, a)
    \/ Tick \/ Sweep

Spec == Init /\ [][Next]_vars

-----------------------------------------------------------------------------
\* Types, and the identifier of a session is a key.
TypeOK ==
    /\ now \in Nat
    /\ account \in [User -> Password \cup {NoPassword}]
    /\ rows \subseteq Row /\ nextId \in Nat /\ tokens \subseteq Token
    /\ \A s \in rows : s.id < nextId /\ \A t \in rows : s.id = t.id => s = t
    /\ req \in [Request -> Handler \cup {Idle}]
    /\ promised \in [Pair -> Nat] /\ lost \subseteq Pair /\ raced \subseteq Pair
    /\ registered \subseteq User \X Password /\ renewals \subseteq BOOLEAN

\* Who was told that the account is his can log in to it, for ever: two
\* registrations of a username that both found it free are not both answered
\* 201, and the second does not change the password of the first.
RegistrationKept == \A x \in registered : account[x[1]] = x[2]

\* A user has one session with an agent, unless two CreateSession of the pair
\* (logins, connections) looked for one before either had inserted its own.
OneSessionEach == \A s, t \in rows :
    s.pair = t.pair => s = t \/ s.pair \in raced

\* A session lasts as long as the last login or authentication to write it
\* granted it (a slow one may shorten it by its delay), whatever other handlers
\* and the deletion of expired sessions do: only a session that was swept
\* between the statements that find and extend it is lost, and the user will
\* have to log in although he was there.
SessionKept == \A p \in Pair :
    promised[p] >= now /\ p \notin lost
    => \E s \in SessionsOf(p) : s.expires >= promised[p]

\* HTTP requests get a new token for an expired one when there is a session:
\* what TokenExpiredValidSession is called, and a WebSocket does.
RenewedOnlyWithSession == FALSE \notin renewals
=============================================================================
