--------------------------- MODULE SessionsProofs ---------------------------
(***************************************************************************)
(* What Sessions promises for any users, agents, number of handlers, life  *)
(* time of tokens and clock.  TypeOK is inductive by itself, with the      *)
(* identifiers of sessions as a key; each of the other invariants needs    *)
(* what the handlers between two statements hold true.                     *)
(***************************************************************************)
EXTENDS Sessions, TLAPS

USE SessionsAssumption

-----------------------------------------------------------------------------
(* Handlers.                                                               *)

PC == {"create", "answer", "find", "insert", "update", "renew"}

\* What a step of a handler leaves of it.
Becomes(r, h) == req' = [req EXCEPT ![r] = h]

\* What a handler holds, of the types of a handler.
LEMMA HandlerFields ==
    ASSUME NEW h \in Handler
    PROVE  /\ h.pc \in PC /\ h.pair \in Pair
           /\ h.password \in Password \cup {NoPassword}
           /\ h.found \in Nat /\ h.since \in Nat
           /\ h.renew \in BOOLEAN /\ h # Idle
  BY DEF Handler, PC

\* A handler that goes on is a handler, with all but its pc as it was.
LEMMA GoesOn ==
    ASSUME TypeOK, NEW r \in Request, NEW pc \in PC, req[r] # Idle, Goes(r, pc)
    PROVE  \E h \in Handler :
             /\ Becomes(r, h) /\ h.pc = pc
             /\ h.pair = req[r].pair /\ h.password = req[r].password
             /\ h.found = req[r].found /\ h.renew = req[r].renew
<1>1. req[r] \in Handler
  BY DEF TypeOK
<1> DEFINE h == [req[r] EXCEPT !.pc = pc]
<1>2. h \in Handler /\ h.pc = pc /\ h.pair = req[r].pair
      /\ h.password = req[r].password /\ h.found = req[r].found
      /\ h.renew = req[r].renew
  BY <1>1 DEF Handler, PC
<1>3. Becomes(r, h)
  BY DEF Goes, Becomes
<1> QED BY <1>2, <1>3

\* What Becomes says of every handler.
LEMMA Effect ==
    ASSUME TypeOK, NEW r \in Request, NEW h \in Handler \cup {Idle},
           Becomes(r, h)
    PROVE  /\ req' \in [Request -> Handler \cup {Idle}] /\ req'[r] = h
           /\ \A q \in Request : q # r => req'[q] = req[q]
  BY DEF TypeOK, Becomes

\* The steps that begin a handler.
LEMMA Registers ==
    ASSUME NEW r \in Request, NEW p \in Pair, NEW password \in Password,
           RegisterFind(r, p, password)
    PROVE  \E h \in Handler : Becomes(r, h) /\ h.pc = "create"
<1> DEFINE h == [pc |-> "create", pair |-> p, password |-> password,
                 found |-> 0, since |-> 0, renew |-> FALSE]
<1>1. h \in Handler /\ h.pc = "create"
  BY DEF Handler
<1>2. Becomes(r, h)
  BY DEF RegisterFind, Begins, Becomes
<1> QED BY <1>1, <1>2

\* A login.
LEMMA LogsIn ==
    ASSUME NEW r \in Request, NEW p \in Pair, LoginCheck(r, p)
    PROVE  \E h \in Handler :
             Becomes(r, h) /\ h.pc = "answer" /\ h.password = NoPassword
<1> DEFINE h == [pc |-> "answer", pair |-> p, password |-> NoPassword,
                 found |-> 0, since |-> 0, renew |-> FALSE]
<1>1. h \in Handler /\ h.pc = "answer" /\ h.password = NoPassword
  BY DEF Handler
<1>2. Becomes(r, h)
  BY DEF LoginCheck, Begins, Becomes
<1> QED BY <1>1, <1>2

\* The authentication of a WebSocket.
LEMMA Authenticates ==
    ASSUME TypeOK, NEW r \in Request, NEW t \in tokens, NEW a \in Agent,
           Authenticate(r, t, a, t.user)
    PROVE  \E h \in Handler : Becomes(r, h) /\ h.pc = "find"
<1> DEFINE h == [pc |-> "find", pair |-> <<t.user, a>>, password |-> NoPassword,
                 found |-> 0, since |-> 0, renew |-> ErrJWTExpired(t, a)]
<1>1. <<t.user, a>> \in Pair /\ ErrJWTExpired(t, a) \in BOOLEAN
  BY DEF TypeOK, Token, ErrJWTExpired, Pair
<1>2. h \in Handler /\ h.pc = "find"
  BY <1>1 DEF Handler
<1>3. Becomes(r, h)
  BY DEF Authenticate, Begins, Becomes
<1> QED BY <1>2, <1>3

\* A handler that ends is idle.
LEMMA Ended ==
    ASSUME NEW r \in Request, Ends(r)
    PROVE  Becomes(r, Idle)
  BY DEF Ends, Becomes

\* A handler that has answered looks for a session.
LEMMA Answered ==
    ASSUME TypeOK, NEW r \in Request, Answer(r)
    PROVE  \E h \in Handler : Becomes(r, h) /\ h.pc = "find"
<1> DEFINE h == [req[r] EXCEPT !.pc = "find", !.password = NoPassword]
<1>1. req[r] \in Handler
  BY DEF TypeOK, Answer, At
<1>2. h \in Handler /\ h.pc = "find"
  BY <1>1 DEF Handler
<1>3. Becomes(r, h)
  BY DEF Answer, Becomes
<1> QED BY <1>2, <1>3

\* A handler that looked for a session holds what it found, and since when.
LEMMA Looked ==
    ASSUME TypeOK, NEW r \in Request, NEW pc \in PC, NEW id \in Nat,
           req[r] # Idle, Finds(r, pc, id)
    PROVE  \E h \in Handler :
             /\ Becomes(r, h) /\ h.pc = pc /\ h.found = id
             /\ h.pair = req[r].pair
<1>1. req[r] \in Handler /\ now \in Nat
  BY DEF TypeOK
<1> DEFINE h == [req[r] EXCEPT !.pc = pc, !.found = id, !.since = now]
<1>2. h \in Handler /\ h.pc = pc /\ h.found = id /\ h.pair = req[r].pair
  BY <1>1 DEF Handler, PC
<1>3. Becomes(r, h)
  BY DEF Finds, Becomes
<1> QED BY <1>2, <1>3

\* One that found nothing will insert.
LEMMA FoundNothing ==
    ASSUME TypeOK, NEW r \in Request, FindNothing(r)
    PROVE  \E h \in Handler :
             Becomes(r, h) /\ h.pc = "insert" /\ h.pair = req[r].pair
<1>1. Finds(r, "insert", 0) /\ req[r] # Idle
  BY DEF FindNothing, At
<1> QED BY <1>1, Looked DEF PC

\* One that found a session holds its identifier.
LEMMA Found ==
    ASSUME TypeOK, NEW r \in Request, FindSession(r)
    PROVE  \E s \in rows, h \in Handler :
             /\ Becomes(r, h) /\ h.pc = "update" /\ h.found = s.id
             /\ s.pair = req[r].pair /\ h.pair = req[r].pair
<1>1. PICK s \in rows : s.pair = req[r].pair /\ Finds(r, "update", s.id)
  BY DEF FindSession, SessionsOf
<1>2. s.id \in Nat /\ req[r] # Idle
  BY DEF TypeOK, Row, FindSession, At
<1> QED BY <1>1, <1>2, Looked DEF PC

\* After its session a handler renews the token or is done.
LEMMA After ==
    ASSUME TypeOK, NEW r \in Request, req[r] # Idle, AfterSession(r)
    PROVE  \E h \in Handler \cup {Idle} :
             Becomes(r, h) /\ (h # Idle => h.pc = "renew")
<1>1. CASE req[r].renew
  <2>1. Goes(r, "renew")
    BY <1>1 DEF AfterSession
  <2> QED BY <2>1, GoesOn DEF PC
<1>2. CASE ~req[r].renew
  BY <1>2, Ended DEF AfterSession
<1> QED BY <1>1, <1>2

-----------------------------------------------------------------------------
(* Types.                                                                  *)

\* The tables, as one conjunct of TypeOK.
RowsOK ==
    /\ rows \subseteq Row /\ nextId \in Nat
    /\ \A s \in rows : s.id < nextId /\ \A t \in rows : s.id = t.id => s = t

\* A token expires at a time.
LEMMA RowTime == ASSUME TypeOK PROVE now + TTL \in Nat
  BY DEF TypeOK

\* So does a session.
LEMMA ExpiryTime ==
    ASSUME TypeOK, NEW r \in Request, req[r] # Idle
    PROVE  Expiries(r) \subseteq Nat
<1>1. req[r].since \in Nat
  BY HandlerFields DEF TypeOK
<1> QED BY <1>1 DEF Expiries, TypeOK

\* A token that is made is a token.
LEMMA NewTokens ==
    ASSUME TypeOK, NEW u \in User, CreateJWT(u)
    PROVE  tokens' \subseteq Token
  BY RowTime DEF TypeOK, CreateJWT, Token

\* The table after SessionInsert: its new identifier is a key too.
New(r, e) == [id |-> nextId, pair |-> req[r].pair, expires |-> e]

LEMMA InsertedRows ==
    ASSUME TypeOK, NEW r \in Request, SessionInsert(r)
    PROVE  /\ RowsOK'
           /\ \E e \in Nat : /\ rows' = rows \cup {New(r, e)}
                            /\ Promise(req[r].pair, e, TRUE)
<1>1. req[r].pair \in Pair /\ req[r] # Idle
  BY HandlerFields DEF TypeOK, SessionInsert, At
<1>2. PICK e \in Expiries(r) : /\ rows' = rows \cup {New(r, e)}
                               /\ Promise(req[r].pair, e, TRUE)
  BY DEF SessionInsert, New
<1>3. e \in Nat
  BY <1>1, ExpiryTime
<1> DEFINE new == New(r, e)
<1>4. new \in Row /\ new.id = nextId
  BY <1>1, <1>3 DEF TypeOK, Row, New
<1> HIDE DEF new
<1>5. rows' = rows \cup {new} /\ nextId' = nextId + 1
  BY <1>2 DEF SessionInsert, new
<1>6. rows' \subseteq Row /\ nextId' \in Nat
  BY <1>4, <1>5 DEF TypeOK
<1>7. ASSUME NEW s \in rows'
      PROVE  s.id < nextId' /\ \A t \in rows' : s.id = t.id => s = t
  <2>1. \A x \in rows : x.id \in Nat /\ x.id < nextId
    BY DEF TypeOK, Row
  <2>2. \A x, y \in rows : x.id = y.id => x = y
    BY DEF TypeOK
  <2>3. nextId \in Nat
    BY DEF TypeOK
  <2>4. CASE s = new
    BY <1>4, <1>5, <2>1, <2>3, <2>4
  <2>5. CASE s \in rows
    BY <1>4, <1>5, <2>1, <2>2, <2>3, <2>5
  <2> QED BY <1>5, <2>4, <2>5
<1> QED BY <1>2, <1>3, <1>6, <1>7 DEF RowsOK

\* The row that SessionUpdate extends.
Extended(s, e) == [s EXCEPT !.expires = e]

\* SessionUpdate: a row of the new table is one of the old that was not found,
\* or one that was found and extended.
LEMMA UpdatedRows ==
    ASSUME TypeOK, NEW r \in Request, SessionUpdate(r)
    PROVE  /\ \E e \in Nat :
                /\ rows' = {s \in rows : s.id # req[r].found}
                           \cup {Extended(s, e) : s \in FoundBy(r)}
                /\ Promise(req[r].pair, e, FoundBy(r) # {})
           /\ RowsOK'
<1>1. PICK e \in Expiries(r) :
        /\ rows' = (rows \ FoundBy(r)) \cup {Extended(s, e) : s \in FoundBy(r)}
        /\ Promise(req[r].pair, e, FoundBy(r) # {})
  BY DEF SessionUpdate, Extended
<1>2. e \in Nat
  BY ExpiryTime DEF SessionUpdate, At
<1>3. rows' = {s \in rows : s.id # req[r].found}
              \cup {Extended(s, e) : s \in FoundBy(r)}
  BY <1>1 DEF FoundBy
<1>4. \A s \in rows : /\ s.id \in Nat /\ Extended(s, e) \in Row
                       /\ Extended(s, e).id = s.id
  BY <1>2 DEF TypeOK, Row, Extended
<1>5. \A x, y \in rows : x.id = y.id => x = y
  BY DEF TypeOK
<1>6. \A s \in rows' : \E o \in rows :
        /\ s.id = o.id /\ s \in Row
        /\ s = IF o.id = req[r].found THEN Extended(o, e) ELSE o
  BY <1>3, <1>4 DEF TypeOK, FoundBy
<1>7. ASSUME NEW s \in rows', NEW t \in rows', s.id = t.id
      PROVE  s = t
  <2>1. PICK o \in rows : /\ s.id = o.id
                          /\ s = IF o.id = req[r].found THEN Extended(o, e) ELSE o
    BY <1>6
  <2>2. PICK u \in rows : /\ t.id = u.id
                          /\ t = IF u.id = req[r].found THEN Extended(u, e) ELSE u
    BY <1>6
  <2>3. o = u
    BY <1>5, <1>7, <2>1, <2>2
  <2> QED BY <2>1, <2>2, <2>3
<1>8. nextId' = nextId /\ \A s \in rows : s.id < nextId
  BY DEF TypeOK, SessionUpdate
<1> QED BY <1>1, <1>2, <1>3, <1>6, <1>7, <1>8 DEF RowsOK, TypeOK

\* What a granted session leaves of the history.
LEMMA Promised ==
    ASSUME TypeOK, NEW p \in Pair, NEW e \in Nat, NEW kept \in BOOLEAN,
           Promise(p, e, kept)
    PROVE  /\ promised' \in [Pair -> Nat]
           /\ lost' \subseteq Pair
           /\ UNCHANGED <<raced, registered, renewals>>
  BY DEF TypeOK, Promise

\* The steps of handlers that leave all but the handlers and history.
LEMMA HandlerType ==
    ASSUME TypeOK, NEW r \in Request, NEW h \in Handler \cup {Idle},
           Becomes(r, h)
    PROVE  req' \in [Request -> Handler \cup {Idle}]
  BY DEF TypeOK, Becomes

\* Every step keeps the types and the key.
THEOREM TypeStep == TypeOK /\ [Next]_vars => TypeOK'
<1> SUFFICES ASSUME TypeOK, [Next]_vars PROVE TypeOK'
  OBVIOUS
<1> USE DEF history
<1>1. ASSUME NEW r \in Request, NEW p \in Pair, NEW password \in Password,
             RegisterFind(r, p, password)
      PROVE  TypeOK'
  BY <1>1, Registers, HandlerType DEF TypeOK, RegisterFind
<1>2. ASSUME NEW r \in Request, NEW p \in Pair, LoginCheck(r, p)
      PROVE  TypeOK'
  BY <1>2, LogsIn, HandlerType DEF TypeOK, LoginCheck
<1>3. ASSUME NEW r \in Request, NEW t \in tokens, NEW a \in Agent,
             Authenticate(r, t, a, t.user)
      PROVE  TypeOK'
  BY <1>3, Authenticates, HandlerType DEF TypeOK, Authenticate
<1>4. ASSUME NEW r \in Request, RegisterCreate(r)
      PROVE  TypeOK'
  <2>1. req[r] \in Handler
    BY <1>4 DEF TypeOK, RegisterCreate, At
  <2>2. req[r].pair[1] \in User /\ req[r].password \in Password \cup {NoPassword}
    BY <2>1, HandlerFields DEF Pair
  <2>3. account' \in [User -> Password \cup {NoPassword}]
    BY <1>4, <2>2 DEF TypeOK, RegisterCreate
  <2>4. req' \in [Request -> Handler \cup {Idle}]
    <3>1. CASE Goes(r, "answer")
      BY <1>4, <3>1, GoesOn, HandlerType DEF PC, RegisterCreate, At
    <3>2. CASE Ends(r)
      BY <3>2, Ended, HandlerType
    <3> QED BY <1>4, <3>1, <3>2 DEF RegisterCreate
  <2> QED BY <1>4, <2>3, <2>4 DEF TypeOK, RegisterCreate
<1>5. ASSUME NEW r \in Request, Answer(r)
      PROVE  TypeOK'
  <2>1. req[r] \in Handler
    BY <1>5 DEF TypeOK, Answer, At
  <2>2. /\ req[r].pair \in Pair /\ req[r].pair[1] \in User
        /\ req[r].password \in Password \cup {NoPassword}
    BY <2>1, HandlerFields DEF Pair
  <2>3. tokens' \subseteq Token
    BY <1>5, <2>2, NewTokens DEF Answer
  <2>4. registered' \subseteq User \X Password
    BY <1>5, <2>2 DEF TypeOK, Answer
  <2> QED BY <1>5, <2>3, <2>4, Answered, HandlerType DEF TypeOK, Answer
<1>6. ASSUME NEW r \in Request, Renew(r)
      PROVE  TypeOK'
  <2>1. req[r].pair[1] \in User
    BY <1>6, HandlerFields DEF TypeOK, Renew, At, Pair
  <2>2. tokens' \subseteq Token
    BY <1>6, <2>1, NewTokens DEF Renew
  <2> QED BY <1>6, <2>2, Ended, HandlerType DEF TypeOK, Renew
<1>7. ASSUME NEW r \in Request, FindNothing(r)
      PROVE  TypeOK'
  <2>1. req[r].pair \in Pair
    BY <1>7, HandlerFields DEF TypeOK, FindNothing, At
  <2>2. raced' \subseteq Pair
    BY <1>7, <2>1 DEF TypeOK, FindNothing
  <2>3. \E h \in Handler : Becomes(r, h)
    BY <1>7, FoundNothing
  <2> QED BY <1>7, <2>2, <2>3, HandlerType DEF TypeOK, FindNothing
<1>8. ASSUME NEW r \in Request, FindSession(r)
      PROVE  TypeOK'
  BY <1>8, Found, HandlerType DEF TypeOK, FindSession
<1>9. ASSUME NEW r \in Request, SessionInsert(r)
      PROVE  TypeOK'
  <2>1. req[r].pair \in Pair
    BY <1>9, HandlerFields DEF TypeOK, SessionInsert, At
  <2>2. RowsOK' /\ \E e \in Nat : Promise(req[r].pair, e, TRUE)
    BY <1>9, InsertedRows
  <2>3. /\ promised' \in [Pair -> Nat] /\ lost' \subseteq Pair
        /\ UNCHANGED <<raced, registered, renewals>>
    BY <2>1, <2>2, Promised
  <2>4. req' \in [Request -> Handler \cup {Idle}]
    BY <1>9, After, HandlerType DEF SessionInsert, At
  <2>5. UNCHANGED <<now, account, tokens>>
    BY <1>9 DEF SessionInsert
  <2> QED BY <2>2, <2>3, <2>4, <2>5 DEF TypeOK, RowsOK
<1>10. ASSUME NEW r \in Request, SessionUpdate(r)
       PROVE  TypeOK'
  <2>1. req[r].pair \in Pair
    BY <1>10, HandlerFields DEF TypeOK, SessionUpdate, At
  <2>2. PICK e \in Nat, kept \in BOOLEAN : Promise(req[r].pair, e, kept)
    <3>1. (FoundBy(r) # {}) \in BOOLEAN
      OBVIOUS
    <3> QED BY <1>10, <3>1, UpdatedRows
  <2>3. /\ promised' \in [Pair -> Nat] /\ lost' \subseteq Pair
        /\ UNCHANGED <<raced, registered, renewals>>
    BY <2>1, <2>2, Promised
  <2>4. RowsOK'
    BY <1>10, UpdatedRows
  <2>5. req' \in [Request -> Handler \cup {Idle}]
    BY <1>10, After, HandlerType DEF SessionUpdate, At
  <2>6. UNCHANGED <<now, account, tokens>>
    BY <1>10 DEF SessionUpdate
  <2> QED BY <2>3, <2>4, <2>5, <2>6 DEF TypeOK, RowsOK
<1>11. ASSUME NEW r \in Request, Fails(r)
       PROVE  TypeOK'
  <2>1. CASE Ends(r)
    BY <1>11, <2>1, Ended, HandlerType DEF TypeOK, Fails
  <2>2. CASE AfterSession(r)
    BY <1>11, <2>2, After, HandlerType DEF TypeOK, Fails
  <2> QED BY <1>11, <2>1, <2>2 DEF Fails
<1>12. ASSUME NEW t \in tokens, NEW a \in Agent, HttpRenews(t, a)
       PROVE  TypeOK'
  <2>1. Active(<<t.user, a>>) \in BOOLEAN
    BY DEF Active
  <2>2. tokens' \subseteq Token
    BY <1>12, NewTokens DEF TypeOK, Token, HttpRenews
  <2> QED BY <1>12, <2>1, <2>2 DEF TypeOK, HttpRenews
<1>13. CASE Tick
  BY <1>13 DEF TypeOK, Tick
<1>14. CASE Sweep
  BY <1>14 DEF TypeOK, Sweep
<1>15. CASE UNCHANGED vars
  BY <1>15 DEF TypeOK, vars
<1> QED
  BY <1>1, <1>2, <1>3, <1>4, <1>5, <1>6, <1>7, <1>8, <1>9, <1>10, <1>11,
     <1>12, <1>13, <1>14, <1>15 DEF Next

\* The initial state has its type.
LEMMA TypeInit == Init => TypeOK
  BY DEF Init, TypeOK

\* Every state of Sessions has its type, and the identifier of a session is a
\* key of its table.
THEOREM TypeCorrect == Spec => []TypeOK
  BY TypeInit, TypeStep, PTL DEF Spec

-----------------------------------------------------------------------------
(* Registrations.                                                          *)

\* Between the creation of an account and the answer, the account is the
\* handler's.
Registering == \A r \in Request :
    At(r, "answer") /\ req[r].password # NoPassword
    => account[req[r].pair[1]] = req[r].password

RegisterInv == Registering /\ RegistrationKept

\* Steps of handlers that create no account and answer none.
LEMMA QuietRegister ==
    ASSUME TypeOK, RegisterInv, NEW r \in Request,
           NEW h \in Handler \cup {Idle}, Becomes(r, h),
           h # Idle => h.pc # "answer" \/ h.password = NoPassword,
           UNCHANGED <<account, registered>>
    PROVE  RegisterInv'
<1>1. /\ req'[r] = h
      /\ \A q \in Request : q # r => req'[q] = req[q]
  BY Effect
<1>2. Registering'
  BY <1>1 DEF RegisterInv, Registering, At
<1> QED BY <1>2 DEF RegisterInv, RegistrationKept

\* Every step keeps the accounts of handlers and of registrations.
THEOREM RegisterStep == TypeOK /\ RegisterInv /\ [Next]_vars => RegisterInv'
<1> SUFFICES ASSUME TypeOK, RegisterInv, [Next]_vars PROVE RegisterInv'
  OBVIOUS
<1> USE DEF history
<1>1. ASSUME NEW r \in Request, NEW p \in Pair, NEW password \in Password,
             RegisterFind(r, p, password)
      PROVE  RegisterInv'
  BY <1>1, Registers, QuietRegister DEF RegisterFind
<1>2. ASSUME NEW r \in Request, NEW p \in Pair, LoginCheck(r, p)
      PROVE  RegisterInv'
  BY <1>2, LogsIn, QuietRegister DEF LoginCheck
<1>3. ASSUME NEW r \in Request, NEW t \in tokens, NEW a \in Agent,
             Authenticate(r, t, a, t.user)
      PROVE  RegisterInv'
  BY <1>3, Authenticates, QuietRegister DEF Authenticate
<1>4. ASSUME NEW r \in Request, RegisterCreate(r)
      PROVE  RegisterInv'
  <2>1. req[r] \in Handler /\ req[r] # Idle
    BY <1>4 DEF TypeOK, RegisterCreate, At
  <2>2. CASE account[req[r].pair[1]] # NoPassword
    <3>1. Becomes(r, Idle) /\ UNCHANGED <<account, registered>>
      BY <1>4, <2>2, Ended DEF RegisterCreate
    <3> QED BY <3>1, QuietRegister
  <2>3. CASE account[req[r].pair[1]] = NoPassword
    <3>1. /\ account' = [account EXCEPT ![req[r].pair[1]] = req[r].password]
          /\ Goes(r, "answer") /\ UNCHANGED registered
      BY <1>4, <2>3 DEF RegisterCreate
    <3>2. PICK h \in Handler : /\ Becomes(r, h) /\ h.pair = req[r].pair
                               /\ h.password = req[r].password
      BY <2>1, <3>1, GoesOn DEF PC
    <3>3. /\ req'[r] = h
          /\ \A q \in Request : q # r => req'[q] = req[q]
      BY <3>2, Effect
    <3>4. req[r].pair[1] \in User
      BY <2>1, HandlerFields DEF Pair
    <3>5. account'[req[r].pair[1]] = req[r].password
      BY <3>1, <3>4 DEF TypeOK
    <3>6. \A u \in User : account[u] # NoPassword => account'[u] = account[u]
      BY <2>3, <3>1 DEF TypeOK
    <3>7. Registering'
      <4>1. SUFFICES ASSUME NEW q \in Request, At(q, "answer")',
                            req'[q].password # NoPassword
                     PROVE  account'[req'[q].pair[1]] = req'[q].password
        BY DEF Registering
      <4>2. CASE q = r
        BY <3>2, <3>3, <3>5, <4>2
      <4>3. CASE q # r
        <5>1. req'[q] = req[q]
          BY <3>3, <4>3
        <5>2. account[req[q].pair[1]] = req[q].password
          BY <4>1, <5>1 DEF RegisterInv, Registering, At
        <5>3. req[q].pair[1] \in User
          BY <4>1, <5>1, HandlerFields DEF TypeOK, At, Pair
        <5> QED BY <3>6, <4>1, <5>1, <5>2, <5>3
      <4> QED BY <4>2, <4>3
    <3>8. RegistrationKept'
      BY <3>1, <3>6 DEF RegisterInv, RegistrationKept, TypeOK
    <3> QED BY <3>7, <3>8 DEF RegisterInv
  <2> QED BY <2>2, <2>3
<1>5. ASSUME NEW r \in Request, Answer(r)
      PROVE  RegisterInv'
  <2>1. PICK h \in Handler : Becomes(r, h) /\ h.pc = "find"
    BY <1>5, Answered
  <2>2. /\ req'[r] = h
        /\ \A q \in Request : q # r => req'[q] = req[q]
    BY <2>1, Effect
  <2>3. UNCHANGED account
    BY <1>5 DEF Answer
  <2>4. Registering'
    BY <2>1, <2>2, <2>3 DEF RegisterInv, Registering, At
  <2>5. \A x \in registered' : account[x[1]] = x[2]
    BY <1>5 DEF Answer, RegisterInv, Registering, RegistrationKept
  <2> QED BY <2>3, <2>4, <2>5 DEF RegisterInv, RegistrationKept
<1>6. ASSUME NEW r \in Request, Renew(r)
      PROVE  RegisterInv'
  BY <1>6, Ended, QuietRegister DEF Renew
<1>7. ASSUME NEW r \in Request, FindNothing(r)
      PROVE  RegisterInv'
  <2>1. \E h \in Handler : Becomes(r, h) /\ h.pc = "insert"
    BY <1>7, FoundNothing
  <2> QED BY <1>7, <2>1, QuietRegister DEF FindNothing
<1>8. ASSUME NEW r \in Request, FindSession(r)
      PROVE  RegisterInv'
  BY <1>8, Found, QuietRegister DEF FindSession
<1>9. ASSUME NEW r \in Request, SessionInsert(r)
      PROVE  RegisterInv'
  <2>1. \E h \in Handler \cup {Idle} :
          Becomes(r, h) /\ (h # Idle => h.pc = "renew")
    BY <1>9, After DEF SessionInsert, At
  <2> QED BY <1>9, <2>1, QuietRegister DEF SessionInsert, Promise
<1>10. ASSUME NEW r \in Request, SessionUpdate(r)
       PROVE  RegisterInv'
  <2>1. \E h \in Handler \cup {Idle} :
          Becomes(r, h) /\ (h # Idle => h.pc = "renew")
    BY <1>10, After DEF SessionUpdate, At
  <2> QED BY <1>10, <2>1, QuietRegister DEF SessionUpdate, Promise
<1>11. ASSUME NEW r \in Request, Fails(r)
       PROVE  RegisterInv'
  <2>1. \E h \in Handler \cup {Idle} :
          Becomes(r, h) /\ (h # Idle => h.pc = "renew")
    BY <1>11, After, Ended DEF Fails
  <2> QED BY <1>11, <2>1, QuietRegister DEF Fails
<1>12. CASE UNCHANGED <<account, registered, req>>
  BY <1>12 DEF RegisterInv, Registering, RegistrationKept, At
<1>13. (\E t \in tokens, a \in Agent : HttpRenews(t, a))
         \/ Tick \/ Sweep \/ UNCHANGED vars
       => UNCHANGED <<account, registered, req>>
  BY DEF HttpRenews, Tick, Sweep, vars
<1> QED
  BY <1>1, <1>2, <1>3, <1>4, <1>5, <1>6, <1>7, <1>8, <1>9, <1>10, <1>11,
     <1>12, <1>13 DEF Next

\* At first nobody has registered.
LEMMA RegisterInit == Init => RegisterInv
  BY DEF Init, RegisterInv, Registering, RegistrationKept, At

\* Whoever was told that an account is created has it, for any number of
\* registrations of the username at the same time.
THEOREM RegistrationsKept == Spec => []RegistrationKept
<1>1. RegisterInv => RegistrationKept
  BY DEF RegisterInv
<1> QED BY <1>1, RegisterInit, RegisterStep, TypeCorrect, PTL DEF Spec

-----------------------------------------------------------------------------
(* One session of a user and an agent.                                     *)

\* Of two handlers that will insert a session of the same pair, or one that
\* will although there is a session by now, it is remembered.
Inserting == \A r \in Request : At(r, "insert") =>
    /\ \A s \in rows : s.pair = req[r].pair => req[r].pair \in raced
    /\ \A o \in Request \ {r} :
         At(o, "insert") /\ req[o].pair = req[r].pair => req[r].pair \in raced

OneInv == Inserting /\ OneSessionEach

\* Only FindNothing makes a handler insert a session.
NoNewInsert == \A q \in Request : At(q, "insert")' => req'[q] = req[q]

\* A handler that goes anywhere but to insert.
LEMMA NotInserting ==
    ASSUME TypeOK, NEW r \in Request, NEW h \in Handler \cup {Idle},
           Becomes(r, h), h # Idle => h.pc # "insert"
    PROVE  NoNewInsert
  BY Effect DEF NoNewInsert, At

\* Steps after which every session is one that was there, maybe extended.
SameSessions ==
    \A s \in rows' : \E o \in rows : s.id = o.id /\ s.pair = o.pair

\* Steps that insert no session and make no handler do it.
LEMMA QuietOne ==
    ASSUME OneInv, TypeOK', NoNewInsert, SameSessions, UNCHANGED raced
    PROVE  OneInv'
<1>1. Inserting'
  <2>1. SUFFICES ASSUME NEW r \in Request, At(r, "insert")'
                 PROVE  /\ \A s \in rows' :
                             s.pair = req'[r].pair => req'[r].pair \in raced
                        /\ \A o \in Request \ {r} :
                             At(o, "insert")' /\ req'[o].pair = req'[r].pair
                             => req'[r].pair \in raced
    BY DEF Inserting
  <2>2. req'[r] = req[r] /\ At(r, "insert")
    BY <2>1 DEF NoNewInsert, At
  <2>3. \A s \in rows' : s.pair = req[r].pair => req[r].pair \in raced
    BY <2>2 DEF OneInv, Inserting, SameSessions
  <2>4. ASSUME NEW o \in Request \ {r}, At(o, "insert")',
               req'[o].pair = req[r].pair
        PROVE  req[r].pair \in raced
    <3>1. req'[o] = req[o] /\ At(o, "insert")
      BY <2>4 DEF NoNewInsert, At
    <3> QED BY <2>2, <2>4, <3>1 DEF OneInv, Inserting
  <2> QED BY <2>2, <2>3, <2>4
<1>2. OneSessionEach'
  <2>1. SUFFICES ASSUME NEW s \in rows', NEW t \in rows', s.pair = t.pair,
                        s.pair \notin raced
                 PROVE  s = t
    BY DEF OneSessionEach
  <2>2. PICK o \in rows : s.id = o.id /\ s.pair = o.pair
    BY DEF SameSessions
  <2>3. PICK u \in rows : t.id = u.id /\ t.pair = u.pair
    BY DEF SameSessions
  <2>4. o = u
    BY <2>1, <2>2, <2>3 DEF OneInv, OneSessionEach
  <2> QED BY <2>2, <2>3, <2>4 DEF TypeOK
<1> QED BY <1>1, <1>2 DEF OneInv

\* A table that is left alone has the same sessions.
LEMMA UnchangedRows == UNCHANGED rows => SameSessions
  BY DEF SameSessions

\* SessionUpdate leaves the same sessions.
LEMMA ExtendedSessions ==
    ASSUME TypeOK, NEW r \in Request, SessionUpdate(r)
    PROVE  SameSessions
<1>1. PICK e \in Nat :
        rows' = {s \in rows : s.id # req[r].found}
                \cup {Extended(s, e) : s \in FoundBy(r)}
  BY UpdatedRows
<1>2. \A s \in rows : /\ Extended(s, e).id = s.id
                       /\ Extended(s, e).pair = s.pair
  BY DEF Extended, TypeOK, Row
<1> QED BY <1>1, <1>2 DEF SameSessions, FoundBy

\* Every step keeps one session of each pair, or remembers the race.
THEOREM OneStep == TypeOK /\ TypeOK' /\ OneInv /\ [Next]_vars => OneInv'
<1> SUFFICES ASSUME TypeOK, TypeOK', OneInv, [Next]_vars PROVE OneInv'
  OBVIOUS
<1> USE DEF history
<1>1. ASSUME NEW r \in Request, NEW p \in Pair, NEW password \in Password,
             RegisterFind(r, p, password)
      PROVE  OneInv'
  BY <1>1, Registers, NotInserting, UnchangedRows, QuietOne DEF RegisterFind
<1>2. ASSUME NEW r \in Request, NEW p \in Pair, LoginCheck(r, p)
      PROVE  OneInv'
  BY <1>2, LogsIn, NotInserting, UnchangedRows, QuietOne DEF LoginCheck
<1>3. ASSUME NEW r \in Request, NEW t \in tokens, NEW a \in Agent,
             Authenticate(r, t, a, t.user)
      PROVE  OneInv'
  BY <1>3, Authenticates, NotInserting, UnchangedRows, QuietOne
     DEF Authenticate
<1>4. ASSUME NEW r \in Request, RegisterCreate(r)
      PROVE  OneInv'
  <2>1. CASE Goes(r, "answer")
    BY <1>4, <2>1, GoesOn, NotInserting, UnchangedRows, QuietOne
       DEF PC, RegisterCreate, At
  <2>2. CASE Ends(r)
    BY <1>4, <2>2, Ended, NotInserting, UnchangedRows, QuietOne
       DEF RegisterCreate
  <2> QED BY <1>4, <2>1, <2>2 DEF RegisterCreate
<1>5. ASSUME NEW r \in Request, Answer(r)
      PROVE  OneInv'
  BY <1>5, Answered, NotInserting, UnchangedRows, QuietOne DEF Answer
<1>6. ASSUME NEW r \in Request, Renew(r)
      PROVE  OneInv'
  BY <1>6, Ended, NotInserting, UnchangedRows, QuietOne DEF Renew
<1>7. ASSUME NEW r \in Request, FindNothing(r)
      PROVE  OneInv'
  <2> DEFINE p == req[r].pair
  <2>1. PICK h \in Handler :
          Becomes(r, h) /\ h.pc = "insert" /\ h.pair = p
    BY <1>7, FoundNothing
  <2>2. /\ req'[r] = h
        /\ \A q \in Request : q # r => req'[q] = req[q]
    BY <2>1, Effect
  <2>3. /\ UNCHANGED rows /\ \A s \in rows : s.pair # p
        /\ raced \subseteq raced'
        /\ (\E o \in Request \ {r} : At(o, "insert") /\ req[o].pair = p)
           => p \in raced'
    BY <1>7 DEF FindNothing, SessionsOf
  <2>4. Inserting'
    <3>1. SUFFICES ASSUME NEW q \in Request, At(q, "insert")'
                   PROVE  /\ \A s \in rows :
                               s.pair = req'[q].pair => req'[q].pair \in raced'
                          /\ \A o \in Request \ {q} :
                               At(o, "insert")' /\ req'[o].pair = req'[q].pair
                               => req'[q].pair \in raced'
      BY <2>3 DEF Inserting
    <3>2. CASE q = r
      BY <2>1, <2>2, <2>3, <3>2 DEF At
    <3>3. CASE q # r
      <4>1. req'[q] = req[q] /\ At(q, "insert")
        BY <2>2, <3>1, <3>3 DEF At
      <4>2. \A s \in rows : s.pair = req[q].pair => req[q].pair \in raced'
        BY <2>3, <4>1 DEF OneInv, Inserting
      <4>3. ASSUME NEW o \in Request \ {q}, At(o, "insert")',
                   req'[o].pair = req[q].pair
            PROVE  req[q].pair \in raced'
        <5>1. CASE o = r
          BY <2>1, <2>2, <2>3, <3>3, <4>1, <4>3, <5>1
        <5>2. CASE o # r
          <6>1. req'[o] = req[o] /\ At(o, "insert")
            BY <2>2, <4>3, <5>2 DEF At
          <6> QED BY <2>3, <4>1, <4>3, <6>1 DEF OneInv, Inserting
        <5> QED BY <5>1, <5>2
      <4> QED BY <4>1, <4>2, <4>3
    <3> QED BY <3>2, <3>3
  <2>5. OneSessionEach'
    BY <2>3 DEF OneInv, OneSessionEach
  <2> QED BY <2>4, <2>5 DEF OneInv
<1>8. ASSUME NEW r \in Request, FindSession(r)
      PROVE  OneInv'
  BY <1>8, Found, NotInserting, UnchangedRows, QuietOne DEF FindSession
<1>9. ASSUME NEW r \in Request, SessionInsert(r)
      PROVE  OneInv'
  <2> DEFINE p == req[r].pair
  <2>0. PICK e \in Nat : rows' = rows \cup {New(r, e)} /\ Promise(p, e, TRUE)
    BY <1>9, InsertedRows
  <2> DEFINE new == New(r, e)
  <2>1. PICK h \in Handler \cup {Idle} :
          Becomes(r, h) /\ (h # Idle => h.pc = "renew")
    BY <1>9, After DEF SessionInsert, At
  <2>2. /\ req'[r] = h
        /\ \A q \in Request : q # r => req'[q] = req[q]
    BY <2>1, Effect
  <2>3. rows' = rows \cup {new} /\ new.pair = p /\ UNCHANGED raced
    BY <2>0 DEF Promise, New
  <2>4. \A s \in rows : s.pair = p => p \in raced
    BY <1>9 DEF SessionInsert, OneInv, Inserting
  <2>5. \A o \in Request \ {r} :
          At(o, "insert") /\ req[o].pair = p => p \in raced
    BY <1>9 DEF SessionInsert, OneInv, Inserting
  <2>6. Inserting'
    <3>1. SUFFICES ASSUME NEW q \in Request, At(q, "insert")'
                   PROVE  /\ \A s \in rows' :
                               s.pair = req'[q].pair => req'[q].pair \in raced
                          /\ \A o \in Request \ {q} :
                               At(o, "insert")' /\ req'[o].pair = req'[q].pair
                               => req'[q].pair \in raced
      BY <2>3 DEF Inserting
    <3>2. q # r /\ req'[q] = req[q] /\ At(q, "insert")
      BY <2>1, <2>2, <3>1 DEF At
    <3>3. \A s \in rows' : s.pair = req[q].pair => req[q].pair \in raced
      BY <2>3, <2>5, <3>2 DEF OneInv, Inserting
    <3>4. ASSUME NEW o \in Request \ {q}, At(o, "insert")',
                 req'[o].pair = req[q].pair
          PROVE  req[q].pair \in raced
      <4>1. o # r /\ req'[o] = req[o] /\ At(o, "insert")
        BY <2>1, <2>2, <3>4 DEF At
      <4> QED BY <3>2, <3>4, <4>1 DEF OneInv, Inserting
    <3> QED BY <3>2, <3>3, <3>4
  <2>7. OneSessionEach'
    BY <2>3, <2>4 DEF OneInv, OneSessionEach
  <2> QED BY <2>6, <2>7 DEF OneInv
<1>10. ASSUME NEW r \in Request, SessionUpdate(r)
       PROVE  OneInv'
  <2>1. NoNewInsert
    BY <1>10, After, NotInserting DEF SessionUpdate, At
  <2> QED BY <1>10, <2>1, ExtendedSessions, QuietOne DEF SessionUpdate, Promise
<1>11. ASSUME NEW r \in Request, Fails(r)
       PROVE  OneInv'
  <2>1. NoNewInsert
    BY <1>11, After, Ended, NotInserting DEF Fails
  <2> QED BY <1>11, <2>1, UnchangedRows, QuietOne DEF Fails
<1>12. CASE (\E t \in tokens, a \in Agent : HttpRenews(t, a))
              \/ Tick \/ Sweep \/ UNCHANGED vars
  <2>1. NoNewInsert
    BY <1>12 DEF NoNewInsert, HttpRenews, Tick, Sweep, vars
  <2>2. SameSessions /\ UNCHANGED raced
    BY <1>12 DEF SameSessions, HttpRenews, Tick, Sweep, vars
  <2> QED BY <2>1, <2>2, QuietOne
<1> QED
  BY <1>1, <1>2, <1>3, <1>4, <1>5, <1>6, <1>7, <1>8, <1>9, <1>10, <1>11,
     <1>12 DEF Next

\* At first there is no session.
LEMMA OneInit == Init => OneInv
  BY DEF Init, OneInv, Inserting, OneSessionEach, At

\* A user has one session with an agent, unless two handlers looked for it
\* before either inserted its own, for any number of handlers.
THEOREM OneSession == Spec => []OneSessionEach
<1>1. OneInv => OneSessionEach
  BY DEF OneInv
<1> QED BY <1>1, OneInit, OneStep, TypeCorrect, PTL DEF Spec

-----------------------------------------------------------------------------
(* A session lasts as long as it was granted.                              *)

\* The identifier a handler will update is not given to another pair.
Updating == \A r \in Request : At(r, "update") =>
    /\ req[r].found < nextId
    /\ \A s \in rows : s.id = req[r].found => s.pair = req[r].pair

KeptInv == Updating /\ SessionKept

\* Only FindSession makes a handler update a session.
NoNewUpdate == \A q \in Request : At(q, "update")' => req'[q] = req[q]

\* A handler that goes anywhere but to update.
LEMMA NotUpdating ==
    ASSUME TypeOK, NEW r \in Request, NEW h \in Handler \cup {Idle},
           Becomes(r, h), h # Idle => h.pc # "update"
    PROVE  NoNewUpdate
  BY Effect DEF NoNewUpdate, At

\* Handlers that were updating still are of use when every session was there
\* or is new.
LEMMA StillUpdating ==
    ASSUME TypeOK, Updating, NoNewUpdate, nextId' \in Nat, nextId <= nextId',
           \A s \in rows' : s.id = nextId
             \/ \E o \in rows : s.id = o.id /\ s.pair = o.pair
    PROVE  Updating'
<1>1. SUFFICES ASSUME NEW r \in Request, At(r, "update")'
               PROVE  /\ req'[r].found < nextId'
                      /\ \A s \in rows' :
                           s.id = req'[r].found => s.pair = req'[r].pair
  BY DEF Updating
<1>2. req'[r] = req[r] /\ At(r, "update")
  BY <1>1 DEF NoNewUpdate, At
<1>3. req[r].found \in Nat /\ nextId \in Nat
  BY <1>2, HandlerFields DEF TypeOK, At
<1>4. req[r].found < nextId
  BY <1>2 DEF Updating
<1>5. req[r].found < nextId' /\ req[r].found # nextId
  BY <1>3, <1>4
<1>6. \A o \in rows : o.id = req[r].found => o.pair = req[r].pair
  BY <1>2 DEF Updating
<1> QED BY <1>2, <1>5, <1>6

\* Steps that leave the sessions, what was granted and the clock.
LEMMA QuietKept ==
    ASSUME TypeOK, KeptInv, NoNewUpdate,
           UNCHANGED <<now, rows, nextId, promised, lost>>
    PROVE  KeptInv'
<1>1. Updating'
  BY StillUpdating DEF KeptInv, TypeOK
<1>2. SessionKept'
  BY DEF KeptInv, SessionKept, SessionsOf
<1> QED BY <1>1, <1>2 DEF KeptInv

\* Every step keeps every session that was granted.
THEOREM KeptStep == TypeOK /\ KeptInv /\ [Next]_vars => KeptInv'
<1> SUFFICES ASSUME TypeOK, KeptInv, [Next]_vars PROVE KeptInv'
  OBVIOUS
<1> USE DEF history
<1>1. ASSUME NEW r \in Request, NEW p \in Pair, NEW password \in Password,
             RegisterFind(r, p, password)
      PROVE  KeptInv'
  BY <1>1, Registers, NotUpdating, QuietKept DEF RegisterFind
<1>2. ASSUME NEW r \in Request, NEW p \in Pair, LoginCheck(r, p)
      PROVE  KeptInv'
  BY <1>2, LogsIn, NotUpdating, QuietKept DEF LoginCheck
<1>3. ASSUME NEW r \in Request, NEW t \in tokens, NEW a \in Agent,
             Authenticate(r, t, a, t.user)
      PROVE  KeptInv'
  BY <1>3, Authenticates, NotUpdating, QuietKept DEF Authenticate
<1>4. ASSUME NEW r \in Request, RegisterCreate(r)
      PROVE  KeptInv'
  <2>1. NoNewUpdate
    <3>1. CASE Goes(r, "answer")
      BY <1>4, <3>1, GoesOn, NotUpdating DEF PC, RegisterCreate, At
    <3>2. CASE Ends(r)
      BY <3>2, Ended, NotUpdating
    <3> QED BY <1>4, <3>1, <3>2 DEF RegisterCreate
  <2> QED BY <1>4, <2>1, QuietKept DEF RegisterCreate
<1>5. ASSUME NEW r \in Request, Answer(r)
      PROVE  KeptInv'
  BY <1>5, Answered, NotUpdating, QuietKept DEF Answer
<1>6. ASSUME NEW r \in Request, Renew(r)
      PROVE  KeptInv'
  BY <1>6, Ended, NotUpdating, QuietKept DEF Renew
<1>7. ASSUME NEW r \in Request, FindNothing(r)
      PROVE  KeptInv'
  BY <1>7, FoundNothing, NotUpdating, QuietKept DEF FindNothing
<1>8. ASSUME NEW r \in Request, FindSession(r)
      PROVE  KeptInv'
  <2>1. PICK f \in rows, h \in Handler :
          /\ Becomes(r, h) /\ h.pc = "update" /\ h.found = f.id
          /\ f.pair = req[r].pair /\ h.pair = req[r].pair
    BY <1>8, Found
  <2>2. /\ req'[r] = h
        /\ \A q \in Request : q # r => req'[q] = req[q]
    BY <2>1, Effect
  <2>3. UNCHANGED <<now, rows, nextId, promised, lost>>
    BY <1>8 DEF FindSession
  <2>4. h.found < nextId /\ \A s \in rows : s.id = h.found => s.pair = h.pair
    BY <2>1 DEF TypeOK
  <2>5. Updating'
    BY <2>2, <2>3, <2>4 DEF KeptInv, Updating, At
  <2>6. SessionKept'
    BY <2>3 DEF KeptInv, SessionKept, SessionsOf
  <2> QED BY <2>5, <2>6 DEF KeptInv
<1>9. ASSUME NEW r \in Request, SessionInsert(r)
      PROVE  KeptInv'
  <2> DEFINE p == req[r].pair
  <2>0. PICK e \in Nat : rows' = rows \cup {New(r, e)} /\ Promise(p, e, TRUE)
    BY <1>9, InsertedRows
  <2> DEFINE new == New(r, e)
  <2>1. NoNewUpdate
    BY <1>9, After, NotUpdating DEF SessionInsert, At
  <2>2. /\ rows' = rows \cup {new} /\ new.id = nextId /\ new.pair = p
        /\ new.expires = e /\ nextId' = nextId + 1 /\ UNCHANGED now
    BY <1>9, <2>0 DEF SessionInsert, New
  <2>3. /\ promised' = [promised EXCEPT ![p] = e]
        /\ lost' = lost \ {p}
    BY <2>0 DEF Promise
  <2>4. nextId' \in Nat /\ nextId <= nextId'
    BY <2>2 DEF TypeOK
  <2>5. Updating'
    BY <2>1, <2>2, <2>4, StillUpdating DEF KeptInv
  <2>6. ASSUME NEW q \in Pair, promised'[q] >= now, q \notin lost'
        PROVE  \E s \in rows' : s.pair = q /\ s.expires >= promised'[q]
    <3>1. CASE q = p
      <4>1. promised'[q] = e
        BY <2>3, <3>1 DEF TypeOK
      <4>2. new \in rows'
        BY <2>2
      <4>3. new.expires >= promised'[q]
        BY <2>2, <4>1
      <4> QED BY <2>2, <3>1, <4>2, <4>3
    <3>2. CASE q # p
      <4>1. promised'[q] = promised[q] /\ q \notin lost
        BY <2>3, <2>6, <3>2 DEF TypeOK
      <4> QED BY <2>2, <2>6, <4>1 DEF KeptInv, SessionKept, SessionsOf
    <3> QED BY <3>1, <3>2
  <2> QED BY <2>2, <2>5, <2>6 DEF KeptInv, SessionKept, SessionsOf
<1>10. ASSUME NEW r \in Request, SessionUpdate(r)
       PROVE  KeptInv'
  <2> DEFINE p == req[r].pair
             found == FoundBy(r)
  <2>1. NoNewUpdate
    BY <1>10, After, NotUpdating DEF SessionUpdate, At
  <2>2. PICK e \in Nat :
          /\ rows' = {s \in rows : s.id # req[r].found}
                     \cup {Extended(s, e) : s \in found}
          /\ Promise(p, e, found # {})
    BY <1>10, UpdatedRows
  <2>3. /\ UNCHANGED <<now, nextId>>
        /\ promised' = [promised EXCEPT ![p] = e]
        /\ lost' = IF found # {} THEN lost \ {p} ELSE lost \cup {p}
    BY <1>10, <2>2 DEF SessionUpdate, Promise
  <2>4. \A s \in found : s \in rows /\ s.pair = p
    BY <1>10 DEF KeptInv, Updating, SessionUpdate, FoundBy
  <2>5. Updating'
    <3>1. SameSessions
      BY <1>10, ExtendedSessions
    <3> QED BY <2>1, <2>3, <3>1, StillUpdating DEF KeptInv, SameSessions, TypeOK
  <2>6. ASSUME NEW q \in Pair, promised'[q] >= now, q \notin lost'
        PROVE  \E s \in rows' : s.pair = q /\ s.expires >= promised'[q]
    <3>1. CASE q = p
      <4>1. promised'[q] = e
        BY <2>3, <3>1 DEF TypeOK
      <4>2. PICK s \in found : TRUE
        BY <2>3, <2>6, <3>1
      <4>3. Extended(s, e) \in rows'
        BY <2>2
      <4>4. Extended(s, e).pair = p /\ Extended(s, e).expires = e
        BY <2>4 DEF Extended, TypeOK, Row
      <4> QED BY <3>1, <4>1, <4>3, <4>4
    <3>2. CASE q # p
      <4>1. promised'[q] = promised[q] /\ q \notin lost
        BY <2>3, <2>6, <3>2 DEF TypeOK
      <4>2. PICK s \in rows : s.pair = q /\ s.expires >= promised[q]
        BY <2>6, <4>1 DEF KeptInv, SessionKept, SessionsOf
      <4>3. s \in rows'
        BY <2>2, <2>4, <3>2, <4>2 DEF FoundBy
      <4> QED BY <4>1, <4>2, <4>3
    <3> QED BY <3>1, <3>2
  <2> QED BY <2>3, <2>5, <2>6 DEF KeptInv, SessionKept, SessionsOf
<1>11. ASSUME NEW r \in Request, Fails(r)
       PROVE  KeptInv'
  <2>1. NoNewUpdate
    BY <1>11, After, Ended, NotUpdating DEF Fails
  <2> QED BY <1>11, <2>1, QuietKept DEF Fails
<1>12. ASSUME NEW t \in tokens, NEW a \in Agent, HttpRenews(t, a)
       PROVE  KeptInv'
  BY <1>12, QuietKept DEF HttpRenews, NoNewUpdate
<1>13. CASE Tick
  <2>1. now' = now + 1 /\ UNCHANGED <<rows, nextId, req, promised, lost>>
    BY <1>13 DEF Tick
  <2>2. Updating'
    BY <2>1 DEF KeptInv, Updating, At
  <2>3. \A p \in Pair : promised[p] >= now' => promised[p] >= now
    BY <2>1 DEF TypeOK
  <2>4. SessionKept'
    BY <2>1, <2>3 DEF KeptInv, SessionKept, SessionsOf
  <2> QED BY <2>2, <2>4 DEF KeptInv
<1>14. CASE Sweep
  <2>1. /\ rows' = {s \in rows : s.expires >= now}
        /\ UNCHANGED <<now, nextId, req, promised, lost>>
    BY <1>14 DEF Sweep
  <2>2. Updating'
    BY <2>1 DEF KeptInv, Updating, At
  <2>3. ASSUME NEW p \in Pair, promised[p] >= now, p \notin lost
        PROVE  \E s \in rows' : s.pair = p /\ s.expires >= promised[p]
    <3>1. PICK s \in rows : s.pair = p /\ s.expires >= promised[p]
      BY <2>3 DEF KeptInv, SessionKept, SessionsOf
    <3>2. s.expires \in Nat /\ promised[p] \in Nat /\ now \in Nat
      BY DEF TypeOK, Row
    <3> QED BY <2>1, <2>3, <3>1, <3>2
  <2> QED BY <2>1, <2>2, <2>3 DEF KeptInv, SessionKept, SessionsOf
<1>15. CASE UNCHANGED vars
  BY <1>15, QuietKept DEF vars, NoNewUpdate
<1> QED
  BY <1>1, <1>2, <1>3, <1>4, <1>5, <1>6, <1>7, <1>8, <1>9, <1>10, <1>11,
     <1>12, <1>13, <1>14, <1>15 DEF Next

\* At first nothing was granted.
LEMMA KeptInit == Init => KeptInv
  BY DEF Init, KeptInv, Updating, SessionKept, At

\* A session lasts as long as it was last granted unless it was swept while it
\* was being extended, for any clock and any number of handlers.
THEOREM SessionsKept == Spec => []SessionKept
<1>1. KeptInv => SessionKept
  BY DEF KeptInv
<1> QED BY <1>1, KeptInit, KeptStep, TypeCorrect, PTL DEF Spec
=============================================================================
