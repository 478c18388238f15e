--------------------------- MODULE WsClientProofs ---------------------------
(***************************************************************************)
(* What WsClient promises for any number of users, sockets, attempts and   *)
(* timers.  The services are functions on a record of what they keep; the  *)
(* lemmas say what each makes of a record.                                 *)
(***************************************************************************)
EXTENDS WsClient, TLAPS

USE ClientAssumption

-----------------------------------------------------------------------------
(* Records of the services.                                                *)

SockState == {"closed", "connecting", "open", "closing"}
Answer == {"none", "renewed", "Auth_failed"}
SockType == [state : SockState, served : BOOLEAN,
             asked : User \cup {NoUser}, who : User \cup {NoUser},
             answer : Answer, stray : BOOLEAN]
ServiceType == [token : User \cup {NoUser}, user : User \cup {NoUser},
                socket : Socket \cup {NoSocket},
                sock : [Socket -> SockType], reconnecting : BOOLEAN]

\* No socket but the current one is connecting, and one that is has not been
\* used; another open one that the server may route to is a stray.
Behind(b) == \A s \in Socket :
    /\ b.sock[s].state = "connecting" =>
         /\ s = b.socket /\ ~b.sock[s].stray
         /\ b.sock[s].asked = NoUser /\ b.sock[s].who = NoUser
    /\ b.sock[s].state = "open" /\ s # b.socket
       /\ (b.sock[s].asked # NoUser \/ b.sock[s].who # NoUser)
       => b.sock[s].stray

\* The current socket is the user's, or a stray.
Mine(b) ==
    Open(b) /\ ~b.sock[b.socket].stray =>
      /\ b.user # NoUser
      /\ b.sock[b.socket].asked \in {NoUser, b.user}
      /\ b.sock[b.socket].who \in {NoUser, b.user}

\* Nothing is lost when the current socket is left behind.
Leavable(b) ==
    Open(b) /\ (b.sock[b.socket].asked # NoUser
                \/ b.sock[b.socket].who # NoUser)
    => b.sock[b.socket].stray

LEMMA NewSockets ==
    /\ Closed \in SockType /\ Connecting \in SockType
    /\ Closed.state = "closed" /\ Connecting.state = "connecting"
    /\ ~Closed.served /\ ~Connecting.stray
    /\ Connecting.asked = NoUser /\ Connecting.who = NoUser
  BY DEF Closed, Connecting, SockType, SockState, Answer

LEMMA Shuts ==
    ASSUME NEW r \in SockType
    PROVE  /\ Shut(r) \in SockType /\ Shut(r).state = "closed"
           /\ Shut(r).served <=> r.served
<1>1. CASE r.served
  BY <1>1 DEF Shut, SockType, SockState, Answer
<1>2. CASE ~r.served
  BY <1>2, NewSockets DEF Shut
<1>. QED BY <1>1, <1>2

\* What becomes of the socket that is no longer listened to.
LEMMA Formers ==
    ASSUME NEW b \in ServiceType
    PROVE  /\ Former(b) \in ServiceType
           /\ Former(b).token = b.token /\ Former(b).user = b.user
           /\ Former(b).socket = b.socket
           /\ \A s \in Socket :
                /\ s # b.socket => Former(b).sock[s] = b.sock[s]
                /\ Former(b).sock[s].served <=> b.sock[s].served
           /\ b.socket # NoSocket =>
                \/ /\ Former(b).sock[b.socket].state = "open" /\ Open(b)
                   /\ Former(b).sock[b.socket].asked = b.sock[b.socket].asked
                   /\ Former(b).sock[b.socket].who = b.sock[b.socket].who
                   /\ Former(b).sock[b.socket].stray <=> b.sock[b.socket].stray
                \/ Former(b).sock[b.socket].state = "closed" /\ ~Open(b)
<1>1. CASE b.socket = NoSocket
  BY <1>1 DEF Former
<1>2. CASE b.socket # NoSocket
  <2>1. b.socket \in Socket /\ b.sock[b.socket] \in SockType
    BY <1>2 DEF ServiceType
  <2>2. PICK r : r = IF Open(b) THEN [b.sock[b.socket] EXCEPT !.answer = "none"]
                     ELSE Shut(b.sock[b.socket])
    OBVIOUS
  <2>3. /\ r \in SockType
        /\ r.served <=> b.sock[b.socket].served
        /\ Open(b) => /\ r.state = "open"
                      /\ r.asked = b.sock[b.socket].asked
                      /\ r.who = b.sock[b.socket].who
                      /\ r.stray <=> b.sock[b.socket].stray
        /\ ~Open(b) => r.state = "closed"
    <3>1. CASE Open(b)
      BY <3>1, <2>1, <2>2 DEF Open, SockType, Answer
    <3>2. CASE ~Open(b)
      BY <3>2, <2>1, <2>2, Shuts
    <3>. QED BY <3>1, <3>2
  <2>4. Former(b) = [b EXCEPT !.sock = [b.sock EXCEPT ![b.socket] = r]]
    BY <1>2, <2>1, <2>2 DEF Former, ServiceType
  <2>5. PICK c : c = [b EXCEPT !.sock = [b.sock EXCEPT ![b.socket] = r]]
    OBVIOUS
  <2>6. /\ c \in ServiceType
        /\ c.token = b.token /\ c.user = b.user /\ c.socket = b.socket
        /\ c.sock[b.socket] = r
        /\ \A s \in Socket : s # b.socket => c.sock[s] = b.sock[s]
    BY <2>1, <2>3, <2>5 DEF ServiceType
  <2>. QED BY <2>1, <2>3, <2>4, <2>5, <2>6
<1>. QED BY <1>1, <1>2

\* Whether there is a socket to connect with depends on the sockets only.
LEMMA Room ==
    ASSUME NEW b \in ServiceType
    PROVE  Unused(Former(b)) =
             {s \in Socket : /\ ~b.sock[s].served
                             /\ \/ b.sock[s].state = "closed"
                                \/ s = b.socket /\ b.sock[s].state # "open"}
<1>1. ASSUME NEW s \in Socket
      PROVE  Former(b).sock[s].state = "closed" <=>
               \/ b.sock[s].state = "closed"
               \/ s = b.socket /\ b.sock[s].state # "open"
  <2>1. CASE s = b.socket
    <3>1. b.socket # NoSocket
      BY <2>1
    <3>. QED BY <2>1, <3>1, Formers DEF Open
  <2>2. CASE s # b.socket
    BY <2>2, Formers
  <2>. QED BY <2>1, <2>2
<1>2. \A s \in Socket : Former(b).sock[s].served <=> b.sock[s].served
  BY Formers
<1>. QED BY <1>1, <1>2 DEF Unused

LEMMA SameRoom ==
    ASSUME NEW b \in ServiceType, NEW c \in ServiceType,
           c.socket = b.socket, MayConnect(b),
           \A s \in Socket : /\ c.sock[s].state = b.sock[s].state
                             /\ c.sock[s].served <=> b.sock[s].served
    PROVE  MayConnect(c)
  BY Room DEF MayConnect

\* connect leaves the former socket behind and makes a new one, which is
\* connecting.
LEMMA Connects ==
    ASSUME NEW b \in ServiceType, Behind(b), Leavable(b), MayConnect(b)
    PROVE  /\ connect(b) \in ServiceType
           /\ connect(b).token = b.token /\ connect(b).user = b.user
           /\ connect(b).socket \in Socket
           /\ connect(b).sock[connect(b).socket] = Connecting
           /\ Behind(connect(b))
           /\ ~Open(connect(b))
<1>1. PICK former : former = Former(b)
  OBVIOUS
<1>2. PICK new : new = CHOOSE s \in Unused(former) : TRUE
  OBVIOUS
<1>3. PICK made : made = [former EXCEPT !.socket = new, !.sock[new] = Connecting]
  OBVIOUS
<1>4. new \in Socket /\ former.sock[new].state = "closed"
  <2>1. Unused(former) # {}
    BY <1>1 DEF MayConnect
  <2>2. new \in Unused(former)
    BY <1>2, <2>1
  <2>. QED BY <2>2 DEF Unused
<1>5. /\ former \in ServiceType
      /\ former.token = b.token /\ former.user = b.user
      /\ former.socket = b.socket
      /\ \A s \in Socket : s # b.socket => former.sock[s] = b.sock[s]
      /\ b.socket # NoSocket =>
           \/ /\ former.sock[b.socket].state = "open" /\ Open(b)
              /\ former.sock[b.socket].asked = b.sock[b.socket].asked
              /\ former.sock[b.socket].who = b.sock[b.socket].who
              /\ former.sock[b.socket].stray <=> b.sock[b.socket].stray
           \/ former.sock[b.socket].state = "closed" /\ ~Open(b)
  BY <1>1, Formers
<1>6. /\ made \in ServiceType
      /\ made.token = b.token /\ made.user = b.user
      /\ made.socket = new /\ made.sock[new] = Connecting
      /\ \A s \in Socket : s # new => made.sock[s] = former.sock[s]
  BY <1>3, <1>4, <1>5, NewSockets DEF ServiceType
<1>7. Behind(made)
  <2>1. ASSUME NEW s \in Socket, s # new
        PROVE  /\ made.sock[s].state # "connecting"
               /\ made.sock[s].state = "open"
                  /\ (made.sock[s].asked # NoUser \/ made.sock[s].who # NoUser)
                  => made.sock[s].stray
    <3>1. CASE s = b.socket
      <4>1. b.socket # NoSocket
        BY <3>1
      <4>. QED BY <4>1, <3>1, <2>1, <1>5, <1>6 DEF Leavable
    <3>2. CASE s # b.socket
      BY <3>2, <2>1, <1>5, <1>6 DEF Behind
    <3>. QED BY <3>1, <3>2
  <2>. QED BY <2>1, <1>6, NewSockets DEF Behind
<1>8. ~Open(made)
  BY <1>6, NewSockets DEF Open
<1>9. connect(b) = updateFromSocket(made)
  BY <1>1, <1>2, <1>3 DEF connect
<1>10. PICK c : c = updateFromSocket(made)
  OBVIOUS
<1>11. /\ c \in ServiceType /\ c.token = made.token /\ c.user = made.user
       /\ c.socket = made.socket /\ c.sock = made.sock
  BY <1>6, <1>10 DEF updateFromSocket, ServiceType
<1>12. Behind(c) /\ ~Open(c)
  BY <1>7, <1>8, <1>11 DEF Behind, Open
<1>. QED BY <1>4, <1>6, <1>9, <1>10, <1>11, <1>12

-----------------------------------------------------------------------------
(* The services that make no socket.                                       *)

\* Nothing but answers changes, and what an open socket is a stray of.
Like(c, b) ==
    /\ c \in ServiceType
    /\ c.token = b.token /\ c.user = b.user /\ c.socket = b.socket
    /\ c.reconnecting = b.reconnecting
    /\ \A s \in Socket :
         /\ c.sock[s].state = b.sock[s].state
         /\ c.sock[s].served <=> b.sock[s].served
         /\ c.sock[s].asked = b.sock[s].asked /\ c.sock[s].who = b.sock[s].who
         /\ \/ c.sock[s].stray <=> b.sock[s].stray
            \/ c.sock[s].stray /\ b.sock[s].state = "open"

LEMMA LikeKeeps ==
    ASSUME NEW b \in ServiceType, NEW c, Like(c, b)
    PROVE  /\ Open(c) <=> Open(b)
           /\ Behind(b) => Behind(c)
           /\ Mine(b) => Mine(c)
           /\ Leavable(b) => Leavable(c)
           /\ MayConnect(b) => MayConnect(c)
<1>1. b.socket # NoSocket => b.socket \in Socket
  BY DEF ServiceType
<1>2. Open(c) <=> Open(b)
  BY <1>1 DEF Like, Open
<1>3. Behind(b) => Behind(c)
  BY DEF Like, Behind
<1>4. Mine(b) => Mine(c)
  BY <1>1, <1>2 DEF Like, Mine, Open
<1>5. Leavable(b) => Leavable(c)
  BY <1>1, <1>2 DEF Like, Leavable, Open
<1>6. MayConnect(b) => MayConnect(c)
  <2>1. /\ c \in ServiceType /\ c.socket = b.socket
        /\ \A s \in Socket : /\ c.sock[s].state = b.sock[s].state
                             /\ c.sock[s].served <=> b.sock[s].served
    BY DEF Like
  <2>. QED BY <2>1, SameRoom
<1>. QED BY <1>2, <1>3, <1>4, <1>5, <1>6

LEMMA Straying ==
    ASSUME NEW b \in ServiceType
    PROVE  Like(Strays(b), b) /\ Leavable(Strays(b))
<1>1. CASE Open(b)
  <2>1. b.socket \in Socket /\ b.sock[b.socket] \in SockType
    BY <1>1 DEF Open, ServiceType
  <2>2. PICK r : r = [b.sock[b.socket] EXCEPT !.stray = TRUE]
    OBVIOUS
  <2>3. /\ r \in SockType /\ r.stray
        /\ r.state = b.sock[b.socket].state
        /\ r.served <=> b.sock[b.socket].served
        /\ r.asked = b.sock[b.socket].asked /\ r.who = b.sock[b.socket].who
    BY <2>1, <2>2 DEF SockType
  <2>4. PICK c : c = [b EXCEPT !.sock = [b.sock EXCEPT ![b.socket] = r]]
    OBVIOUS
  <2>5. Strays(b) = c
    BY <1>1, <2>1, <2>2, <2>4 DEF Strays, ServiceType
  <2>6. /\ c \in ServiceType
        /\ c.token = b.token /\ c.user = b.user /\ c.socket = b.socket
        /\ c.reconnecting = b.reconnecting
        /\ c.sock[b.socket] = r
        /\ \A s \in Socket : s # b.socket => c.sock[s] = b.sock[s]
    BY <2>1, <2>3, <2>4 DEF ServiceType
  <2>. QED BY <1>1, <2>1, <2>3, <2>5, <2>6 DEF Like, Leavable, Open
<1>2. CASE ~Open(b)
  <2>1. Strays(b) = b
    BY <1>2 DEF Strays
  <2>. QED BY <1>2, <2>1 DEF Like, Leavable
<1>. QED BY <1>1, <1>2

LEMMA Removes ==
    ASSUME NEW b \in ServiceType
    PROVE  /\ removeToken(b) \in ServiceType
           /\ removeToken(b).socket = b.socket /\ removeToken(b).sock = b.sock
  BY DEF removeToken, setUnauthenticated, ServiceType

\* What is left after disconnect has no open socket.
LEMMA Disconnects ==
    ASSUME NEW b \in ServiceType, Behind(b)
    PROVE  /\ disconnect(b) \in ServiceType
           /\ disconnect(b).socket = b.socket
           /\ Behind(disconnect(b)) /\ ~Open(disconnect(b))
<1>1. PICK c : c = IF Open(b) THEN [b EXCEPT !.sock[b.socket].state = "closing"]
                   ELSE b
  OBVIOUS
<1>2. c \in ServiceType /\ c.socket = b.socket /\ Behind(c) /\ ~Open(c)
  <2>1. CASE Open(b)
    <3>1. b.socket \in Socket /\ b.sock[b.socket] \in SockType
      BY <2>1 DEF Open, ServiceType
    <3>2. PICK r : r = [b.sock[b.socket] EXCEPT !.state = "closing"]
      OBVIOUS
    <3>3. r \in SockType /\ r.state = "closing"
      BY <3>1, <3>2 DEF SockType, SockState
    <3>4. c = [b EXCEPT !.sock = [b.sock EXCEPT ![b.socket] = r]]
      BY <1>1, <2>1, <3>1, <3>2 DEF ServiceType
    <3>5. /\ c \in ServiceType /\ c.socket = b.socket
          /\ c.sock[b.socket] = r
          /\ \A s \in Socket : s # b.socket => c.sock[s] = b.sock[s]
      BY <3>1, <3>3, <3>4 DEF ServiceType
    <3>. QED BY <3>1, <3>3, <3>5 DEF Behind, Open
  <2>2. CASE ~Open(b)
    <3>1. c = b
      BY <1>1, <2>2
    <3>. QED BY <2>2, <3>1
  <2>. QED BY <2>1, <2>2
<1>3. disconnect(b) = removeToken(c)
  BY <1>1 DEF disconnect, websocketLogout
<1>4. /\ removeToken(c) \in ServiceType
      /\ removeToken(c).socket = c.socket /\ removeToken(c).sock = c.sock
  BY <1>2, Removes
<1>5. Behind(removeToken(c)) /\ ~Open(removeToken(c))
  BY <1>2, <1>4 DEF Behind, Open
<1>. QED BY <1>2, <1>3, <1>4, <1>5

\* Setting a token makes a socket, whatever token there was.
LEMMA Replaces ==
    ASSUME NEW b \in ServiceType, NEW u \in User \cup {NoUser},
           Behind(b), Leavable(b), MayConnect(b)
    PROVE  /\ replaceToken(b, u) \in ServiceType
           /\ replaceToken(b, u).socket \in Socket
           /\ replaceToken(b, u).sock[replaceToken(b, u).socket] = Connecting
           /\ Behind(replaceToken(b, u))
<1>1. PICK d : d = removeToken(b)
  OBVIOUS
<1>2. d \in ServiceType /\ d.socket = b.socket /\ d.sock = b.sock
  BY <1>1, Removes
<1>3. PICK c : c = [[d EXCEPT !.token = u] EXCEPT !.user = u]
  OBVIOUS
<1>4. replaceToken(b, u) = connect(c)
  BY <1>1, <1>3 DEF replaceToken, setToken, setAuthenticated
<1>5. c \in ServiceType /\ c.socket = b.socket /\ c.sock = b.sock
  BY <1>2, <1>3 DEF ServiceType
<1>6. Behind(c) /\ Leavable(c)
  BY <1>5 DEF Behind, Leavable, Open
<1>7. MayConnect(c)
  BY <1>5, SameRoom
<1>. QED BY <1>4, <1>5, <1>6, <1>7, Connects

-----------------------------------------------------------------------------
(* The invariant.                                                          *)

Sound(b) ==
    /\ b \in ServiceType
    /\ b.reconnecting => ~Open(b)
    /\ Behind(b) /\ Mine(b)

IInv == TypeOK /\ Sound(Now)

\* The variables that the services do not keep.
RestOK ==
    /\ timers \in [1..MaxAttempts -> Nat] /\ submitted \in BOOLEAN
    /\ online \in BOOLEAN /\ gaveUp \in BOOLEAN

LEMMA Typed == TypeOK <=> Now \in ServiceType /\ RestOK /\
                          (reconnecting => ~Open(Now))
<1> DEFINE FieldsOK == /\ token \in User \cup {NoUser} /\ user \in User \cup {NoUser}
                       /\ socket \in Socket \cup {NoSocket}
                       /\ sock \in [Socket -> SockType]
                       /\ reconnecting \in BOOLEAN
<1>1. TypeOK <=> FieldsOK /\ RestOK /\ (reconnecting => ~Open(Now))
  BY DEF TypeOK, SockType, SockState, Answer, RestOK
<1>2. Now \in ServiceType <=> FieldsOK
  BY DEF Now, ServiceType
<1>. HIDE DEF FieldsOK
<1>. QED BY <1>1, <1>2

LEMMA Became ==
    ASSUME NEW b \in ServiceType, Becomes(b)
    PROVE  Now' = b
<1>1. /\ token' = b.token /\ user' = b.user /\ socket' = b.socket
      /\ sock' = b.sock /\ reconnecting' = b.reconnecting
  BY DEF Becomes
<1>2. b = [token |-> b.token, user |-> b.user, socket |-> b.socket,
           sock |-> b.sock, reconnecting |-> b.reconnecting]
  BY DEF ServiceType
<1>. QED BY <1>1, <1>2 DEF Now

LEMMA Primed == (Sound(Now))' <=> Sound(Now')
  BY DEF Sound, Behind, Mine, Open, Now

LEMMA Step ==
    ASSUME NEW b, Sound(b), Becomes(b), RestOK'
    PROVE  IInv'
<1>1. Now' = b
  BY Became DEF Sound
<1>2. Sound(Now)'
  BY <1>1, Primed
<1>3. (Now \in ServiceType)' /\ (reconnecting => ~Open(Now))'
  BY <1>2 DEF Sound, Now
<1>4. TypeOK'
  BY <1>3, Typed, PTL
<1>. QED BY <1>2, <1>4 DEF IInv

\* A socket that has just been made.
LEMMA Fresh ==
    ASSUME NEW b \in ServiceType, Behind(b),
           b.socket \in Socket, b.sock[b.socket] = Connecting
    PROVE  Sound(b)
<1>1. ~Open(b)
  BY NewSockets DEF Open
<1>. QED BY <1>1 DEF Sound, Mine

\* The tab, with what holds of its services.
LEMMA Unfolded ==
    ASSUME IInv
    PROVE  /\ Now \in ServiceType /\ RestOK /\ Sound(Now)
           /\ Behind(Now) /\ Mine(Now)
           /\ Now.socket = socket /\ Now.sock = sock /\ Now.user = user
           /\ Now.token = token /\ Now.reconnecting = reconnecting
           /\ token \in User \cup {NoUser} /\ user \in User \cup {NoUser}
           /\ socket \in Socket \cup {NoSocket} /\ sock \in [Socket -> SockType]
<1>1. Now \in ServiceType /\ RestOK /\ Sound(Now)
  BY Typed DEF IInv
<1>2. /\ Now.socket = socket /\ Now.sock = sock /\ Now.user = user
      /\ Now.token = token /\ Now.reconnecting = reconnecting
  BY DEF Now
<1>3. /\ token \in User \cup {NoUser} /\ user \in User \cup {NoUser}
      /\ socket \in Socket \cup {NoSocket} /\ sock \in [Socket -> SockType]
  BY <1>1, <1>2 DEF ServiceType
<1>. QED BY <1>1, <1>2, <1>3 DEF Sound

-----------------------------------------------------------------------------
(* The steps of the user.                                                  *)

LEMMA LoginStep == ASSUME IInv, NEW u \in User, Login(u) PROVE IInv'
<1>1. PICK b : b = Now
  OBVIOUS
<1>2. PICK c : c = IF user = NoUser THEN b ELSE Strays(b)
  OBVIOUS
<1>3. PICK d : d = replaceToken(c, u)
  OBVIOUS
<1>4. /\ Becomes(d) /\ MayConnect(b)
      /\ UNCHANGED <<timers, submitted, online, gaveUp>>
  BY <1>1, <1>2, <1>3 DEF Login
<1>5. b \in ServiceType /\ Behind(b) /\ Mine(b) /\ b.user = user
  BY <1>1, Unfolded
<1>6. c \in ServiceType /\ Behind(c) /\ Leavable(c) /\ MayConnect(c)
  <2>1. CASE user = NoUser
    BY <2>1, <1>2, <1>4, <1>5 DEF Mine, Leavable
  <2>2. CASE user # NoUser
    <3>1. c = Strays(b)
      BY <2>2, <1>2
    <3>2. Like(c, b) /\ Leavable(c)
      BY <1>5, <3>1, Straying
    <3>3. c \in ServiceType
      BY <3>2 DEF Like
    <3>4. Behind(c) /\ MayConnect(c)
      BY <3>2, <1>4, <1>5, LikeKeeps
    <3>. QED BY <3>2, <3>3, <3>4
  <2>. QED BY <2>1, <2>2
<1>7. /\ d \in ServiceType /\ d.socket \in Socket
      /\ d.sock[d.socket] = Connecting /\ Behind(d)
  BY <1>3, <1>6, Replaces
<1>8. Sound(d)
  BY <1>7, Fresh
<1>9. RestOK'
  BY <1>4, Unfolded DEF RestOK
<1>. QED BY <1>4, <1>8, <1>9, Step

LEMMA LogoutStep == ASSUME IInv, Logout PROVE IInv'
<1>1. PICK b : b = removeToken(Now)
  OBVIOUS
<1>2. PICK c : c = disconnect(b)
  OBVIOUS
<1>3. b \in ServiceType /\ b.socket = Now.socket /\ b.sock = Now.sock
  BY <1>1, Unfolded, Removes
<1>4. Behind(b)
  BY <1>3, Unfolded DEF Behind
<1>5. c \in ServiceType /\ Behind(c) /\ ~Open(c)
  BY <1>2, <1>3, <1>4, Disconnects
<1>6. Becomes(c) /\ UNCHANGED <<timers, submitted, online, gaveUp>>
  BY <1>1, <1>2 DEF Logout, logout
<1>7. Sound(c)
  BY <1>5 DEF Sound, Mine
<1>8. RestOK'
  BY <1>6, Unfolded DEF RestOK
<1>. QED BY <1>6, <1>7, <1>8, Step

LEMMA ReloadStep == ASSUME IInv, Reload PROVE IInv'
<1>1. PICK fresh : fresh = [Now EXCEPT !.user = token, !.socket = NoSocket,
                                       !.sock = [s \in Socket |-> Shut(sock[s])],
                                       !.reconnecting = FALSE]
  OBVIOUS
<1>2. PICK b : b = IF token = NoUser THEN fresh ELSE connect(fresh)
  OBVIOUS
<1>3. /\ Becomes(b) /\ (token = NoUser \/ MayConnect(fresh))
      /\ timers' = [k \in DOMAIN timers |-> 0]
      /\ submitted' = FALSE /\ gaveUp' = FALSE /\ online' = online
  BY <1>1, <1>2 DEF Reload
<1>4. \A s \in Socket : Shut(sock[s]) \in SockType
                        /\ Shut(sock[s]).state = "closed"
  BY Unfolded, Shuts
<1>5. /\ fresh \in ServiceType /\ fresh.socket = NoSocket
      /\ \A s \in Socket : fresh.sock[s].state = "closed"
      /\ ~fresh.reconnecting
  BY <1>1, <1>4, Unfolded DEF ServiceType
<1>6. Behind(fresh) /\ ~Open(fresh) /\ Leavable(fresh)
  BY <1>5 DEF Behind, Open, Leavable
<1>7. Sound(b)
  <2>1. CASE token = NoUser
    BY <2>1, <1>2, <1>5, <1>6 DEF Sound, Mine
  <2>2. CASE token # NoUser
    <3>1. MayConnect(fresh) /\ b = connect(fresh)
      BY <2>2, <1>2, <1>3
    <3>2. /\ b \in ServiceType /\ b.socket \in Socket
          /\ b.sock[b.socket] = Connecting /\ Behind(b)
      BY <3>1, <1>5, <1>6, Connects
    <3>. QED BY <3>2, Fresh
  <2>. QED BY <2>1, <2>2
<1>8. timers' \in [1..MaxAttempts -> Nat]
  BY <1>3, Unfolded DEF RestOK
<1>9. RestOK'
  BY <1>3, <1>8, Unfolded DEF RestOK
<1>. QED BY <1>3, <1>7, <1>9, Step

\* Steps that leave the services as they are.
LEMMA QuietStep ==
    ASSUME IInv, UNCHANGED <<user, socket, sock, reconnecting>>,
           token' \in User \cup {NoUser}, RestOK'
    PROVE  IInv'
<1>1. PICK b : b = [Now EXCEPT !.token = token']
  OBVIOUS
<1>2. /\ b.user = user /\ b.socket = socket /\ b.sock = sock
      /\ b.reconnecting = reconnecting /\ b.token = token'
      /\ b \in ServiceType
  BY <1>1, Unfolded DEF ServiceType
<1>3. Open(b) <=> Open(Now)
  BY <1>2, Unfolded DEF Open
<1>4. Sound(b)
  BY <1>2, <1>3, Unfolded DEF Sound, Behind, Mine
<1>5. Becomes(b)
  BY <1>2 DEF Becomes
<1>. QED BY <1>4, <1>5, Step

LEMMA QuietSteps ==
    ASSUME IInv, Submit \/ Switch \/ (\E u \in User \cup {NoUser} : OtherTab(u))
                 \/ UNCHANGED vars
    PROVE  IInv'
<1>1. UNCHANGED <<user, socket, sock, reconnecting, timers, gaveUp>>
      /\ token' \in User \cup {NoUser}
  BY Unfolded DEF Submit, Switch, OtherTab, vars, client
<1>2. RestOK'
  BY <1>1, Unfolded DEF RestOK, Submit, Switch, OtherTab, vars, client
<1>. QED BY <1>1, <1>2, QuietStep

-----------------------------------------------------------------------------
(* The steps of the network.                                               *)

LEMMA Flag ==
    ASSUME NEW b \in ServiceType
    PROVE  LET c == updateFromSocket(b)
           IN  /\ c \in ServiceType
               /\ c.token = b.token /\ c.user = b.user
               /\ c.socket = b.socket /\ c.sock = b.sock
               /\ c.reconnecting => b.reconnecting /\ ~Open(b)
               /\ Open(c) <=> Open(b)
  BY DEF updateFromSocket, ServiceType, Open

LEMMA Flagged ==
    ASSUME NEW b \in ServiceType, Behind(b), Mine(b)
    PROVE  Sound(updateFromSocket(b))
<1>1. PICK c : c = updateFromSocket(b)
  OBVIOUS
<1>2. /\ c \in ServiceType /\ c.user = b.user
      /\ c.socket = b.socket /\ c.sock = b.sock
      /\ c.reconnecting => ~Open(b)
      /\ Open(c) <=> Open(b)
  BY <1>1, Flag
<1>3. Behind(c) /\ Mine(c)
  BY <1>2 DEF Behind, Mine
<1>. QED BY <1>1, <1>2, <1>3 DEF Sound

\* The handlers of onopen, of the only socket that may be connecting.
LEMMA OpensStep == ASSUME IInv, NEW s \in Socket, Opens(s) PROVE IInv'
<1>1. /\ sock[s].state = "connecting" /\ s = socket
      /\ sock[s].asked = NoUser /\ sock[s].who = NoUser /\ ~sock[s].stray
      /\ sock[s] \in SockType
  BY Unfolded DEF Opens, Behind
<1>2. PICK r : r = [sock[s] EXCEPT !.state = "open", !.served = TRUE]
  OBVIOUS
<1>3. PICK b : b = [Now EXCEPT !.sock = [sock EXCEPT ![s] = r]]
  OBVIOUS
<1>4. /\ r \in SockType /\ r.state = "open" /\ ~r.stray
      /\ r.asked = NoUser /\ r.who = NoUser
  BY <1>1, <1>2 DEF SockType, SockState
<1>5. [Now EXCEPT !.sock[s].state = "open", !.sock[s].served = TRUE] = b
  BY <1>2, <1>3, Unfolded DEF ServiceType
<1>6. PICK c : c = sendAuth(b)
  OBVIOUS
<1>7. PICK d : d = updateFromSocket(c)
  OBVIOUS
<1>8. /\ Becomes(d) /\ gaveUp' \in BOOLEAN
      /\ UNCHANGED <<timers, submitted, online>>
  BY <1>1, <1>5, <1>6, <1>7 DEF Opens, onOpen
<1>9. /\ b \in ServiceType /\ b.socket = s /\ b.sock[s] = r
      /\ b.token = token /\ b.user = user
      /\ \A o \in Socket : o # s => b.sock[o] = sock[o]
  BY <1>1, <1>3, <1>4, Unfolded DEF ServiceType
<1>10. Behind(b)
  BY <1>1, <1>4, <1>9, Unfolded DEF Behind
<1>11. c \in ServiceType /\ Behind(c) /\ Mine(c)
  <2>1. CASE token = NoUser
    <3>1. c = disconnect(b)
      BY <2>1, <1>6, <1>9 DEF sendAuth
    <3>2. c \in ServiceType /\ Behind(c) /\ ~Open(c)
      BY <3>1, <1>9, <1>10, Disconnects
    <3>. QED BY <3>2 DEF Mine
  <2>2. CASE token # NoUser
    <3>1. PICK k : k = [r EXCEPT !.asked = token, !.stray = token # user]
      OBVIOUS
    <3>2. c = [b EXCEPT !.sock = [b.sock EXCEPT ![s] = k]]
      BY <2>2, <1>6, <1>9, <3>1 DEF sendAuth, ServiceType
    <3>3. (token # user) \in BOOLEAN
      OBVIOUS
    <3>4. /\ k \in SockType /\ k.state = "open"
          /\ k.asked = token /\ k.who = NoUser
          /\ ~k.stray => token = user
      BY <1>4, <3>1, <3>3, Unfolded DEF SockType
    <3>5. /\ c \in ServiceType /\ c.socket = s /\ c.sock[s] = k
          /\ c.user = user
          /\ \A o \in Socket : o # s => c.sock[o] = b.sock[o]
      BY <1>9, <3>2, <3>4 DEF ServiceType
    <3>6. Behind(c)
      BY <1>9, <1>10, <3>4, <3>5 DEF Behind
    <3>7. Mine(c)
      BY <2>2, <3>4, <3>5 DEF Mine
    <3>. QED BY <3>5, <3>6, <3>7
  <2>. QED BY <2>1, <2>2
<1>12. Sound(d)
  BY <1>7, <1>11, Flagged
<1>13. RestOK'
  BY <1>8, Unfolded DEF RestOK
<1>. QED BY <1>8, <1>12, <1>13, Step

\* A socket that the browser is done with.
LEMMA Collapses ==
    ASSUME IInv, NEW s \in Socket,
           NEW b, b = [Now EXCEPT !.sock[s] = Shut(@)]
    PROVE  /\ Sound(b) /\ b.socket = socket
           /\ s = socket => ~Open(b)
<1>1. Shut(sock[s]) \in SockType /\ Shut(sock[s]).state = "closed"
  BY Unfolded, Shuts
<1>2. PICK r : r = Shut(sock[s])
  OBVIOUS
<1>3. b = [Now EXCEPT !.sock = [sock EXCEPT ![s] = r]]
  BY <1>2, Unfolded DEF ServiceType
<1>4. /\ b \in ServiceType /\ b.socket = socket /\ b.sock[s].state = "closed"
      /\ b.user = user /\ b.reconnecting = reconnecting
      /\ \A o \in Socket : o # s => b.sock[o] = sock[o]
  BY <1>1, <1>2, <1>3, Unfolded DEF ServiceType
<1>5. Behind(b)
  BY <1>4, Unfolded DEF Behind
<1>6. Open(b) => Open(Now) /\ s # socket
  BY <1>4, Unfolded DEF Open, ServiceType
<1>7. Mine(b)
  BY <1>4, <1>6, Unfolded DEF Mine, Open
<1>8. reconnecting => ~Open(b)
  BY <1>6, Unfolded DEF Sound
<1>. QED BY <1>4, <1>5, <1>6, <1>7, <1>8 DEF Sound

LEMMA BreaksStep == ASSUME IInv, NEW s \in Socket, Breaks(s) PROVE IInv'
<1>1. PICK b : b = [Now EXCEPT !.sock[s] = Shut(@)]
  OBVIOUS
<1>2. PICK c : c = updateFromSocket(b)
  OBVIOUS
<1>3. /\ IF s = socket THEN autoReconnect(c)
         ELSE Becomes(b) /\ UNCHANGED timers
      /\ UNCHANGED <<submitted, online, gaveUp>>
  BY <1>1, <1>2 DEF Breaks
<1>4. /\ Sound(b) /\ b \in ServiceType /\ Behind(b) /\ Mine(b)
      /\ b.socket = socket
      /\ s = socket => ~Open(b)
  BY <1>1, Collapses DEF Sound
<1>5. CASE s # socket
  <2>1. RestOK'
    BY <1>3, <1>5, Unfolded DEF RestOK
  <2>. QED BY <1>3, <1>4, <1>5, <2>1, Step
<1>6. CASE s = socket /\ c.reconnecting
  <2>1. Becomes(c) /\ UNCHANGED timers
    BY <1>3, <1>6 DEF autoReconnect
  <2>2. Sound(c)
    BY <1>2, <1>4, Flagged
  <2>3. RestOK'
    BY <1>3, <2>1, Unfolded DEF RestOK
  <2>. QED BY <2>1, <2>2, <2>3, Step
<1>7. CASE s = socket /\ ~c.reconnecting
  <2>1. PICK d : d = [c EXCEPT !.reconnecting = TRUE]
    OBVIOUS
  <2>2. PICK e : e = connect(d)
    OBVIOUS
  <2>3. /\ MayConnect(c) /\ Becomes(e)
        /\ timers' = [timers EXCEPT ![1] = @ + 1]
    BY <1>3, <1>7, <2>1, <2>2 DEF autoReconnect
  <2>4. c \in ServiceType /\ c.socket = b.socket /\ c.sock = b.sock
    BY <1>2, <1>4, Flag
  <2>5. d \in ServiceType /\ d.socket = c.socket /\ d.sock = c.sock
    BY <2>1, <2>4 DEF ServiceType
  <2>6. Behind(d) /\ Leavable(d)
    BY <1>4, <1>7, <2>4, <2>5 DEF Behind, Leavable, Open
  <2>7. MayConnect(d)
    BY <2>3, <2>4, <2>5, SameRoom
  <2>8. /\ e \in ServiceType /\ e.socket \in Socket
        /\ e.sock[e.socket] = Connecting /\ Behind(e)
    BY <2>2, <2>5, <2>6, <2>7, Connects
  <2>9. Sound(e)
    BY <2>8, Fresh
  <2>10. RestOK'
    BY <1>3, <2>3, Unfolded DEF RestOK
  <2>. QED BY <2>3, <2>9, <2>10, Step
<1>. QED BY <1>5, <1>6, <1>7

LEMMA ClosesStep == ASSUME IInv, NEW s \in Socket, ClosesCleanly(s) PROVE IInv'
<1>1. PICK b : b = [Now EXCEPT !.sock[s] = Shut(@)]
  OBVIOUS
<1>2. PICK c : c = IF s = socket THEN updateFromSocket(b) ELSE b
  OBVIOUS
<1>3. Becomes(c) /\ UNCHANGED <<timers, submitted, online, gaveUp>>
  BY <1>1, <1>2 DEF ClosesCleanly
<1>4. Sound(b) /\ b \in ServiceType /\ Behind(b) /\ Mine(b)
  BY <1>1, Collapses DEF Sound
<1>5. Sound(c)
  BY <1>2, <1>4, Flagged
<1>6. RestOK'
  BY <1>3, Unfolded DEF RestOK
<1>. QED BY <1>3, <1>5, <1>6, Step

LEMMA TryAgainStep == ASSUME IInv, NEW k \in 1..MaxAttempts, TryAgain(k) PROVE IInv'
<1>1. CASE UNCHANGED client
           /\ timers' = [timers EXCEPT ![k] = @ - 1]
           /\ gaveUp' = (gaveUp \/ ~Open(Now))
  <2>1. timers' \in [1..MaxAttempts -> Nat]
    BY <1>1, Unfolded DEF TryAgain, RestOK
  <2>2. RestOK'
    BY <1>1, <2>1, Unfolded DEF TryAgain, RestOK
  <2>. QED BY <1>1, <2>2, Unfolded, QuietStep DEF client
<1>2. CASE /\ ~Open(Now) /\ k < MaxAttempts /\ MayConnect(Now)
           /\ timers' = [timers EXCEPT ![k] = @ - 1, ![k + 1] = @ + 1]
           /\ Becomes(connect(Now))
           /\ UNCHANGED gaveUp
  <2>1. Leavable(Now) /\ MayConnect(Now)
    BY <1>2 DEF Leavable
  <2>2. PICK e : e = connect(Now)
    OBVIOUS
  <2>3. /\ e \in ServiceType /\ e.socket \in Socket
        /\ e.sock[e.socket] = Connecting /\ Behind(e)
    BY <2>1, <2>2, Unfolded, Connects
  <2>4. UNCHANGED <<submitted, online>> /\ timers[k] > 0
    BY DEF TryAgain
  <2>5. Sound(e)
    BY <2>3, Fresh
  <2>6. timers' \in [1..MaxAttempts -> Nat]
    <3>1. timers \in [1..MaxAttempts -> Nat]
      BY Unfolded DEF RestOK
    <3>2. k + 1 \in 1..MaxAttempts /\ timers[k] - 1 \in Nat
      BY <1>2, <2>4, <3>1
    <3>. QED BY <1>2, <3>1, <3>2
  <2>7. RestOK'
    BY <1>2, <2>4, <2>6, Unfolded DEF RestOK
  <2>. QED BY <1>2, <2>2, <2>5, <2>7, Step
<1>. QED BY <1>1, <1>2 DEF TryAgain

-----------------------------------------------------------------------------
(* The steps of the server.                                                *)

\* A socket as the browser has it, with what the server's end makes of it.
LEMMA SocketStep ==
    ASSUME IInv, NEW s \in Socket, NEW r \in SockType,
           sock' = [sock EXCEPT ![s] = r],
           UNCHANGED <<token, user, socket, reconnecting, timers,
                       submitted, online, gaveUp>>,
           r.state = sock[s].state, r.stray <=> sock[s].stray,
           r.asked \in {NoUser, sock[s].asked},
           r.who \in {NoUser, sock[s].who, sock[s].asked}
    PROVE  IInv'
<1>1. PICK b : b = [Now EXCEPT !.sock = [sock EXCEPT ![s] = r]]
  OBVIOUS
<1>2. /\ b \in ServiceType /\ b.token = token /\ b.user = user
      /\ b.socket = socket /\ b.sock = [sock EXCEPT ![s] = r]
      /\ b.reconnecting = reconnecting
  BY <1>1, Unfolded DEF ServiceType
<1>3. b.sock[s] = r /\ \A o \in Socket : o # s => b.sock[o] = sock[o]
  BY <1>2, Unfolded
<1>4. Open(b) <=> Open(Now)
  BY <1>2, <1>3, Unfolded DEF Open
<1>5. Behind(b)
  BY <1>2, <1>3, Unfolded DEF Behind
<1>6. Mine(b)
  BY <1>2, <1>3, <1>4, Unfolded DEF Mine
<1>7. Sound(b)
  BY <1>2, <1>4, <1>5, <1>6, Unfolded DEF Sound
<1>8. Becomes(b)
  BY <1>2 DEF Becomes
<1>9. RestOK'
  BY Unfolded DEF RestOK
<1>. QED BY <1>7, <1>8, <1>9, Step

LEMMA AuthenticateStep ==
    ASSUME IInv, NEW s \in Socket, Authenticate(s) PROVE IInv'
<1>1. PICK verdict \in {"Auth_success", "renewed", "Auth_failed"} :
        \E answer \in {"none"} \cup
                      IF s = socket /\ sock[s].state = "open"
                      THEN {verdict} \ {"Auth_success"} ELSE {} :
          sock' = [sock EXCEPT
            ![s].asked = NoUser, ![s].answer = answer,
            ![s].who = IF verdict = "Auth_failed" THEN @ ELSE sock[s].asked]
  BY DEF Authenticate
<1>2. PICK answer \in {"none"} \cup
                      IF s = socket /\ sock[s].state = "open"
                      THEN {verdict} \ {"Auth_success"} ELSE {} :
          sock' = [sock EXCEPT
            ![s].asked = NoUser, ![s].answer = answer,
            ![s].who = IF verdict = "Auth_failed" THEN @ ELSE sock[s].asked]
  BY <1>1
<1>3. answer \in Answer
  BY <1>1, <1>2 DEF Answer
<1>4. PICK who : who = IF verdict = "Auth_failed" THEN sock[s].who
                       ELSE sock[s].asked
  OBVIOUS
<1>5. PICK r : r = [sock[s] EXCEPT !.asked = NoUser, !.answer = answer,
                                   !.who = who]
  OBVIOUS
<1>6. sock[s] \in SockType
  BY Unfolded
<1>7. /\ r \in SockType /\ r.state = sock[s].state
      /\ r.stray <=> sock[s].stray
      /\ r.asked = NoUser /\ r.who = who
  BY <1>3, <1>4, <1>5, <1>6 DEF SockType
<1>8. sock' = [sock EXCEPT ![s] = r]
  BY <1>2, <1>4, <1>5, <1>6, Unfolded
<1>9. who \in {NoUser, sock[s].who, sock[s].asked}
  BY <1>4
<1>10. UNCHANGED <<token, user, socket, reconnecting, timers,
                   submitted, online, gaveUp>>
  BY DEF Authenticate
<1>. QED BY <1>7, <1>8, <1>9, <1>10, SocketStep

LEMMA ServerEndsStep ==
    ASSUME IInv, NEW s \in Socket, ServerEnds(s) PROVE IInv'
<1>1. UNCHANGED <<token, user, socket, reconnecting, timers,
                  submitted, online, gaveUp>>
  BY DEF ServerEnds
<1>2. sock[s] \in SockType
  BY Unfolded
<1>3. CASE sock[s].state = "closed"
  <2>1. sock' = [sock EXCEPT ![s] = Closed]
    BY <1>3, Unfolded DEF ServerEnds
  <2>2. PICK b : b = [Now EXCEPT !.sock = [sock EXCEPT ![s] = Closed]]
    OBVIOUS
  <2>3. /\ b \in ServiceType /\ b.token = token /\ b.user = user
        /\ b.socket = socket /\ b.sock = [sock EXCEPT ![s] = Closed]
        /\ b.reconnecting = reconnecting
    BY <2>2, NewSockets, Unfolded DEF ServiceType
  <2>4. /\ b.sock[s].state = "closed"
        /\ \A o \in Socket : o # s => b.sock[o] = sock[o]
    BY <2>3, NewSockets, Unfolded
  <2>5. (Open(b) <=> Open(Now)) /\ (Open(b) => s # socket)
    BY <1>3, <2>3, <2>4, Unfolded DEF Open
  <2>6. Behind(b) /\ Mine(b)
    BY <2>3, <2>4, <2>5, Unfolded DEF Behind, Mine, Open
  <2>7. Sound(b)
    BY <2>3, <2>5, <2>6, Unfolded DEF Sound
  <2>8. Becomes(b)
    BY <1>1, <2>1, <2>3 DEF Becomes
  <2>9. RestOK'
    BY <1>1, Unfolded DEF RestOK
  <2>. QED BY <2>7, <2>8, <2>9, Step
<1>4. CASE sock[s].state # "closed"
  <2>1. PICK r : r = [sock[s] EXCEPT !.served = FALSE, !.asked = NoUser,
                                     !.who = NoUser]
    OBVIOUS
  <2>2. sock' = [sock EXCEPT ![s] = r]
    BY <1>2, <1>4, <2>1, Unfolded DEF ServerEnds
  <2>3. /\ r \in SockType /\ r.state = sock[s].state
        /\ r.stray <=> sock[s].stray
        /\ r.asked = NoUser /\ r.who = NoUser
    BY <1>2, <2>1 DEF SockType
  <2>. QED BY <1>1, <2>2, <2>3, SocketStep
<1>. QED BY <1>3, <1>4

-----------------------------------------------------------------------------
(* The messages the tab takes.                                             *)

LEMMA Takes ==
    ASSUME IInv, NEW type, Receives(type)
    PROVE  Taken \in ServiceType /\ Like(Taken, Now) /\ socket \in Socket
<1>1. Open(Now) /\ socket \in Socket /\ sock[socket] \in SockType
  BY Unfolded DEF Receives, Open
<1>2. PICK r : r = [sock[socket] EXCEPT !.answer = "none"]
  OBVIOUS
<1>3. PICK b : b = [Now EXCEPT !.sock = [sock EXCEPT ![socket] = r]]
  OBVIOUS
<1>4. /\ r \in SockType
      /\ r.state = sock[socket].state /\ r.asked = sock[socket].asked
      /\ r.served <=> sock[socket].served
      /\ r.who = sock[socket].who
      /\ r.stray <=> sock[socket].stray
  BY <1>1, <1>2 DEF SockType, Answer
<1>5. Taken = b
  BY <1>1, <1>2, <1>3, Unfolded DEF Taken, ServiceType
<1>6. /\ b \in ServiceType
      /\ b.token = token /\ b.user = user /\ b.socket = socket
      /\ b.reconnecting = reconnecting
      /\ b.sock[socket] = r
      /\ \A o \in Socket : o # socket => b.sock[o] = sock[o]
  BY <1>1, <1>3, <1>4, Unfolded DEF ServiceType
<1>7. ASSUME NEW o \in Socket
      PROVE  /\ b.sock[o].state = Now.sock[o].state
             /\ b.sock[o].served <=> Now.sock[o].served
             /\ b.sock[o].asked = Now.sock[o].asked
             /\ b.sock[o].who = Now.sock[o].who
             /\ b.sock[o].stray <=> Now.sock[o].stray
  <2>1. Now.sock = sock
    BY Unfolded
  <2>2. CASE o = socket
    <3>1. b.sock[o] = r /\ Now.sock[o] = sock[socket]
      BY <1>6, <2>1, <2>2
    <3>. QED BY <1>4, <3>1
  <2>3. CASE o # socket
    <3>1. b.sock[o] = Now.sock[o]
      BY <1>6, <2>1, <2>3
    <3>. QED BY <3>1
  <2>. QED BY <2>2, <2>3
<1>8. Like(b, Now)
  BY <1>6, <1>7, Unfolded DEF Like
<1>. QED BY <1>1, <1>5, <1>6, <1>8

LEMMA TakeRenewedStep == ASSUME IInv, TakeRenewed PROVE IInv'
<1>1. PICK b : b = Taken
  OBVIOUS
<1>2. PICK c : c = Strays(b)
  OBVIOUS
<1>3. PICK u \in {sock[socket].who} \ {NoUser} :
               Becomes(replaceToken(Strays(Taken), u))
  BY DEF TakeRenewed
<1>4. PICK d : d = replaceToken(c, u)
  OBVIOUS
<1>5. /\ Receives("renewed") /\ MayConnect(Now) /\ Becomes(d)
      /\ UNCHANGED <<timers, submitted, online, gaveUp>>
  BY <1>1, <1>2, <1>3, <1>4 DEF TakeRenewed
<1>6. b \in ServiceType /\ Like(b, Now) /\ socket \in Socket
  BY <1>1, <1>5, Takes
<1>7. Behind(b) /\ MayConnect(b)
  BY <1>5, <1>6, Unfolded, LikeKeeps
<1>8. Like(c, b) /\ Leavable(c)
  BY <1>2, <1>6, Straying
<1>9. c \in ServiceType
  BY <1>8 DEF Like
<1>10. Behind(c) /\ MayConnect(c)
  BY <1>6, <1>7, <1>8, LikeKeeps
<1>11. u \in User \cup {NoUser}
  BY <1>3, <1>6, Unfolded DEF SockType
<1>12. /\ d \in ServiceType /\ d.socket \in Socket
       /\ d.sock[d.socket] = Connecting /\ Behind(d)
  BY <1>4, <1>8, <1>9, <1>10, <1>11, Replaces
<1>13. Sound(d)
  BY <1>12, Fresh
<1>14. RestOK'
  BY <1>5, Unfolded DEF RestOK
<1>. QED BY <1>5, <1>13, <1>14, Step

LEMMA TakeFailedStep == ASSUME IInv, TakeFailed PROVE IInv'
<1>1. PICK b : b = Taken
  OBVIOUS
<1>2. PICK c : c = disconnect(b)
  OBVIOUS
<1>3. /\ Receives("Auth_failed") /\ Becomes(c)
      /\ UNCHANGED <<timers, submitted, online, gaveUp>>
  BY <1>1, <1>2 DEF TakeFailed
<1>4. b \in ServiceType /\ Like(b, Now)
  BY <1>1, <1>3, Takes
<1>5. Behind(b)
  BY <1>4, Unfolded, LikeKeeps
<1>6. c \in ServiceType /\ Behind(c) /\ ~Open(c)
  BY <1>2, <1>4, <1>5, Disconnects
<1>7. Sound(c)
  BY <1>6 DEF Sound, Mine
<1>8. RestOK'
  BY <1>3, Unfolded DEF RestOK
<1>. QED BY <1>3, <1>7, <1>8, Step

-----------------------------------------------------------------------------
(* The theorems.                                                           *)

LEMMA Invariance == IInv /\ [Next]_vars => IInv'
<1>. SUFFICES ASSUME IInv, [Next]_vars PROVE IInv'
  OBVIOUS
<1>1. CASE \E s \in Socket :
             \/ Opens(s) \/ Breaks(s) \/ ClosesCleanly(s)
             \/ Authenticate(s) \/ ServerEnds(s)
  BY <1>1, OpensStep, BreaksStep, ClosesStep, AuthenticateStep,
     ServerEndsStep
<1>2. CASE \E u \in User : Login(u)
  BY <1>2, LoginStep
<1>3. CASE \E k \in 1..MaxAttempts : TryAgain(k)
  BY <1>3, TryAgainStep
<1>4. CASE Logout \/ Reload
  BY <1>4, LogoutStep, ReloadStep
<1>5. CASE TakeRenewed \/ TakeFailed
  BY <1>5, TakeRenewedStep, TakeFailedStep
<1>6. CASE Submit \/ Switch \/ (\E u \in User \cup {NoUser} : OtherTab(u))
           \/ UNCHANGED vars
  BY <1>6, QuietSteps
<1>. QED BY <1>1, <1>2, <1>3, <1>4, <1>5, <1>6 DEF Next

LEMMA Initially == Init => IInv
<1>. SUFFICES ASSUME Init PROVE IInv
  OBVIOUS
<1>1. /\ token = NoUser /\ user = NoUser /\ socket = NoSocket
      /\ sock = [s \in Socket |-> Closed] /\ reconnecting = FALSE
  BY DEF Init
<1>2. /\ Now \in ServiceType /\ Now.socket = NoSocket
      /\ Now.sock = sock /\ ~reconnecting
  BY <1>1, NewSockets DEF Now, ServiceType
<1>3. ~Open(Now) /\ ~Now.reconnecting
  BY <1>1, <1>2 DEF Open, Now
<1>4. Behind(Now)
  BY <1>1, <1>2, NewSockets DEF Behind
<1>5. Sound(Now)
  BY <1>2, <1>3, <1>4 DEF Sound, Mine
<1>6. RestOK
  BY DEF Init, RestOK
<1>7. TypeOK
  BY <1>2, <1>3, <1>6, Typed
<1>. QED BY <1>5, <1>7 DEF IInv

LEMMA Inductive == Spec => []IInv
  BY Initially, Invariance, PTL DEF Spec

\* Every variable of the tab keeps its type, and the flag of the reconnection
\* is down while the socket is open (websocketState.service.ts).
THEOREM TypeCorrect == Spec => []TypeOK
<1>1. IInv => TypeOK
  BY DEF IInv
<1>. QED BY <1>1, Inductive, PTL

\* However timers, logins, logouts, reloads and the network interleave, the
\* tab holds no open connection that the server routes to beside the current
\* one, but strays (connect of websocket.service.ts).
THEOREM NoStrayTheorem == Spec => []NoStray
<1>1. IInv => NoStray
  BY Unfolded DEF Behind, NoStray
<1>. QED BY <1>1, Inductive, PTL

\* An open connection that is no stray is that of the user of the tab
\* (sendAuth, which reads the token when the socket opens).
THEOREM RightUserTheorem == Spec => []RightUser
<1>1. IInv => RightUser
  BY Unfolded DEF Mine, RightUser
<1>. QED BY <1>1, Inductive, PTL
=============================================================================
