------------------------ MODULE ConnectionPoolProofs ------------------------
(***************************************************************************)
(* Theorems about ConnectionPool, for any sets of connections, tabs, users,*)
(* documents and goroutines.  First type correctness, and that the entry   *)
(* of a served connection in the registry is only ever taken away by       *)
(* another connection of the same tab (IInv); then what it promises about  *)
(* the lists and the hash of a tab, UserListExact,                         *)
(* MisroutedOnlyAfterRelogin, DocListExact and RedisSessionCurrent, from   *)
(* one more inductive invariant, ListsInv.                                 *)
(***************************************************************************)
EXTENDS ConnectionPool, SessionListProofs

Keys == Session \cup {NoSession}

-----------------------------------------------------------------------------
(***************************************************************************)
(* Type correctness.                                                       *)
(***************************************************************************)
GoOK == /\ go \in [Handler -> GoState]
        /\ \A h \in Handler : go[h].pc # "idle" => go[h].conn \in Conn

\* The goroutine part of TypeOK, for the ways an action changes go.
LEMMA IdleType == Idle \in GoState
  BY DEF Idle, GoState

\* The cleanup of a connection before and while it serves has its type.
LEMMA CleanIdleType ==
    ASSUME NEW pc \in CleanPC
    PROVE  [Idle EXCEPT !.pc = pc] \in CleanState
<1>1. [pc |-> pc, conn |-> NoConn, doc |-> NoDoc, session |-> NoSession,
       list |-> <<>>] \in CleanState
  BY DEF CleanState
<1>2. [Idle EXCEPT !.pc = pc] =
        [pc |-> pc, conn |-> NoConn, doc |-> NoDoc, session |-> NoSession,
         list |-> <<>>]
  BY DEF Idle
<1> QED BY <1>1, <1>2

\* Advancing the program counter of a cleanup keeps its type.
LEMMA CleanStepType ==
    ASSUME TypeOK, NEW c \in Conn, NEW pc \in CleanPC
    PROVE  [cleanup[c] EXCEPT !.pc = pc] \in CleanState
<1>1. cleanup[c] \in CleanState
  BY DEF TypeOK
<1> QED BY <1>1 DEF CleanState

\* A goroutine started for a message has its type.
LEMMA SpawnType ==
    ASSUME GoOK, NEW h \in Handler, NEW c \in Conn,
           NEW pc \in {"auth", "join", "exit"}, NEW d \in Doc \cup {NoDoc},
           Spawn(h, c, pc, d)
    PROVE  GoOK'
<1>1. [Idle EXCEPT !.pc = pc, !.conn = c, !.doc = d] \in GoState
  BY IdleType DEF GoState, AuthPC, JoinPC, ExitPC
<1>2. go' = [go EXCEPT ![h] = [Idle EXCEPT !.pc = pc, !.conn = c, !.doc = d]]
  BY DEF Spawn
<1>3. go'[h].conn = c
  BY <1>2 DEF Idle, GoOK
<1> QED BY <1>1, <1>2, <1>3 DEF GoOK

\* Advancing the program counter of a goroutine keeps its type.
LEMMA StepType ==
    ASSUME GoOK, NEW h \in Handler, NEW pc,
           NEW next \in AuthPC \cup JoinPC \cup ExitPC,
           pc # "idle", Step(h, pc, next)
    PROVE  GoOK'
<1>1. [go[h] EXCEPT !.pc = next] \in GoState
  BY DEF GoState, GoOK
<1>2. go' = [go EXCEPT ![h] = [go[h] EXCEPT !.pc = next]]
  BY DEF Step
<1>3. go'[h].conn = go[h].conn
  BY <1>2 DEF GoState, GoOK
<1> QED BY <1>1, <1>2, <1>3 DEF GoOK, Step

\* A goroutine that returns frees its slot, which keeps its type.
LEMMA DoneType ==
    ASSUME GoOK, NEW h \in Handler, NEW pc, Done(h, pc)
    PROVE  GoOK'
<1>1. go' = [go EXCEPT ![h] = Idle]
  BY DEF Done
<1>2. Idle.pc = "idle"
  BY DEF Idle
<1> QED BY <1>1, <1>2, IdleType DEF GoOK

\* The types hold when the server starts.
LEMMA TypeInit == Init => TypeOK
<1> SUFFICES ASSUME Init PROVE TypeOK
  OBVIOUS
<1>1. go \in [Handler -> GoState]
  BY IdleType DEF Init
<1>2. cleanup \in [Conn -> CleanState]
  BY CleanIdleType DEF Init, CleanPC
<1>3. \A h \in Handler : go[h].pc # "idle" => go[h].conn \in Conn
  BY DEF Init, Idle
<1>4. who \in [Conn -> Identity] /\ client \in [Conn -> Identity]
  BY DEF Init, Identity, Nobody
<1>5. redis \in [Session \cup {NoSession} ->
                    [user : User \cup {NoUser, NoField},
                     file : Doc \cup {NoDoc, NoField}]]
  BY DEF Init, Absent
<1>6. hist \in [listed : SUBSET Conn, late : SUBSET Conn,
                 tangled : SUBSET Conn,
                 lost : SUBSET (User \cup Doc \cup {NoUser, NoDoc})]
  BY DEF Init
<1>7. opened \in 0..MaxOpen
  BY PoolAssumption DEF Init
<1>8. /\ userIndex \in [User \cup {NoUser} -> Seq(Session \cup {NoSession})]
      /\ docSessions \in [Doc \cup {NoDoc} -> Seq(Session \cup {NoSession})]
  BY DEF Init
<1>9. /\ link \in [Conn -> {"none", "up", "lost", "closed"}]
      /\ cancelled \in SUBSET Conn
      /\ current \in [Session -> Conn \cup {NoConn}]
      /\ editing \in [Session -> Doc \cup {NoDoc}]
      /\ file \in [Conn -> Doc \cup {NoDoc}]
      /\ pool \in [Session \cup {NoSession} -> Conn \cup {NoConn}]
      /\ managers \in [Session \cup {NoSession} -> Conn \cup {NoConn}]
  BY DEF Init
<1> QED BY <1>1, <1>2, <1>3, <1>4, <1>5, <1>6, <1>7, <1>8, <1>9 DEF TypeOK

\* What the clients and the operator of the server do keeps the types.
LEMMA TypeClient == TypeOK /\ Client => TypeOK'
<1> SUFFICES ASSUME TypeOK, Client PROVE TypeOK'
  OBVIOUS
<1>0. GoOK
  BY DEF TypeOK, GoOK
<1>1. ASSUME NEW c \in Conn, NEW s \in Session, NEW u \in User,
             NEW h \in Handler, Open(c, s, u, h)
      PROVE  TypeOK'
  <2>1. GoOK'
    BY <1>0, <1>1, SpawnType DEF Open
  <2>2. who' \in [Conn -> Identity]
    BY <1>1 DEF Open, TypeOK, Identity
  <2>3. cleanup' \in [Conn -> CleanState]
    <3>1. [cleanup[c] EXCEPT !.pc = "serve"] \in CleanState
      BY CleanStepType DEF CleanPC
    <3> QED BY <1>1, <3>1 DEF Open, TypeOK
  <2> QED BY <1>1, <2>1, <2>2, <2>3 DEF Open, TypeOK, GoOK, maps
<1>2. ASSUME NEW c \in Conn, ClientGone(c)
      PROVE  TypeOK'
  BY <1>2 DEF ClientGone, TypeOK, maps
<1>3. ASSUME NEW s \in Session, NEW d \in Doc \cup {NoDoc}, NEW h \in Handler,
             NEW pc \in {"join", "exit"}, Send(s, h, pc, d)
      PROVE  /\ GoOK'
             /\ hist' \in [listed : SUBSET Conn, late : SUBSET Conn,
                   tangled : SUBSET Conn,
                   lost : SUBSET (User \cup Doc \cup {NoUser, NoDoc})]
  <2> DEFINE c == current[s]
  <2>1. c \in Conn
    BY <1>3 DEF Send, TypeOK
  <2>2. CASE Reading(c)
    <3>1. Spawn(h, c, pc, d)
      BY <1>3, <2>2 DEF Send
    <3>2. GoOK'
      BY <1>0, <2>1, <3>1, SpawnType
    <3>3. [hist EXCEPT !.tangled = @ \cup {c}] \in
            [listed : SUBSET Conn, late : SUBSET Conn, tangled : SUBSET Conn,
             lost : SUBSET (User \cup Doc \cup {NoUser, NoDoc})]
      <4> HIDE DEF c
      <4> QED BY <2>1 DEF TypeOK
    <3>4. \/ hist' = hist
          \/ hist' = [hist EXCEPT !.tangled = @ \cup {c}]
      BY <1>3, <2>2 DEF Send
    <3>5. hist' \in [listed : SUBSET Conn, late : SUBSET Conn,
                     tangled : SUBSET Conn,
                     lost : SUBSET (User \cup Doc \cup {NoUser, NoDoc})]
      BY <3>3, <3>4 DEF TypeOK
    <3> QED BY <3>2, <3>5
  <2>3. CASE ~Reading(c)
    BY <1>0, <1>3, <2>3 DEF Send, TypeOK, GoOK
  <2> QED BY <2>2, <2>3
<1>4. ASSUME NEW s \in Session, NEW d \in Doc, NEW h \in Handler,
             OpenEditor(s, d, h)
      PROVE  TypeOK'
  <2>1. opened' \in 0..MaxOpen
    BY <1>4, PoolAssumption DEF OpenEditor, TypeOK
  <2> QED BY <1>4, <1>3, <2>1 DEF OpenEditor, Send, TypeOK, GoOK, maps
<1>5. ASSUME NEW s \in Session, NEW h \in Handler, CloseEditor(s, h)
      PROVE  TypeOK'
  BY <1>5, <1>3 DEF CloseEditor, Send, TypeOK, GoOK, maps
<1> QED BY <1>1, <1>2, <1>4, <1>5 DEF Client

HistType == [listed : SUBSET Conn, late : SUBSET Conn, tangled : SUBSET Conn,
             lost : SUBSET (User \cup Doc \cup {NoUser, NoDoc})]
RedisType == [Session \cup {NoSession} -> [user : User \cup {NoUser, NoField},
                                         file : Doc \cup {NoDoc, NoField}]]

\* The keys of lists that lost an update are users and documents.
LEMMA LostType ==
    ASSUME TypeOK, NEW key \in User \cup Doc \cup {NoUser, NoDoc}, NEW a, NEW b
    PROVE  [hist EXCEPT !.lost = @ \cup Overwrites(key, a, b)] \in HistType
<1>1. Overwrites(key, a, b) \subseteq User \cup Doc \cup {NoUser, NoDoc}
  BY DEF Overwrites
<1>2. hist \in HistType
  BY DEF TypeOK, HistType
<1> QED BY <1>1, <1>2 DEF HistType

\* Writing a hash (or failing to) keeps the type of Redis.
LEMMA RedisSetType ==
    ASSUME TypeOK, NEW s \in Session \cup {NoSession},
           NEW fields \in [user : User \cup {NoUser, NoField},
                           file : Doc \cup {NoDoc, NoField}],
           Redis(s, fields)
    PROVE  redis' \in RedisType
  BY DEF Redis, TypeOK, RedisType

\* A goroutine that loaded a list into its locals keeps its type.
LEMMA HoldType ==
    ASSUME TypeOK, NEW h \in Handler,
           NEW pc \in AuthPC \cup JoinPC \cup ExitPC, pc # "idle",
           NEW next \in AuthPC \cup JoinPC \cup ExitPC,
           NEW d \in Doc \cup {NoDoc}, NEW s \in Session \cup {NoSession},
           NEW list \in Seq(Session \cup {NoSession}),
           Hold(h, pc, next, d, s, list)
    PROVE  GoOK'
<1>1. go[h].conn \in Conn
  BY DEF TypeOK, Hold
<1>2. [pc |-> next, conn |-> go[h].conn, doc |-> d, session |-> s,
       list |-> list] \in GoState
  BY <1>1 DEF GoState
<1>3. go'[h].conn \in Conn
  BY <1>1 DEF TypeOK, Hold
<1> QED BY <1>2, <1>3 DEF TypeOK, GoOK, Hold

\* The types of the locals of a goroutine.
LEMMA GoField ==
    ASSUME TypeOK, NEW h \in Handler
    PROVE  /\ go[h].doc \in Doc \cup {NoDoc}
           /\ go[h].session \in Session \cup {NoSession}
           /\ go[h].list \in Seq(Session \cup {NoSession})
           /\ go[h].pc # "idle" => go[h].conn \in Conn
  BY DEF TypeOK, GoState

\* The list of a key that is absent is a list of sessions.
LEMMA EmptyList == <<>> \in Seq(Session \cup {NoSession})
  OBVIOUS

\* Every step of handleAuthentication keeps the types.
LEMMA TypeAuth ==
    ASSUME TypeOK, NEW h \in Handler, Auth(h)
    PROVE  TypeOK'
<1> DEFINE c == go[h].conn
<1>0. GoOK
  BY DEF TypeOK, GoOK
<1>a. go[h].pc # "idle" => c \in Conn
  BY DEF TypeOK
<1>1. CASE AuthRefused(h)
  <2>1. GoOK'
    BY <1>0, <1>1, DoneType DEF AuthRefused
  <2> QED BY <1>1, <2>1 DEF AuthRefused, TypeOK, GoOK, clientSide, maps
<1>2. CASE AuthAccepted(h)
  <2>1. Step(h, "auth", "addUser") \/ Done(h, "auth")
    BY <1>2 DEF AuthAccepted
  <2>2. GoOK'
    BY <1>0, <2>1, DoneType, StepType DEF AuthPC
  <2>3. client' \in [Conn -> Identity]
    BY <1>2, <1>a DEF AuthAccepted, TypeOK
  <2> QED BY <1>2, <2>2, <2>3 DEF AuthAccepted, TypeOK, GoOK, clientSide, maps
<1>3. CASE AuthLoadUser(h)
  <2>1. c \in Conn
    BY <1>3, <1>a DEF AuthLoadUser, Hold
  <2>2. client[c].user \in User \cup {NoUser} /\ client[c].session \in Keys
    BY <2>1 DEF TypeOK, Identity, Keys
  <2>3. userIndex[client[c].user] \in Seq(Session \cup {NoSession})
    BY <2>2 DEF TypeOK
  <2>6. GoOK'
    BY <1>3, <2>3, HoldType DEF AuthLoadUser, AuthPC
  <2>7. pool' \in [Session \cup {NoSession} -> Conn \cup {NoConn}]
    BY <1>3, <2>1, <2>2 DEF AuthLoadUser, TypeOK, Keys
  <2> QED BY <1>3, <2>6, <2>7 DEF AuthLoadUser, TypeOK, GoOK, clientSide
<1>4. CASE AuthStoreUser(h)
  <2>1. c \in Conn
    BY <1>4, <1>a DEF AuthStoreUser, Hold
  <2>2. client[c].user \in User \cup {NoUser} /\ client[c].session \in Keys
    BY <2>1 DEF TypeOK, Identity, Keys
  <2>6. GoOK'
    BY <1>4, EmptyList, HoldType DEF AuthStoreUser, AuthPC
  <2>7. Append(go[h].list, client[c].session) \in Seq(Session \cup {NoSession})
    BY <2>2, GoField DEF Keys
  <2>8. userIndex' \in [User \cup {NoUser} -> Seq(Session \cup {NoSession})]
    BY <1>4, <2>7 DEF AuthStoreUser, TypeOK
  <2>9. hist' \in HistType
    <3> DEFINE u == client[c].user
               lost == Overwrites(u, userIndex[u], go[h].list)
    <3>1. lost \subseteq User \cup Doc \cup {NoUser, NoDoc}
      BY <2>2 DEF Overwrites
    <3>2. hist' = [hist EXCEPT !.listed = @ \cup {c}, !.lost = @ \cup lost,
                     !.late = IF cleanup[c].pc = "serve"
                              THEN @ ELSE @ \cup {c}]
      BY <1>4 DEF AuthStoreUser
    <3>3. hist \in HistType
      BY DEF TypeOK, HistType
    <3> HIDE DEF c, lost
    <3> QED BY <2>1, <3>1, <3>2, <3>3 DEF HistType
  <2> QED BY <1>4, <2>6, <2>8, <2>9
          DEF AuthStoreUser, TypeOK, GoOK, clientSide, HistType
<1>5. CASE AuthAddManager(h)
  <2>1. GoOK'
    BY <1>0, <1>5, StepType DEF AuthAddManager, AuthPC
  <2>2. c \in Conn
    BY <1>5, <1>a DEF AuthAddManager, Step
  <2>3. managers' \in [Session \cup {NoSession} -> Conn \cup {NoConn}]
    BY <1>5, <2>2 DEF AuthAddManager, TypeOK
  <2> QED BY <1>5, <2>1, <2>3 DEF AuthAddManager, TypeOK, GoOK, clientSide
<1>6. CASE AuthStoreSessionInRedis(h)
  <2>1. GoOK'
    BY <1>0, <1>6, DoneType DEF AuthStoreSessionInRedis
  <2>2. c \in Conn
    BY <1>6, <1>a DEF AuthStoreSessionInRedis, Done
  <2>3. client[c].user \in User \cup {NoUser}
        /\ client[c].session \in Session \cup {NoSession}
    BY <2>2 DEF TypeOK, Identity
  <2>4. [user |-> client[c].user, file |-> NoDoc] \in
           [user : User \cup {NoUser, NoField},
            file : Doc \cup {NoDoc, NoField}]
    BY <2>3
  <2>5. redis' \in RedisType
    <3>1. CASE Redis(client[c].session,
                     [user |-> client[c].user, file |-> NoDoc])
      BY <3>1, <2>3, <2>4, RedisSetType
    <3>2. CASE UNCHANGED redis
      BY <3>2 DEF TypeOK, RedisType
    <3> QED BY <1>6, <3>1, <3>2 DEF AuthStoreSessionInRedis
  <2> QED BY <1>6, <2>1, <2>5
          DEF AuthStoreSessionInRedis, TypeOK, GoOK, clientSide, maps,
              RedisType
<1> QED BY <1>1, <1>2, <1>3, <1>4, <1>5, <1>6 DEF Auth

\* A hash whose currentFileUUID is set has the type of a hash.
LEMMA RedisFieldType ==
    ASSUME TypeOK, NEW s \in Session \cup {NoSession},
           NEW f \in Doc \cup {NoDoc}
    PROVE  [redis[s] EXCEPT !.file = f] \in
             [user : User \cup {NoUser, NoField},
              file : Doc \cup {NoDoc, NoField}]
<1>1. redis[s] \in
        [user : User \cup {NoUser, NoField},
         file : Doc \cup {NoDoc, NoField}]
  BY DEF TypeOK
<1> QED BY <1>1

\* The types of the fields of a ConnectionManager and of its lists.
LEMMA ClientField ==
    ASSUME TypeOK, NEW c \in Conn
    PROVE  /\ client[c].user \in User \cup {NoUser}
           /\ client[c].session \in Session \cup {NoSession}
           /\ file[c] \in Doc \cup {NoDoc}
           /\ userIndex[client[c].user] \in Seq(Session \cup {NoSession})
           /\ docSessions[file[c]] \in Seq(Session \cup {NoSession})
<1>1. client[c].user \in User \cup {NoUser}
      /\ client[c].session \in Session \cup {NoSession}
  BY DEF TypeOK, Identity
<1>2. file[c] \in Doc \cup {NoDoc}
  BY DEF TypeOK
<1> QED BY <1>1, <1>2 DEF TypeOK

\* Every step of handleJoinFile keeps the types.
LEMMA TypeJoin ==
    ASSUME TypeOK, NEW h \in Handler, Join(h)
    PROVE  TypeOK'
<1> DEFINE c == go[h].conn
<1>0. GoOK
  BY DEF TypeOK, GoOK
<1>1. CASE JoinSetFile(h)
  <2>1. GoOK'
    BY <1>0, <1>1, StepType DEF JoinSetFile, JoinPC
  <2>2. file' \in [Conn -> Doc \cup {NoDoc}]
    BY <1>1, GoField DEF JoinSetFile, TypeOK
  <2> QED BY <1>1, <2>1, <2>2 DEF JoinSetFile, TypeOK, GoOK, clientSide, maps
<1>2. CASE JoinAddFileInSession(h)
  <2> DEFINE s == client[c].session
  <2>1. GoOK'
    BY <1>0, <1>2, StepType DEF JoinAddFileInSession, JoinPC
  <2>2. c \in Conn
    BY <1>2, GoField DEF JoinAddFileInSession, Step
  <2>3. s \in Session \cup {NoSession}
    BY <2>2, ClientField
  <2>4. [redis[s] EXCEPT !.file = go[h].doc] \in
           [user : User \cup {NoUser, NoField},
            file : Doc \cup {NoDoc, NoField}]
    <3> HIDE DEF s
    <3> QED BY <2>3, GoField, RedisFieldType
  <2>5. Redis(s, [redis[s] EXCEPT !.file = go[h].doc])
    BY <1>2 DEF JoinAddFileInSession
  <2>6. redis' \in RedisType
    <3> HIDE DEF s
    <3> QED BY <2>3, <2>4, <2>5, RedisSetType
  <2> QED BY <1>2, <2>1, <2>6
          DEF JoinAddFileInSession, TypeOK, GoOK, clientSide, maps,
              RedisType
<1>3. CASE JoinLoadDoc(h)
  <2>1. c \in Conn
    BY <1>3, GoField DEF JoinLoadDoc, Hold
  <2>2. docSessions[go[h].doc] \in Seq(Session \cup {NoSession})
    BY GoField DEF TypeOK
  <2>3. GoOK'
    <3> DEFINE s == client[c].session
               list == docSessions[go[h].doc]
    <3>1. Hold(h, "joinLoad", "joinStore", go[h].doc, s, list)
      BY <1>3 DEF JoinLoadDoc
    <3>2. s \in Session \cup {NoSession} /\ go[h].doc \in Doc \cup {NoDoc}
      BY <2>1, ClientField, GoField
    <3> HIDE DEF s, list
    <3> QED BY <2>2, <3>1, <3>2, HoldType DEF list, JoinPC
  <2> QED BY <1>3, <2>3 DEF JoinLoadDoc, TypeOK, GoOK, clientSide, maps
<1>4. CASE JoinStoreDoc(h)
  <2>1. GoOK'
    BY <1>0, <1>4, DoneType DEF JoinStoreDoc
  <2>2. Append(go[h].list, go[h].session) \in Seq(Session \cup {NoSession})
    BY GoField
  <2>3. docSessions' \in [Doc \cup {NoDoc} -> Seq(Session \cup {NoSession})]
    BY <1>4, <2>2 DEF JoinStoreDoc, TypeOK
  <2>4. hist' \in HistType
    BY <1>4, GoField, LostType DEF JoinStoreDoc
  <2> QED BY <1>4, <2>1, <2>3, <2>4
          DEF JoinStoreDoc, TypeOK, GoOK, clientSide, HistType
<1> QED BY <1>1, <1>2, <1>3, <1>4 DEF Join

\* Every step of handleExitFile keeps the types.
LEMMA TypeExit ==
    ASSUME TypeOK, NEW h \in Handler, Exit(h)
    PROVE  TypeOK'
<1> DEFINE c == go[h].conn
<1>0. GoOK
  BY DEF TypeOK, GoOK
<1>1. CASE ExitLoadDoc(h)
  <2>1. c \in Conn
    BY <1>1, GoField DEF ExitLoadDoc, Hold, Step
  <2>2. CASE searchIndex(client[c].session, docSessions[file[c]]) # 0
    <3>1. Hold(h, "exit", "exitStore", file[c], client[c].session,
               docSessions[file[c]])
      BY <1>1, <2>2 DEF ExitLoadDoc
    <3>2. GoOK'
      BY <2>1, <3>1, ClientField, HoldType DEF ExitPC
    <3> QED BY <1>1, <3>2 DEF ExitLoadDoc, TypeOK, GoOK, clientSide, maps
  <2>3. CASE searchIndex(client[c].session, docSessions[file[c]]) = 0
    <3>1. Step(h, "exit", "exitRedis")
      BY <1>1, <2>3 DEF ExitLoadDoc
    <3>2. GoOK'
      BY <1>0, <3>1, StepType DEF ExitPC
    <3> QED BY <1>1, <3>2 DEF ExitLoadDoc, TypeOK, GoOK, clientSide, maps
  <2> QED BY <2>2, <2>3
<1>2. CASE ExitStoreDoc(h)
  <2>1. GoOK'
    BY <1>2, EmptyList, HoldType DEF ExitStoreDoc, ExitPC
  <2>2. WithoutSession(go[h].list, go[h].session) \in
          Seq(Session \cup {NoSession})
    BY GoField, WithoutSessionIs
  <2>3. docSessions' \in [Doc \cup {NoDoc} -> Seq(Session \cup {NoSession})]
    BY <1>2, <2>2 DEF ExitStoreDoc, TypeOK
  <2>4. hist' \in HistType
    BY <1>2, GoField, LostType DEF ExitStoreDoc
  <2>5. file' \in [Conn -> Doc \cup {NoDoc}]
    BY <1>2 DEF ExitStoreDoc, TypeOK
  <2> QED BY <1>2, <2>1, <2>3, <2>4, <2>5
          DEF ExitStoreDoc, TypeOK, GoOK, clientSide, HistType
<1>3. CASE ExitDeleteFileInSession(h)
  <2> DEFINE s == client[c].session
  <2>1. GoOK'
    BY <1>0, <1>3, DoneType DEF ExitDeleteFileInSession
  <2>2. c \in Conn
    BY <1>3, GoField DEF ExitDeleteFileInSession, Done
  <2>3. s \in Session \cup {NoSession}
    BY <2>2, ClientField
  <2>4. [redis[s] EXCEPT !.file = NoDoc] \in
           [user : User \cup {NoUser, NoField},
            file : Doc \cup {NoDoc, NoField}]
    <3> HIDE DEF s
    <3> QED BY <2>3, RedisFieldType
  <2>5. Redis(s, [redis[s] EXCEPT !.file = NoDoc])
    BY <1>3 DEF ExitDeleteFileInSession
  <2>6. redis' \in RedisType
    <3> HIDE DEF s
    <3> QED BY <2>3, <2>4, <2>5, RedisSetType
  <2> QED BY <1>3, <2>1, <2>6
          DEF ExitDeleteFileInSession, TypeOK, GoOK, clientSide, maps,
              RedisType
<1> QED BY <1>1, <1>2, <1>3 DEF Exit

\* A cleanup that loaded a list into its locals keeps its type.
LEMMA CleanHoldType ==
    ASSUME TypeOK, NEW c \in Conn, NEW pc, NEW next \in CleanPC,
           NEW d \in Doc \cup {NoDoc}, NEW s \in Session \cup {NoSession},
           NEW list \in Seq(Session \cup {NoSession}),
           CleanHold(c, pc, next, d, s, list)
    PROVE  cleanup' \in [Conn -> CleanState]
<1>1. [pc |-> next, conn |-> NoConn, doc |-> d, session |-> s, list |-> list]
        \in CleanState
  BY DEF CleanState
<1> QED BY <1>1 DEF TypeOK, CleanHold

\* The types of the locals of a cleanup.
LEMMA CleanField ==
    ASSUME TypeOK, NEW c \in Conn
    PROVE  /\ cleanup[c].doc \in Doc \cup {NoDoc}
           /\ cleanup[c].list \in Seq(Session \cup {NoSession})
  BY DEF TypeOK, CleanState

\* Every step of DeleteLocal and DeleteSessionInRedis keeps the types.
LEMMA TypeClean ==
    ASSUME TypeOK, NEW c \in Conn, Clean(c)
    PROVE  TypeOK'
<1> DEFINE u == client[c].user
           s == client[c].session
<1>1. CASE CleanLoadUser(c)
  <2>1. cleanup' \in [Conn -> CleanState]
    <3>1. CASE CleanHold(c, "serve", "storeUser", NoDoc, s, userIndex[u])
      BY <3>1, ClientField, CleanHoldType DEF CleanPC
    <3>2. CASE CleanStep(c, "serve", "delManager")
      <4>1. [cleanup[c] EXCEPT !.pc = "delManager"] \in CleanState
        BY CleanStepType DEF CleanPC
      <4> QED BY <3>2, <4>1 DEF CleanStep, TypeOK
    <3> QED BY <1>1, <3>1, <3>2 DEF CleanLoadUser
  <2>2. hist' \in HistType
    BY <1>1 DEF CleanLoadUser, TypeOK, HistType
  <2>3. pool' \in [Session \cup {NoSession} -> Conn \cup {NoConn}]
    BY <1>1 DEF CleanLoadUser, TypeOK
  <2> QED BY <1>1, <2>1, <2>2, <2>3
          DEF CleanLoadUser, TypeOK, clientSide, HistType
<1>2. CASE CleanStoreUser(c)
  <2>1. cleanup' \in [Conn -> CleanState]
    BY <1>2, EmptyList, CleanHoldType DEF CleanStoreUser, CleanPC
  <2>2. WithoutSession(cleanup[c].list, cleanup[c].session) \in
          Seq(Session \cup {NoSession})
    BY CleanField, WithoutSessionIs
  <2>3. userIndex' \in [User \cup {NoUser} -> Seq(Session \cup {NoSession})]
    BY <1>2, <2>2 DEF CleanStoreUser, TypeOK
  <2>4. hist' \in HistType
    BY <1>2, ClientField, LostType DEF CleanStoreUser
  <2> QED BY <1>2, <2>1, <2>3, <2>4
          DEF CleanStoreUser, TypeOK, clientSide, HistType
<1>3. CASE CleanDeleteManagersMap(c)
  <2>1. cleanup' \in [Conn -> CleanState]
    <3>1. [cleanup[c] EXCEPT !.pc = "loadDoc"] \in CleanState
      BY CleanStepType DEF CleanPC
    <3> QED BY <1>3, <3>1 DEF CleanDeleteManagersMap, CleanStep, TypeOK
  <2>2. managers' \in [Session \cup {NoSession} -> Conn \cup {NoConn}]
    BY <1>3 DEF CleanDeleteManagersMap, TypeOK
  <2> QED BY <1>3, <2>1, <2>2 DEF CleanDeleteManagersMap, TypeOK, clientSide
<1>4. CASE CleanLoadDoc(c)
  <2>1. cleanup' \in [Conn -> CleanState]
    <3>1. CASE CleanHold(c, "loadDoc", "storeDoc", file[c], s,
                         docSessions[file[c]])
      BY <3>1, ClientField, CleanHoldType DEF CleanPC
    <3>2. CASE CleanStep(c, "loadDoc", "delRedis")
      <4>1. [cleanup[c] EXCEPT !.pc = "delRedis"] \in CleanState
        BY CleanStepType DEF CleanPC
      <4> QED BY <3>2, <4>1 DEF CleanStep, TypeOK
    <3> QED BY <1>4, <3>1, <3>2 DEF CleanLoadDoc
  <2>2. hist' \in HistType
    BY <1>4 DEF CleanLoadDoc, TypeOK, HistType
  <2> QED BY <1>4, <2>1, <2>2
          DEF CleanLoadDoc, TypeOK, clientSide, maps, HistType
<1>5. CASE CleanStoreDoc(c)
  <2>1. cleanup' \in [Conn -> CleanState]
    BY <1>5, EmptyList, CleanHoldType DEF CleanStoreDoc, CleanPC
  <2>2. WithoutSession(cleanup[c].list, cleanup[c].session) \in
          Seq(Session \cup {NoSession})
    BY CleanField, WithoutSessionIs
  <2>3. docSessions' \in [Doc \cup {NoDoc} -> Seq(Session \cup {NoSession})]
    BY <1>5, <2>2 DEF CleanStoreDoc, TypeOK
  <2>4. hist' \in HistType
    BY <1>5, CleanField, LostType DEF CleanStoreDoc
  <2>5. file' \in [Conn -> Doc \cup {NoDoc}]
    BY <1>5 DEF CleanStoreDoc, TypeOK
  <2> QED BY <1>5, <2>1, <2>3, <2>4, <2>5
          DEF CleanStoreDoc, TypeOK, clientSide, HistType
<1>6. CASE CleanDeleteSessionInRedis(c)
  <2>1. cleanup' \in [Conn -> CleanState]
    <3>1. [cleanup[c] EXCEPT !.pc = "finished"] \in CleanState
      BY CleanStepType DEF CleanPC
    <3> QED BY <1>6, <3>1 DEF CleanDeleteSessionInRedis, CleanStep, TypeOK
  <2>2. Absent \in
          [user : User \cup {NoUser, NoField},
           file : Doc \cup {NoDoc, NoField}]
    BY DEF Absent
  <2>3. redis' \in RedisType
    BY <1>6, <2>2, ClientField, RedisSetType DEF CleanDeleteSessionInRedis
  <2>4. link' \in [Conn -> {"none", "up", "lost", "closed"}]
    BY <1>6 DEF CleanDeleteSessionInRedis, TypeOK
  <2> QED BY <1>6, <2>1, <2>3, <2>4
          DEF CleanDeleteSessionInRedis, TypeOK, maps, RedisType
<1> QED BY <1>1, <1>2, <1>3, <1>4, <1>5, <1>6 DEF Clean

\* Every step of the system keeps the types.
LEMMA TypeStep == TypeOK /\ [Next]_vars => TypeOK'
<1> SUFFICES ASSUME TypeOK, [Next]_vars PROVE TypeOK'
  OBVIOUS
<1>1. CASE Client
  BY <1>1, TypeClient
<1>2. ASSUME NEW h \in Handler, Auth(h) \/ Join(h) \/ Exit(h) PROVE TypeOK'
  BY <1>2, TypeAuth, TypeJoin, TypeExit
<1>3. ASSUME NEW c \in Conn, Clean(c) PROVE TypeOK'
  BY <1>3, TypeClean
<1>4. ASSUME NEW c \in Conn, PumpExit(c) PROVE TypeOK'
  BY <1>4 DEF PumpExit, TypeOK, maps
<1>5. CASE Shutdown
  BY <1>5 DEF Shutdown, TypeOK, clientSide, maps
<1>6. CASE UNCHANGED vars
  BY <1>6 DEF vars, TypeOK
<1> QED BY <1>1, <1>2, <1>3, <1>4, <1>5, <1>6 DEF Next

(***************************************************************************)
(* Every reachable state is type correct.                                  *)
(***************************************************************************)
THEOREM TypeCorrect == Spec => []TypeOK
  BY TypeInit, TypeStep, PTL DEF Spec

-----------------------------------------------------------------------------
(***************************************************************************)
(* EvictedOnlyByOwnTab needs to know which connection a goroutine or a     *)
(* cleanup can speak for.  The strengthening below says that a connection  *)
(* not yet opened has left no trace, that an open one carries a tab's      *)
(* identity, that a connection is authenticated by at most one goroutine,  *)
(* after whose assignment `client` is the identity of the tab and before   *)
(* whose Store the connection is not listed.                               *)
(***************************************************************************)
Unopened ==
    \A c \in Conn : link[c] = "none" =>
        /\ client[c] = Nobody
        /\ cleanup[c].pc = "none"
        /\ c \notin hist.listed
        /\ \A h \in Handler : go[h].pc # "idle" => go[h].conn # c
Opened ==
    \A c \in Conn : link[c] # "none" => who[c].session \in Session
ClientIsTab ==
    \A c \in Conn : client[c] = Nobody \/ client[c] = who[c]
AuthOnce ==
    \A g, h \in Handler :
        /\ go[g].pc \in AuthPC /\ go[h].pc \in AuthPC
        /\ go[g].conn = go[h].conn
        => g = h
AuthAssigned ==
    /\ \A h \in Handler : go[h].pc \in AuthPC \ {"auth"} =>
          client[go[h].conn] = who[go[h].conn]
    /\ \A c \in hist.listed : client[c] = who[c]
AuthNotListed ==
    \A h \in Handler : go[h].pc \in {"auth", "addUser", "storeUser"} =>
        go[h].conn \notin hist.listed

\* The entries are there from the step that stores them on.
ManagerStored(c) ==
    /\ c \in hist.listed
    /\ \A h \in Handler : ~(go[h].pc = "addManager" /\ go[h].conn = c)
Unrivalled(c) == Serving(c) /\ \A d \in SameTab(c) : ~Identified(d)
ManagerKept ==
    \A c \in Conn : Unrivalled(c) /\ ManagerStored(c) =>
        managers[who[c].session] = c
RedisKept ==
    \A c \in Conn : Unrivalled(c) /\ Registered(c) /\ ~RedisMayFail =>
        redis[who[c].session].user = who[c].user

Bookkeeping == /\ Unopened /\ Opened /\ ClientIsTab
               /\ AuthOnce /\ AuthAssigned /\ AuthNotListed
IInv == TypeOK /\ Bookkeeping /\ ManagerKept /\ RedisKept

\* What a step of goroutine h does to go.
Others(h) == \A g \in Handler \ {h} : go'[g] = go[g]

\* What a started goroutine looks like; the others are as they were.
LEMMA AfterSpawn ==
    ASSUME TypeOK, NEW h \in Handler, NEW c, NEW pc, NEW d, Spawn(h, c, pc, d)
    PROVE  /\ go[h].pc = "idle" /\ go'[h].pc = pc /\ go'[h].conn = c
           /\ Others(h)
  BY DEF TypeOK, Spawn, Idle, Others

\* What a goroutine looks like after a step that loads nothing.
LEMMA AfterStep ==
    ASSUME TypeOK, NEW h \in Handler, NEW pc, NEW next, Step(h, pc, next)
    PROVE  /\ go[h].pc = pc /\ go'[h].pc = next /\ go'[h].conn = go[h].conn
           /\ Others(h)
  BY DEF TypeOK, GoState, Step, Others

\* What a goroutine looks like after a step that loads a list.
LEMMA AfterHold ==
    ASSUME TypeOK, NEW h \in Handler, NEW pc, NEW next, NEW d, NEW s, NEW list,
           Hold(h, pc, next, d, s, list)
    PROVE  /\ go[h].pc = pc /\ go'[h].pc = next /\ go'[h].conn = go[h].conn
           /\ Others(h)
  BY DEF TypeOK, Hold, Others

\* What a goroutine looks like after its last step.
LEMMA AfterDone ==
    ASSUME TypeOK, NEW h \in Handler, NEW pc, Done(h, pc)
    PROVE  go[h].pc = pc /\ go'[h].pc = "idle" /\ Others(h)
  BY DEF TypeOK, Done, Idle, Others

\* Only connections are remembered as registered.
LEMMA ListedType == TypeOK => hist.listed \subseteq Conn
  BY DEF TypeOK

\* Steps that neither open a connection nor advance an authentication.
LEMMA BookkeepingFrame ==
    ASSUME TypeOK, Bookkeeping,
           UNCHANGED <<client, who, hist.listed>>,
           \A c \in Conn : link[c] = "none" => cleanup'[c].pc = "none",
           \A c \in Conn : link'[c] = "none" <=> link[c] = "none",
           \A h \in Handler :
              \/ go'[h].pc = go[h].pc /\ go'[h].conn = go[h].conn
              \/ go'[h].pc = "idle"
              \/ /\ go'[h].pc \notin AuthPC /\ link[go'[h].conn] # "none"
    PROVE  Bookkeeping'
<1>1. Unopened'
  BY DEF Bookkeeping, Unopened
<1>2. Opened' /\ ClientIsTab'
  BY DEF Bookkeeping, Opened, ClientIsTab
<1>3. AuthOnce'
  BY DEF Bookkeeping, AuthOnce, AuthPC
<1>4. AuthAssigned'
  BY DEF Bookkeeping, AuthAssigned, AuthPC
<1>5. AuthNotListed'
  BY DEF Bookkeeping, AuthNotListed, AuthPC
<1> QED BY <1>1, <1>2, <1>3, <1>4, <1>5 DEF Bookkeeping

\* The client side keeps the bookkeeping of connections.
LEMMA BookkeepingClient ==
    ASSUME TypeOK, Bookkeeping, Client
    PROVE  Bookkeeping'
<1>1. ASSUME NEW c \in Conn, NEW s \in Session, NEW u \in User,
             NEW h \in Handler, Open(c, s, u, h)
      PROVE  Bookkeeping'
  <2>1. /\ link[c] = "none" /\ client[c] = Nobody /\ c \notin hist.listed
        /\ \A g \in Handler : go[g].pc # "idle" => go[g].conn # c
    BY <1>1 DEF Open, Bookkeeping, Unopened
  <2>2. /\ go[h].pc = "idle" /\ go'[h].pc = "auth" /\ go'[h].conn = c
        /\ Others(h)
    BY <1>1, AfterSpawn DEF Open
  <2>3. /\ client' = client /\ hist' = hist
        /\ \A d \in Conn \ {c} : /\ link'[d] = link[d] /\ who'[d] = who[d]
                                /\ cleanup'[d] = cleanup[d]
        /\ link'[c] = "up" /\ who'[c].session = s
    BY <1>1 DEF Open, TypeOK
  <2>4. Unopened'
    BY <2>2, <2>3 DEF Bookkeeping, Unopened, Others
  <2>5. Opened'
    BY <2>3 DEF Bookkeeping, Opened
  <2>6. ClientIsTab'
    BY <2>1, <2>3 DEF Bookkeeping, ClientIsTab
  <2>7. AuthOnce'
    BY <2>1, <2>2 DEF Bookkeeping, AuthOnce, Others, AuthPC
  <2>8. AuthAssigned'
    <3>1. ASSUME NEW g \in Handler, go'[g].pc \in AuthPC \ {"auth"}
          PROVE  client'[go'[g].conn] = who'[go'[g].conn]
      <4>1. g # h /\ go'[g] = go[g]
        BY <3>1, <2>2 DEF Others
      <4>2. go[g].conn # c /\ go[g].conn \in Conn
        BY <3>1, <4>1, <2>1, GoField DEF AuthPC
      <4>3. client[go[g].conn] = who[go[g].conn]
        BY <3>1, <4>1 DEF Bookkeeping, AuthAssigned
      <4> QED BY <4>1, <4>2, <4>3, <2>3
    <3>2. ASSUME NEW d \in hist.listed
          PROVE  client'[d] = who'[d]
      BY <2>1, <2>3, ListedType DEF Bookkeeping, AuthAssigned
    <3> QED BY <3>1, <3>2, <2>3 DEF AuthAssigned
  <2>9. AuthNotListed'
    BY <2>1, <2>2, <2>3 DEF Bookkeeping, AuthNotListed, Others
  <2> QED BY <2>4, <2>5, <2>6, <2>7, <2>8, <2>9 DEF Bookkeeping
<1>2. ASSUME NEW c \in Conn, ClientGone(c)
      PROVE  Bookkeeping'
  BY <1>2, BookkeepingFrame DEF ClientGone, TypeOK, Bookkeeping, Unopened
<1>3. ASSUME NEW s \in Session, NEW d, NEW h \in Handler,
             NEW pc \in {"join", "exit"}, Send(s, h, pc, d)
      PROVE  Bookkeeping'
  <2> DEFINE c == current[s]
  <2>1. UNCHANGED <<client, who, link, cleanup>>
    BY <1>3 DEF Send
  <2>2. hist'.listed = hist.listed
    BY <1>3 DEF Send, TypeOK
  <2>3. CASE Reading(c)
    <3>1. go'[h].pc = pc /\ go'[h].conn = c /\ Others(h)
      BY <1>3, <2>3, AfterSpawn DEF Send
    <3>2. link[c] # "none"
      BY <2>3 DEF Reading
    <3>3. pc \notin AuthPC
      BY DEF AuthPC
    <3>4. \A g \in Handler :
              \/ go'[g].pc = go[g].pc /\ go'[g].conn = go[g].conn
              \/ /\ go'[g].pc \notin AuthPC /\ link[go'[g].conn] # "none"
      BY <3>1, <3>2, <3>3 DEF Others
    <3> QED BY <2>1, <2>2, <3>4, BookkeepingFrame DEF Bookkeeping, Unopened
  <2>4. CASE ~Reading(c)
    <3>1. go' = go
      BY <1>3, <2>4 DEF Send
    <3> QED BY <2>1, <2>2, <3>1, BookkeepingFrame DEF Bookkeeping, Unopened
  <2> QED BY <2>3, <2>4
<1>4. ASSUME NEW s \in Session, NEW d \in Doc, NEW h \in Handler,
             OpenEditor(s, d, h)
      PROVE  Bookkeeping'
  BY <1>4, <1>3 DEF OpenEditor
<1>5. ASSUME NEW s \in Session, NEW h \in Handler, CloseEditor(s, h)
      PROVE  Bookkeeping'
  BY <1>5, <1>3 DEF CloseEditor
<1> QED BY <1>1, <1>2, <1>4, <1>5 DEF Client

\* joinFile and exitFile keep the bookkeeping of connections.
LEMMA BookkeepingJoinExit ==
    ASSUME TypeOK, Bookkeeping, NEW h \in Handler, Join(h) \/ Exit(h)
    PROVE  Bookkeeping'
<1>1. UNCHANGED <<client, who, link, cleanup>>
  BY DEF Join, Exit, JoinSetFile, JoinAddFileInSession, JoinLoadDoc,
     JoinStoreDoc, ExitLoadDoc, ExitStoreDoc, ExitDeleteFileInSession,
     clientSide
<1>2. hist'.listed = hist.listed
  BY DEF Join, Exit, JoinSetFile, JoinAddFileInSession, JoinLoadDoc,
     JoinStoreDoc, ExitLoadDoc, ExitStoreDoc, ExitDeleteFileInSession, TypeOK
<1>3. /\ Others(h) /\ go[h].pc # "idle"
      /\ \/ go'[h].pc = "idle"
         \/ go'[h].pc \in JoinPC \cup ExitPC /\ go'[h].conn = go[h].conn
  <2>1. CASE JoinStoreDoc(h) \/ ExitDeleteFileInSession(h)
    BY <2>1, AfterDone DEF JoinStoreDoc, ExitDeleteFileInSession
  <2>2. CASE JoinSetFile(h) \/ JoinAddFileInSession(h)
    BY <2>2, AfterStep DEF JoinSetFile, JoinAddFileInSession, JoinPC
  <2>3. CASE JoinLoadDoc(h) \/ ExitStoreDoc(h)
    <3>1. \E d, s, list : \/ Hold(h, "joinLoad", "joinStore", d, s, list)
                          \/ Hold(h, "exitStore", "exitRedis", d, s, list)
      BY <2>3 DEF JoinLoadDoc, ExitStoreDoc
    <3> QED BY <3>1, AfterHold DEF JoinPC, ExitPC
  <2>4. CASE ExitLoadDoc(h)
    <3>1. \/ Step(h, "exit", "exitRedis")
          \/ \E d, s, list : Hold(h, "exit", "exitStore", d, s, list)
      BY <2>4 DEF ExitLoadDoc
    <3> QED BY <3>1, AfterStep, AfterHold DEF ExitPC
  <2> QED BY <2>1, <2>2, <2>3, <2>4 DEF Join, Exit
<1>4. link[go[h].conn] # "none"
  BY <1>3, GoField DEF Bookkeeping, Unopened
<1>5. \A g \in Handler :
          \/ go'[g].pc = go[g].pc /\ go'[g].conn = go[g].conn
          \/ go'[g].pc = "idle"
          \/ /\ go'[g].pc \notin AuthPC /\ link[go'[g].conn] # "none"
  BY <1>3, <1>4 DEF Others, AuthPC, JoinPC, ExitPC
<1> QED BY <1>1, <1>2, <1>5, BookkeepingFrame DEF Bookkeeping, Unopened

\* The cleanup of a connection keeps the bookkeeping.
LEMMA BookkeepingClean ==
    ASSUME TypeOK, Bookkeeping, NEW c \in Conn, Clean(c)
    PROVE  Bookkeeping'
<1>1. UNCHANGED <<client, who, go>>
  BY DEF Clean, CleanLoadUser, CleanStoreUser, CleanDeleteManagersMap,
     CleanLoadDoc, CleanStoreDoc, CleanDeleteSessionInRedis, clientSide
<1>2. hist'.listed = hist.listed
  BY DEF Clean, CleanLoadUser, CleanStoreUser, CleanDeleteManagersMap,
     CleanLoadDoc, CleanStoreDoc, CleanDeleteSessionInRedis, TypeOK
<1>3. /\ cleanup[c].pc # "none"
      /\ \A d \in Conn \ {c} : cleanup'[d] = cleanup[d]
  BY DEF Clean, CleanLoadUser, CleanStoreUser, CleanDeleteManagersMap,
     CleanLoadDoc, CleanStoreDoc, CleanDeleteSessionInRedis,
     CleanHold, CleanStep, TypeOK
<1>4. link[c] # "none"
  BY <1>3 DEF Bookkeeping, Unopened
<1>5. \A d \in Conn : link'[d] = "none" <=> link[d] = "none"
  BY <1>4 DEF Clean, CleanLoadUser, CleanStoreUser, CleanDeleteManagersMap,
     CleanLoadDoc, CleanStoreDoc, CleanDeleteSessionInRedis, clientSide, TypeOK
<1>6. \A d \in Conn : link[d] = "none" => cleanup'[d].pc = "none"
  BY <1>3, <1>4 DEF Bookkeeping, Unopened
<1> QED BY <1>1, <1>2, <1>5, <1>6, BookkeepingFrame

\* Authentication, the one that identifies connections, keeps it too.
LEMMA BookkeepingAuth ==
    ASSUME TypeOK, Bookkeeping, NEW h \in Handler, Auth(h)
    PROVE  Bookkeeping'
<1> DEFINE c == go[h].conn
<1>0. /\ go[h].pc \in AuthPC /\ c \in Conn /\ link[c] # "none"
      /\ Others(h)
      /\ \/ go'[h].pc = "idle"
         \/ go'[h].pc \in AuthPC /\ go'[h].conn = c
  <2>1. go[h].pc \in AuthPC
    BY DEF Auth, AuthRefused, AuthAccepted, AuthLoadUser, AuthStoreUser,
       AuthAddManager, AuthStoreSessionInRedis, Step, Hold, Done, AuthPC
  <2>2. c \in Conn /\ link[c] # "none"
    BY <2>1, GoField DEF AuthPC, Bookkeeping, Unopened
  <2>3. /\ Others(h)
        /\ \/ go'[h].pc = "idle"
           \/ go'[h].pc \in AuthPC /\ go'[h].conn = c
    <3>1. CASE AuthRefused(h) \/ AuthStoreSessionInRedis(h)
      BY <3>1, AfterDone DEF AuthRefused, AuthStoreSessionInRedis
    <3>2. CASE AuthAccepted(h) \/ AuthAddManager(h)
      BY <3>2, AfterStep, AfterDone DEF AuthAccepted, AuthAddManager, AuthPC
    <3>3. CASE AuthLoadUser(h) \/ AuthStoreUser(h)
      <4>1. \E d, s, list : \/ Hold(h, "addUser", "storeUser", d, s, list)
                            \/ Hold(h, "storeUser", "addManager", d, s, list)
        BY <3>3 DEF AuthLoadUser, AuthStoreUser
      <4> QED BY <4>1, AfterHold DEF AuthPC
    <3> QED BY <3>1, <3>2, <3>3 DEF Auth
  <2> QED BY <2>1, <2>2, <2>3
<1>1. UNCHANGED <<link, who, cleanup>>
  BY DEF Auth, AuthRefused, AuthAccepted, AuthLoadUser, AuthStoreUser,
     AuthAddManager, AuthStoreSessionInRedis, clientSide
\* No other goroutine authenticates c.
<1>2. \A g \in Handler : go'[g].pc \in AuthPC /\ go'[g].conn = c => g = h
  BY <1>0 DEF Bookkeeping, AuthOnce, Others
<1>3. AuthOnce'
  BY <1>0 DEF Bookkeeping, AuthOnce, Others, AuthPC
<1>4. /\ \A d \in Conn \ {c} : client'[d] = client[d]
      /\ client'[c] = client[c] \/ client'[c] = who[c]
      /\ hist'.listed \subseteq hist.listed \cup {c}
  BY <1>0 DEF Auth, AuthRefused, AuthAccepted, AuthLoadUser, AuthStoreUser,
     AuthAddManager, AuthStoreSessionInRedis, TypeOK
<1>5. Unopened'
  BY <1>0, <1>1, <1>4 DEF Bookkeeping, Unopened, Others
<1>6. Opened' /\ ClientIsTab'
  BY <1>1, <1>4 DEF Bookkeeping, Opened, ClientIsTab
\* Past "auth", the identity is assigned and stays so.
<1>7. /\ go'[h].pc \in AuthPC => client'[c] = who[c]
      /\ c \in hist'.listed => client'[c] = who[c]
  <2>1. CASE AuthRefused(h)
    BY <2>1, AfterDone DEF AuthRefused, Bookkeeping, AuthAssigned, AuthPC
  <2>2. CASE AuthAccepted(h)
    BY <2>2, <1>0 DEF AuthAccepted, TypeOK
  <2>3. CASE Auth(h) /\ ~AuthRefused(h) /\ ~AuthAccepted(h)
    <3>1. client' = client /\ go[h].pc \in AuthPC \ {"auth"}
      BY <2>3 DEF Auth, AuthLoadUser, AuthStoreUser, AuthAddManager,
         AuthStoreSessionInRedis, Step, Hold, Done, AuthPC
    <3> QED BY <3>1 DEF Bookkeeping, AuthAssigned
  <2> QED BY <2>1, <2>2, <2>3
<1>8. AuthAssigned'
  <2>1. ASSUME NEW g \in Handler, go'[g].pc \in AuthPC \ {"auth"}
        PROVE  client'[go'[g].conn] = who'[go'[g].conn]
    <3>1. CASE g = h
      BY <3>1, <2>1, <1>0, <1>1, <1>7 DEF AuthPC
    <3>2. CASE g # h
      <4>1. go'[g] = go[g] /\ go[g].conn # c
        BY <3>2, <2>1, <1>0, <1>2 DEF Others
      <4>2. go[g].conn \in Conn
        BY <4>1, <2>1, GoField DEF AuthPC
      <4>3. client[go[g].conn] = who[go[g].conn]
        BY <4>1, <2>1 DEF Bookkeeping, AuthAssigned
      <4> QED BY <4>1, <4>2, <4>3, <1>1, <1>4
    <3> QED BY <3>1, <3>2
  <2>2. ASSUME NEW d \in hist'.listed
        PROVE  client'[d] = who'[d]
    <3>1. CASE d = c
      BY <2>2, <3>1, <1>1, <1>7
    <3>2. CASE d # c
      BY <2>2, <3>2, <1>1, <1>4, ListedType DEF Bookkeeping, AuthAssigned
    <3> QED BY <3>1, <3>2
  <2> QED BY <2>1, <2>2 DEF AuthAssigned
<1>9. AuthNotListed'
  <2>1. ASSUME go'[h].pc \in {"auth", "addUser", "storeUser"}
        PROVE  c \notin hist'.listed
    <3>1. AuthAccepted(h) \/ AuthLoadUser(h)
      <4>1. ~AuthRefused(h) /\ ~AuthStoreSessionInRedis(h)
        BY <2>1, AfterDone DEF AuthRefused, AuthStoreSessionInRedis
      <4>2. ~AuthAddManager(h)
        BY <2>1, AfterStep DEF AuthAddManager
      <4>3. ~AuthStoreUser(h)
        BY <2>1, AfterHold DEF AuthStoreUser
      <4> QED BY <4>1, <4>2, <4>3 DEF Auth
    <3>2. go[h].pc \in {"auth", "addUser"} /\ hist' = hist
      BY <3>1 DEF AuthAccepted, AuthLoadUser, Step, Hold, Done
    <3> QED BY <3>2 DEF Bookkeeping, AuthNotListed
  <2>2. ASSUME NEW g \in Handler \ {h},
               go'[g].pc \in {"auth", "addUser", "storeUser"}
        PROVE  go'[g].conn \notin hist'.listed
    <3>1. go'[g] = go[g] /\ go[g].conn # c
      BY <2>2, <1>0, <1>2 DEF Others, AuthPC
    <3> QED BY <3>1, <2>2, <1>4 DEF Bookkeeping, AuthNotListed
  <2> QED BY <2>1, <2>2, <1>0 DEF AuthNotListed, AuthPC
<1> QED BY <1>3, <1>5, <1>6, <1>8, <1>9 DEF Bookkeeping

\* The bookkeeping holds when no connection was opened.
LEMMA BookkeepingInit == Init => Bookkeeping
  BY DEF Init, Bookkeeping, Unopened, Opened, ClientIsTab, AuthOnce,
     AuthAssigned, AuthNotListed, Idle, AuthPC

\* Every step of the system keeps the bookkeeping of connections.
LEMMA BookkeepingStep ==
    ASSUME TypeOK, Bookkeeping, [Next]_vars
    PROVE  Bookkeeping'
<1>1. CASE Client
  BY <1>1, BookkeepingClient
<1>2. ASSUME NEW h \in Handler, Auth(h) \/ Join(h) \/ Exit(h)
      PROVE  Bookkeeping'
  BY <1>2, BookkeepingAuth, BookkeepingJoinExit
<1>3. ASSUME NEW c \in Conn, Clean(c) PROVE Bookkeeping'
  BY <1>3, BookkeepingClean
<1>4. ASSUME NEW c \in Conn, PumpExit(c) PROVE Bookkeeping'
  BY <1>4, BookkeepingFrame DEF PumpExit, TypeOK, Bookkeeping, Unopened
<1>5. CASE Shutdown
  BY <1>5, BookkeepingFrame DEF Shutdown, clientSide, Bookkeeping, Unopened
<1>6. CASE UNCHANGED vars
  BY <1>6, BookkeepingFrame DEF vars, Bookkeeping, Unopened
<1> QED BY <1>1, <1>2, <1>3, <1>4, <1>5, <1>6 DEF Next

-----------------------------------------------------------------------------
\* What no step undoes.
LEMMA Monotone ==
    ASSUME TypeOK, Bookkeeping, [Next]_vars, NEW c \in Conn
    PROVE  /\ link[c] # "none" => who'[c] = who[c]
           /\ client[c] # Nobody => client'[c] = client[c]
           /\ link[c] # "none" /\ cleanup'[c].pc = "serve" =>
                cleanup[c].pc = "serve"
<1>1. ASSUME NEW d \in Conn, NEW s \in Session, NEW u \in User,
             NEW h \in Handler, Open(d, s, u, h)
      PROVE  /\ link[c] # "none" => /\ who'[c] = who[c]
                                    /\ cleanup'[c] = cleanup[c]
             /\ client' = client
  BY <1>1 DEF Open, TypeOK
<1>2. ASSUME \/ \E d \in Conn : ClientGone(d) \/ PumpExit(d)
             \/ \E s \in Session, d \in Doc, h \in Handler :
                  OpenEditor(s, d, h)
             \/ \E s \in Session, h \in Handler : CloseEditor(s, h)
             \/ \E h \in Handler : Join(h) \/ Exit(h)
             \/ Shutdown \/ UNCHANGED vars
      PROVE  who' = who /\ client' = client /\ cleanup' = cleanup
  BY <1>2 DEF ClientGone, PumpExit, OpenEditor, CloseEditor, Send, Shutdown,
     vars, clientSide, Join, Exit, JoinSetFile, JoinAddFileInSession,
     JoinLoadDoc, JoinStoreDoc, ExitLoadDoc, ExitStoreDoc,
     ExitDeleteFileInSession
<1>3. ASSUME NEW h \in Handler, Auth(h)
      PROVE  /\ who' = who /\ cleanup' = cleanup
             /\ client[c] # Nobody => client'[c] = client[c]
  <2>1. CASE AuthAccepted(h)
    <3>1. /\ who' = who /\ cleanup' = cleanup
          /\ client' = [client EXCEPT ![go[h].conn] = who[go[h].conn]]
      BY <2>1 DEF AuthAccepted, clientSide
    <3>2. client[c] # Nobody => client[c] = who[c]
      BY DEF Bookkeeping, ClientIsTab
    <3> QED BY <3>1, <3>2 DEF TypeOK
  <2>2. CASE ~AuthAccepted(h)
    BY <1>3, <2>2 DEF Auth, AuthRefused, AuthLoadUser, AuthStoreUser,
       AuthAddManager, AuthStoreSessionInRedis, clientSide
  <2> QED BY <2>1, <2>2
<1>4. ASSUME NEW d \in Conn, Clean(d)
      PROVE  /\ who' = who /\ client' = client
             /\ cleanup'[c].pc = "serve" => cleanup[c].pc = "serve"
  <2>1. who' = who /\ client' = client
    BY <1>4 DEF Clean, CleanLoadUser, CleanStoreUser, CleanDeleteManagersMap,
       CleanLoadDoc, CleanStoreDoc, CleanDeleteSessionInRedis, clientSide
  <2>2. \E pc \in CleanPC, next \in CleanPC \ {"serve"} :
           \/ CleanStep(d, pc, next)
           \/ \E x, s, list : CleanHold(d, pc, next, x, s, list)
    BY <1>4 DEF Clean, CleanLoadUser, CleanStoreUser, CleanDeleteManagersMap,
       CleanLoadDoc, CleanStoreDoc, CleanDeleteSessionInRedis, CleanPC
  <2>3. cleanup'[c].pc = "serve" => cleanup[c].pc = "serve"
    <3>1. PICK pc \in CleanPC, next \in CleanPC \ {"serve"} :
             \/ CleanStep(d, pc, next)
             \/ \E x, s, list : CleanHold(d, pc, next, x, s, list)
      BY <2>2
    <3>2. cleanup \in [Conn -> CleanState]
      BY DEF TypeOK
    <3>3. CASE CleanStep(d, pc, next)
      BY <3>2, <3>3 DEF CleanStep, CleanState
    <3>4. ASSUME NEW x, NEW s, NEW list, CleanHold(d, pc, next, x, s, list)
          PROVE  cleanup'[c].pc = "serve" => cleanup[c].pc = "serve"
      BY <3>2, <3>4 DEF CleanHold
    <3> QED BY <3>1, <3>3, <3>4
  <2> QED BY <2>1, <2>3
<1> QED BY <1>1, <1>2, <1>3, <1>4 DEF Next, Client

\* A connection without a rival of its tab had none one step earlier.
LEMMA UnrivalledBefore ==
    ASSUME TypeOK, Bookkeeping, [Next]_vars, NEW c \in Conn,
           link[c] # "none", Unrivalled(c)'
    PROVE  Unrivalled(c) /\ who'[c] = who[c]
<1>1. who'[c] = who[c] /\ Serving(c)
  BY Monotone DEF Unrivalled, Serving
<1>2. ASSUME NEW d \in SameTab(c), Identified(d)
      PROVE  FALSE
  <2>1. d \in Conn \ {c} /\ who[d].session = who[c].session
    BY DEF SameTab
  <2>2. client[d] # Nobody
    BY <1>2 DEF Identified, Nobody
  <2>3. link[d] # "none"
    BY <2>1, <2>2 DEF Bookkeeping, Unopened
  <2>4. who'[d] = who[d] /\ client'[d] = client[d]
    BY <2>1, <2>2, <2>3, Monotone
  <2>5. d \in SameTab(c)'
    BY <1>1, <2>1, <2>4 DEF SameTab
  <2>6. Identified(d)'
    BY <1>2, <2>4 DEF Identified
  <2> QED BY <2>5, <2>6 DEF Unrivalled
<1> QED BY <1>1, <1>2 DEF Unrivalled

\* A connection whose client data names the session of an unrivalled
\* connection is that connection.
LEMMA OnlyItself ==
    ASSUME TypeOK, Bookkeeping, NEW c \in Conn, NEW d \in Conn,
           Unrivalled(c), c \in hist.listed,
           client[d].session = who[c].session
    PROVE  d = c
<1>1. link[c] # "none"
  BY DEF Bookkeeping, Unopened
<1>2. who[c].session \in Session
  BY <1>1 DEF Bookkeeping, Opened
<1>3. client[d].session # NoSession
  BY <1>2, PoolAssumption
<1>4. client[d] = who[d]
  BY <1>3 DEF Bookkeeping, ClientIsTab, Nobody
<1>5. ASSUME d # c PROVE FALSE
  <2>1. d \in SameTab(c)
    BY <1>4, <1>5 DEF SameTab
  <2> QED BY <2>1, <1>3 DEF Unrivalled, Identified
<1> QED BY <1>5

\* Which steps list a connection, and which change managers and redis.
LEMMA ListedChange ==
    ASSUME TypeOK, [Next]_vars
    PROVE  \/ hist'.listed = hist.listed
           \/ \E h \in Handler : /\ AuthStoreUser(h)
                                /\ hist'.listed = hist.listed \cup {go[h].conn}
<1>1. ASSUME NEW h \in Handler, AuthStoreUser(h)
      PROVE  hist'.listed = hist.listed \cup {go[h].conn}
  BY <1>1 DEF AuthStoreUser, TypeOK
<1>2. ASSUME NEW h \in Handler, Auth(h), ~AuthStoreUser(h)
      PROVE  hist' = hist
  BY <1>2 DEF Auth, AuthRefused, AuthAccepted, AuthLoadUser, AuthAddManager,
     AuthStoreSessionInRedis
<1>3. ASSUME NEW h \in Handler, Join(h) \/ Exit(h)
      PROVE  hist'.listed = hist.listed
  BY <1>3 DEF Join, Exit, JoinSetFile, JoinAddFileInSession, JoinLoadDoc,
     JoinStoreDoc, ExitLoadDoc, ExitStoreDoc, ExitDeleteFileInSession, TypeOK
<1>4. ASSUME NEW c \in Conn, Clean(c) \/ PumpExit(c) \/ ClientGone(c)
      PROVE  hist'.listed = hist.listed
  BY <1>4 DEF Clean, CleanLoadUser, CleanStoreUser, CleanDeleteManagersMap,
     CleanLoadDoc, CleanStoreDoc, CleanDeleteSessionInRedis, PumpExit,
     ClientGone, TypeOK
<1>5. CASE Client
  BY <1>5, <1>4 DEF Client, Open, OpenEditor, CloseEditor, Send, TypeOK
<1> QED BY <1>1, <1>2, <1>3, <1>4, <1>5 DEF Next, Shutdown, vars

\* Only addManager and deleteManagersMap change the managers map.
LEMMA ManagersChange ==
    ASSUME [Next]_vars
    PROVE  \/ managers' = managers
           \/ \E h \in Handler : AuthAddManager(h)
           \/ \E d \in Conn : CleanDeleteManagersMap(d)
  BY DEF Next, Client, Open, ClientGone, OpenEditor, CloseEditor, Send,
     Auth, AuthRefused, AuthAccepted, AuthLoadUser, AuthStoreUser,
     AuthStoreSessionInRedis, Join, Exit, JoinSetFile, JoinAddFileInSession,
     JoinLoadDoc, JoinStoreDoc, ExitLoadDoc, ExitStoreDoc,
     ExitDeleteFileInSession, Clean, CleanLoadUser, CleanStoreUser,
     CleanLoadDoc, CleanStoreDoc, CleanDeleteSessionInRedis, PumpExit,
     Shutdown, vars, maps

\* A goroutine that takes a step is the only one that does.
LEMMA GoChange ==
    ASSUME TypeOK, [Next]_vars, NEW h \in Handler, go[h].pc # "idle"
    PROVE  go'[h] = go[h] \/ Auth(h) \/ Join(h) \/ Exit(h)
<1>1. ASSUME NEW g \in Handler, g # h,
             \/ \E pc, next : Step(g, pc, next)
             \/ \E pc : Done(g, pc)
             \/ \E pc, next, d, s, list : Hold(g, pc, next, d, s, list)
             \/ \E c, pc, d : Spawn(g, c, pc, d)
      PROVE  go'[h] = go[h]
  BY <1>1 DEF Step, Done, Hold, Spawn, TypeOK
<1>2. ASSUME NEW g \in Handler, Auth(g), g # h
      PROVE  go'[h] = go[h]
  <2>1. \/ \E pc, next : Step(g, pc, next)
        \/ \E pc : Done(g, pc)
        \/ \E pc, next, d, s, list : Hold(g, pc, next, d, s, list)
    BY <1>2 DEF Auth, AuthRefused, AuthAccepted, AuthLoadUser, AuthStoreUser,
       AuthAddManager, AuthStoreSessionInRedis
  <2>. QED BY <1>1, <1>2, <2>1
<1>3. ASSUME NEW g \in Handler, Join(g), g # h
      PROVE  go'[h] = go[h]
  <2>1. \/ \E pc, next : Step(g, pc, next)
        \/ \E pc : Done(g, pc)
        \/ \E pc, next, d, s, list : Hold(g, pc, next, d, s, list)
    BY <1>3 DEF Join, JoinSetFile, JoinAddFileInSession, JoinLoadDoc,
       JoinStoreDoc
  <2>. QED BY <1>1, <1>3, <2>1
<1>4. ASSUME NEW g \in Handler, Exit(g), g # h
      PROVE  go'[h] = go[h]
  <2>1. \/ \E pc, next : Step(g, pc, next)
        \/ \E pc : Done(g, pc)
        \/ \E pc, next, d, s, list : Hold(g, pc, next, d, s, list)
    BY <1>4 DEF Exit, ExitLoadDoc, ExitStoreDoc, ExitDeleteFileInSession
  <2>. QED BY <1>1, <1>4, <2>1
<1>5. ASSUME NEW g \in Handler, NEW c, NEW pc, NEW d, Spawn(g, c, pc, d)
      PROVE  go'[h] = go[h]
  <2>1. g # h
    BY <1>5 DEF Spawn
  <2>. QED BY <1>1, <1>5, <2>1
<1>6. \/ go' = go
      \/ \E g \in Handler : \/ Auth(g) \/ Join(g) \/ Exit(g)
                            \/ \E c, pc, d : Spawn(g, c, pc, d)
  BY DEF Next, Client, Open, ClientGone, OpenEditor, CloseEditor, Send,
     Clean, CleanLoadUser, CleanStoreUser, CleanDeleteManagersMap,
     CleanLoadDoc, CleanStoreDoc, CleanDeleteSessionInRedis, PumpExit,
     Shutdown, vars
<1>. QED BY <1>2, <1>3, <1>4, <1>5, <1>6

\* A goroutine about to store its manager or its hash only does that.
LEMMA AuthGoesOn ==
    ASSUME TypeOK, [Next]_vars, NEW h \in Handler
    PROVE  /\ go[h].pc = "addManager" /\ ~AuthAddManager(h) =>
                go'[h] = go[h]
           /\ AuthAddManager(h) =>
                go'[h].pc = "storeRedis" /\ go'[h].conn = go[h].conn
           /\ go[h].pc = "storeRedis" /\ ~AuthStoreSessionInRedis(h) =>
                go'[h] = go[h]
<1>1. ASSUME Auth(h) \/ Join(h) \/ Exit(h)
      PROVE  /\ go[h].pc = "addManager" => AuthAddManager(h)
             /\ go[h].pc = "storeRedis" => AuthStoreSessionInRedis(h)
  BY <1>1 DEF Auth, AuthRefused, AuthAccepted, AuthLoadUser, AuthStoreUser,
     Join, Exit, JoinSetFile, JoinAddFileInSession, JoinLoadDoc, JoinStoreDoc,
     ExitLoadDoc, ExitStoreDoc, ExitDeleteFileInSession, AuthAddManager,
     AuthStoreSessionInRedis, Step, Hold, Done
<1>2. AuthAddManager(h) =>
        go'[h].pc = "storeRedis" /\ go'[h].conn = go[h].conn
  BY AfterStep DEF AuthAddManager
<1>. QED BY <1>1, <1>2, GoChange

\* No step takes the manager of an unrivalled connection from its session.
LEMMA ManagerStep ==
    ASSUME TypeOK, Bookkeeping, ManagerKept, [Next]_vars
    PROVE  ManagerKept'
<1> SUFFICES ASSUME NEW c \in Conn, Unrivalled(c)', ManagerStored(c)'
             PROVE  managers'[who'[c].session] = c
  BY DEF ManagerKept
<1>0. Bookkeeping' /\ TypeOK'
  BY BookkeepingStep, TypeStep
\* The step that makes the entry.
<1>1. ASSUME NEW h \in Handler, AuthAddManager(h), go[h].conn = c
      PROVE  managers'[who'[c].session] = c
  <2>1. go[h].pc = "addManager"
    BY <1>1 DEF AuthAddManager, Step
  <2>2. client[c] = who[c] /\ who'[c] = who[c]
    BY <1>1, <2>1 DEF Bookkeeping, AuthAssigned, AuthPC, AuthAddManager,
       clientSide
  <2>3. client[c].session \in Session \cup {NoSession}
    BY ClientField
  <2> QED BY <1>1, <2>2, <2>3 DEF AuthAddManager, TypeOK
\* Every other step finds the entry made.
<1>2. ASSUME ~\E h \in Handler : AuthAddManager(h) /\ go[h].conn = c
      PROVE  ManagerStored(c)
  <2>1. ASSUME NEW h \in Handler, go[h].pc = "addManager", go[h].conn = c
        PROVE  FALSE
    <3>1. go'[h].pc = "addManager" /\ go'[h].conn = c
      BY <1>2, <2>1, AuthGoesOn
    <3> QED BY <3>1 DEF ManagerStored
  <2>2. c \in hist.listed
    <3>1. ASSUME NEW h \in Handler, AuthStoreUser(h), go[h].conn = c
          PROVE  FALSE
      <4>1. go'[h].pc = "addManager" /\ go'[h].conn = c
        BY <3>1, AfterHold DEF AuthStoreUser
      <4> QED BY <4>1 DEF ManagerStored
    <3>2. hist'.listed = hist.listed
          \/ \E h \in Handler : /\ AuthStoreUser(h)
                               /\ hist'.listed = hist.listed \cup {go[h].conn}
      BY ListedChange
    <3> QED BY <3>1, <3>2 DEF ManagerStored
  <2> QED BY <2>1, <2>2 DEF ManagerStored
\* Nobody else changes it.
<1>3. ASSUME ManagerStored(c)
      PROVE  managers'[who'[c].session] = c
  <2>1. link[c] # "none" /\ c \in hist.listed
    BY <1>3 DEF ManagerStored, Bookkeeping, Unopened
  <2>2. Unrivalled(c) /\ who'[c] = who[c]
    BY <2>1, UnrivalledBefore
  <2>3. managers[who[c].session] = c
    BY <1>3, <2>2 DEF ManagerKept
  <2>4. who[c].session \in Session
    BY <2>1 DEF Bookkeeping, Opened
  <2>5. ASSUME NEW h \in Handler, AuthAddManager(h)
        PROVE  managers'[who[c].session] = c
    <3>1. go[h].conn \in Conn
      BY <2>5, GoField DEF AuthAddManager, Step
    <3>2. client[go[h].conn].session = who[c].session => go[h].conn = c
      BY <2>1, <2>2, <3>1, OnlyItself
    <3> QED BY <2>3, <2>4, <2>5, <3>2 DEF AuthAddManager, TypeOK
  <2>6. ASSUME NEW d \in Conn, CleanDeleteManagersMap(d)
        PROVE  managers'[who[c].session] = c
    <3>1. d # c
      BY <2>2, <2>6 DEF Unrivalled, Serving, CleanDeleteManagersMap, CleanStep
    <3>2. client[d].session # who[c].session
      BY <2>1, <2>2, <3>1, OnlyItself
    <3> QED BY <2>3, <2>4, <2>6, <3>2 DEF CleanDeleteManagersMap, TypeOK
  <2>7. \/ managers' = managers
        \/ \E h \in Handler : AuthAddManager(h)
        \/ \E d \in Conn : CleanDeleteManagersMap(d)
    BY ManagersChange
  <2> QED BY <2>2, <2>3, <2>5, <2>6, <2>7
<1> QED BY <1>1, <1>2, <1>3

\* Only StoreSessionInRedis and DeleteSessionInRedis change a user field.
LEMMA RedisChange ==
    ASSUME TypeOK, [Next]_vars, NEW s \in Session
    PROVE  \/ redis'[s].user = redis[s].user
           \/ \E h \in Handler : /\ AuthStoreSessionInRedis(h)
                                /\ client[go[h].conn].session = s
           \/ \E d \in Conn : /\ CleanDeleteSessionInRedis(d)
                             /\ client[d].session = s
<1>1. ASSUME NEW h \in Handler, AuthStoreSessionInRedis(h),
             client[go[h].conn].session # s
      PROVE  redis'[s] = redis[s]
  BY <1>1 DEF AuthStoreSessionInRedis, Redis, TypeOK
<1>2. ASSUME NEW d \in Conn, CleanDeleteSessionInRedis(d),
             client[d].session # s
      PROVE  redis'[s] = redis[s]
  BY <1>2 DEF CleanDeleteSessionInRedis, Redis, TypeOK
<1>3. ASSUME NEW h \in Handler,
             JoinAddFileInSession(h) \/ ExitDeleteFileInSession(h)
      PROVE  redis'[s].user = redis[s].user
  <2>1. PICK k, f : \/ UNCHANGED redis
                    \/ redis' = [redis EXCEPT
                                     ![k] = [redis[k] EXCEPT !.file = f]]
    BY <1>3 DEF JoinAddFileInSession, ExitDeleteFileInSession, Redis
  <2>2. CASE s = k
    <3>1. redis[s] \in [user : User \cup {NoUser, NoField},
                        file : Doc \cup {NoDoc, NoField}]
      BY DEF TypeOK
    <3>2. [redis[s] EXCEPT !.file = f].user = redis[s].user
      BY <3>1
    <3>3. \/ redis' = redis
          \/ redis'[s] = [redis[s] EXCEPT !.file = f]
      BY <2>1, <2>2 DEF TypeOK
    <3> QED BY <3>2, <3>3
  <2>3. CASE s # k
    BY <2>1, <2>3 DEF TypeOK
  <2> QED BY <2>2, <2>3
<1>4. CASE /\ ~\E h \in Handler : \/ AuthStoreSessionInRedis(h)
                                \/ JoinAddFileInSession(h)
                                \/ ExitDeleteFileInSession(h)
           /\ ~\E d \in Conn : CleanDeleteSessionInRedis(d)
  <2>1. redis' = redis
    BY <1>4 DEF Next, Client, Open, ClientGone, OpenEditor, CloseEditor, Send,
       Auth, AuthRefused, AuthAccepted, AuthLoadUser, AuthStoreUser,
       AuthAddManager, Join, Exit, JoinSetFile, JoinLoadDoc, JoinStoreDoc,
       ExitLoadDoc, ExitStoreDoc, Clean, CleanLoadUser, CleanStoreUser,
       CleanDeleteManagersMap, CleanLoadDoc, CleanStoreDoc, PumpExit,
       Shutdown, vars
  <2> QED BY <2>1
<1> QED BY <1>1, <1>2, <1>3, <1>4

\* A connection is registered before the step that leaves it so, unless that
\* step ends its authentication.
LEMMA RegisteredBefore ==
    ASSUME TypeOK, Bookkeeping, [Next]_vars, NEW c \in Conn, Registered(c)',
           ~\E h \in Handler : AuthStoreSessionInRedis(h) /\ go[h].conn = c
    PROVE  Registered(c)
<1>1. c \in hist.listed
  <2>1. ASSUME NEW h \in Handler, AuthStoreUser(h), go[h].conn = c
        PROVE  FALSE
    <3>1. go'[h].pc = "addManager" /\ go'[h].conn = c
      BY <2>1, AfterHold DEF AuthStoreUser
    <3> QED BY <3>1 DEF Registered, Authenticating, AuthPC
  <2> QED BY <2>1, ListedChange DEF Registered
<1>2. ASSUME NEW h \in Handler, go[h].pc \in AuthPC, go[h].conn = c
      PROVE  FALSE
  <2>1. go[h].pc \in {"addManager", "storeRedis"}
    BY <1>1, <1>2 DEF Bookkeeping, AuthNotListed, AuthPC
  <2>2. go'[h].pc \in AuthPC /\ go'[h].conn = c
    BY <1>2, <2>1, AuthGoesOn DEF AuthPC
  <2> QED BY <2>2 DEF Registered, Authenticating
<1> QED BY <1>1, <1>2 DEF Registered, Authenticating

\* No step takes the Redis hash of an unrivalled connection from its user.
LEMMA RedisStep ==
    ASSUME TypeOK, Bookkeeping, RedisKept, [Next]_vars
    PROVE  RedisKept'
<1> SUFFICES ASSUME NEW c \in Conn, Unrivalled(c)', Registered(c)',
                    ~RedisMayFail
             PROVE  redis'[who'[c].session].user = who'[c].user
  BY DEF RedisKept
<1>0. Bookkeeping' /\ TypeOK'
  BY BookkeepingStep, TypeStep
\* The step that writes the hash.
<1>1. ASSUME NEW h \in Handler, AuthStoreSessionInRedis(h), go[h].conn = c
      PROVE  redis'[who'[c].session].user = who'[c].user
  <2>1. client[c] = who[c] /\ who'[c] = who[c] /\ cleanup' = cleanup
    BY <1>1 DEF Bookkeeping, AuthAssigned, AuthPC, AuthStoreSessionInRedis,
       Done, clientSide
  <2>2. client[c].session \in Session \cup {NoSession}
    BY ClientField
  <2>3. cleanup[c].pc # "finished"
    BY <2>1 DEF Unrivalled, Serving
  <2>4. redis' = [redis EXCEPT ![client[c].session] =
                    [user |-> client[c].user, file |-> NoDoc]]
    BY <1>1, <2>3 DEF AuthStoreSessionInRedis, Redis
  <2> QED BY <2>1, <2>2, <2>4 DEF TypeOK
\* Every other step finds it written.
<1>2. ASSUME ~\E h \in Handler : AuthStoreSessionInRedis(h) /\ go[h].conn = c
      PROVE  Registered(c)
  BY <1>2, RegisteredBefore
\* Nobody else changes it.
<1>3. ASSUME Registered(c),
             ~\E h \in Handler : AuthStoreSessionInRedis(h) /\ go[h].conn = c
      PROVE  redis'[who'[c].session].user = who'[c].user
  <2>1. link[c] # "none" /\ c \in hist.listed
    BY <1>3 DEF Registered, Bookkeeping, Unopened
  <2>2. Unrivalled(c) /\ who'[c] = who[c]
    BY <2>1, UnrivalledBefore
  <2>3. redis[who[c].session].user = who[c].user
    BY <1>3, <2>2 DEF RedisKept
  <2>4. who[c].session \in Session
    BY <2>1 DEF Bookkeeping, Opened
  <2>5. ASSUME NEW h \in Handler, AuthStoreSessionInRedis(h)
        PROVE  client[go[h].conn].session # who[c].session
    <3>1. go[h].conn \in Conn
      BY <2>5, GoField DEF AuthStoreSessionInRedis, Done
    <3> QED BY <1>3, <2>1, <2>2, <2>5, <3>1, OnlyItself
  <2>6. ASSUME NEW d \in Conn, CleanDeleteSessionInRedis(d)
        PROVE  client[d].session # who[c].session
    <3>1. d # c
      BY <2>2, <2>6
         DEF Unrivalled, Serving, CleanDeleteSessionInRedis, CleanStep
    <3> QED BY <2>1, <2>2, <3>1, OnlyItself
  <2> QED BY <2>2, <2>3, <2>4, <2>5, <2>6, RedisChange
<1> QED BY <1>1, <1>2, <1>3

\* Every step of the system keeps the inductive invariant.
LEMMA IInvStep == IInv /\ [Next]_vars => IInv'
  BY TypeStep, BookkeepingStep, ManagerStep, RedisStep DEF IInv

\* The inductive invariant holds when the server starts.
LEMMA IInvInit == Init => IInv
  BY TypeInit, BookkeepingInit
     DEF Init, IInv, ManagerKept, RedisKept, ManagerStored, Registered

(***************************************************************************)
(* Whatever the connections of the other tabs do, and in whatever order    *)
(* the goroutines run, a served connection that is registered stays the    *)
(* one its session leads to, unless another connection of the same tab     *)
(* authenticated.                                                          *)
(***************************************************************************)
THEOREM EvictionTheorem == Spec => []EvictedOnlyByOwnTab
<1>1. IInv => EvictedOnlyByOwnTab
  BY DEF IInv, ManagerKept, RedisKept, EvictedOnlyByOwnTab, Unrivalled,
     ManagerStored, Registered, Authenticating, AuthPC
<1> QED BY <1>1, IInvInit, IInvStep, PTL DEF Spec

-----------------------------------------------------------------------------
(***************************************************************************)
(* The lists and the hash of a tab.                                        *)
(***************************************************************************)
Unlisted == {"delManager", "loadDoc", "storeDoc", "delRedis", "finished"}
\* The connections a user's list has an entry of a session for.
Owners(u, s) == {c \in hist.listed :
                   /\ who[c] = [user |-> u, session |-> s]
                   /\ cleanup[c].pc \notin Unlisted}
\* Connections that were opened, and what their tabs say they are.
Users ==
    /\ \A c \in Conn : link[c] # "none" => who[c].user \in User
    /\ \A c \in hist.late \cup hist.tangled : link[c] # "none"
    /\ \A s \in Session : managers[s] # NoConn =>
         link[managers[s]] # "none" /\ who[managers[s]].session = s
    /\ userIndex[NoUser] = <<>>
    /\ IsFiniteSet(hist.listed)
\* A cleanup about to store a user's list has an entry of its own to leave out.
HoldsEntry(c) ==
    /\ client[c] = who[c] /\ c \in hist.listed \cup hist.late
    /\ cleanup[c].session = who[c].session
    /\ searchIndex(cleanup[c].session, cleanup[c].list) # 0
UserHeld == \A c \in Conn : cleanup[c].pc = "storeUser" => HoldsEntry(c)

Joining(c) == \E h \in Handler : go[h].conn = c /\ go[h].pc \in JoinPC
Joined(d, s) == {c \in Conn : /\ client[c].session = s /\ file[c] = d
                              /\ ~Joining(c)}
Orderly(s) == \A c \in hist.tangled : client[c].session # s
Docs ==
    /\ docSessions[NoDoc] = <<>>
    /\ IsFiniteSet({c \in Conn : Identified(c)})
    /\ \A c \in Conn : link[c] = "none" => file[c] = NoDoc
    /\ \A s \in Session : current[s] # NoConn =>
         link[current[s]] # "none" /\ who[current[s]].session = s
\* What the goroutines and the cleanup of a connection hold in their locals:
\* a document, and the connection's session or none at all.
DocHeld(c) ==
    /\ \A h \in Handler : go[h].conn = c =>
         /\ go[h].pc \in JoinPC \cup {"exitStore"} => go[h].doc \in Doc
         /\ go[h].pc \in {"joinStore", "exitStore"} =>
              go[h].session \in {NoSession, client[c].session}
    /\ cleanup[c].pc = "storeDoc" =>
         /\ cleanup[c].doc \in Doc
         /\ cleanup[c].session \in {NoSession, client[c].session}
\* At most one goroutine or a late step of the cleanup.
BeforeDoc == {"serve", "storeUser", "delManager", "loadDoc"}
OneAtATime(c) ==
    /\ \A g, h \in Handler : /\ go[g].pc # "idle" /\ go[g].conn = c
                             /\ go[h].pc # "idle" /\ go[h].conn = c
                             => g = h
    /\ Busy(c) => cleanup[c].pc \in BeforeDoc
\* What is held is about the connection's file, and what a list is to be
\* stored without is in it.
FileHeld(c) ==
    /\ \A h \in Handler : go[h].conn = c =>
         /\ go[h].pc \in AuthPC => file[c] = NoDoc
         /\ go[h].pc \in {"joinRedis", "joinLoad", "joinStore", "exitStore"} =>
              file[c] = go[h].doc
         /\ go[h].pc \in {"joinStore", "exitStore"} =>
              go[h].session = client[c].session
         /\ go[h].pc = "exitStore" => searchIndex(go[h].session, go[h].list) # 0
    /\ cleanup[c].pc = "storeDoc" =>
         /\ file[c] = cleanup[c].doc
         /\ cleanup[c].session = client[c].session
         /\ searchIndex(cleanup[c].session, cleanup[c].list) # 0
\* A tab without an editor has left, or is leaving, the file of its current
\* connection, and joins none.
Viewing(s, c) == current[s] = c /\ editing[s] = NoDoc /\ Reading(c)
NoJoin(c) == \A s \in Session : Viewing(s, c) => ~Joining(c)
Exiting(c) == \E h \in Handler : /\ go[h].conn = c
                                 /\ go[h].pc \in {"exit", "exitStore"}
FileLeft(c) ==
    /\ \A h \in Handler : go[h].conn = c /\ go[h].pc = "exitRedis" =>
         file[c] \in {NoDoc} \cup hist.lost
    /\ \A s \in Session : Viewing(s, c) /\ ~Exiting(c) =>
         file[c] \in {NoDoc} \cup hist.lost
Tidy(c) ==
    /\ DocHeld(c)
    /\ c \notin hist.tangled => OneAtATime(c) /\ FileHeld(c) /\ NoJoin(c)
    /\ Identified(c) /\ Orderly(client[c].session) => FileLeft(c)
AllTidy == \A c \in Conn : Tidy(c)
DocsExact == \A d \in Doc \ hist.lost, s \in Session : Orderly(s) =>
    Occurrences(s, docSessions[d]) = Cardinality(Joined(d, s))

AtRest(c) == \A h \in Handler : go[h].pc # "idle" /\ go[h].conn = c =>
                go[h].pc \in {"joinLoad", "joinStore"}
RedisFile == \A c \in Conn \ hist.tangled :
    /\ ~RedisMayFail /\ Unrivalled(c) /\ Registered(c) /\ AtRest(c)
    /\ file[c] \notin hist.lost
    => redis[who[c].session].file = file[c]

-----------------------------------------------------------------------------
(* Connections and their identities.                                       *)

\* A connection that is opened carries a user; one that was opened stays so.
LEMMA LinkChange ==
    ASSUME TypeOK, [Next]_vars, NEW c \in Conn
    PROVE  /\ link[c] # "none" => link'[c] # "none"
           /\ link[c] = "none" =>
                \/ link'[c] = "none"
                \/ who'[c].user \in User
                \/ cleanup[c].pc # "none"
<1>1. ASSUME NEW d \in Conn, NEW s \in Session, NEW u \in User,
             NEW h \in Handler, Open(d, s, u, h)
      PROVE  /\ link[c] # "none" => link'[c] # "none"
             /\ link[c] = "none" => link'[c] = "none" \/ who'[c].user \in User
  BY <1>1 DEF Open, TypeOK
<1>2. ASSUME NEW d \in Conn, ClientGone(d) \/ PumpExit(d)
      PROVE  link[c] = "none" <=> link'[c] = "none"
  BY <1>2 DEF ClientGone, PumpExit, TypeOK
<1>3. ASSUME NEW d \in Conn, CleanDeleteSessionInRedis(d)
      PROVE  /\ link[c] # "none" => link'[c] # "none"
             /\ link[c] = "none" => link'[c] = "none" \/ cleanup[c].pc # "none"
  BY <1>3 DEF CleanDeleteSessionInRedis, CleanStep, TypeOK
<1>4. \/ link' = link
      \/ \E d \in Conn : \/ ClientGone(d) \/ PumpExit(d)
                         \/ CleanDeleteSessionInRedis(d)
                         \/ \E s \in Session, u \in User, h \in Handler :
                              Open(d, s, u, h)
  BY DEF Next, Client, OpenEditor, CloseEditor, Send, Auth, AuthRefused,
     AuthAccepted, AuthLoadUser, AuthStoreUser, AuthAddManager,
     AuthStoreSessionInRedis, Join, Exit, JoinSetFile, JoinAddFileInSession,
     JoinLoadDoc, JoinStoreDoc, ExitLoadDoc, ExitStoreDoc,
     ExitDeleteFileInSession, Clean, CleanLoadUser, CleanStoreUser,
     CleanDeleteManagersMap, CleanLoadDoc, CleanStoreDoc, Shutdown, vars,
     clientSide
<1>. QED BY <1>1, <1>2, <1>3, <1>4

\* A list that lost an update is remembered, and nothing else.
LEMMA LostOnly ==
    ASSUME TypeOK, NEW x, hist' = [hist EXCEPT !.lost = @ \cup x]
    PROVE  /\ hist'.listed = hist.listed /\ hist'.late = hist.late
           /\ hist'.tangled = hist.tangled /\ hist'.lost = hist.lost \cup x
  BY DEF TypeOK

\* A step that tangles a connection leaves the rest of the history alone.
LEMMA TangledOnly ==
    ASSUME TypeOK, NEW x, hist' = [hist EXCEPT !.tangled = @ \cup {x}]
    PROVE  /\ hist'.listed = hist.listed /\ hist'.late = hist.late
           /\ hist'.tangled = hist.tangled \cup {x} /\ hist'.lost = hist.lost
  BY DEF TypeOK

\* So does a step that is late.
LEMMA LateOnly ==
    ASSUME TypeOK, NEW x, hist' = [hist EXCEPT !.late = @ \cup {x}]
    PROVE  /\ hist'.listed = hist.listed /\ hist'.late = hist.late \cup {x}
           /\ hist'.tangled = hist.tangled /\ hist'.lost = hist.lost
  BY DEF TypeOK

\* The connections that one step adds to late and tangled.
LEMMA HistChange ==
    ASSUME TypeOK, Bookkeeping, Docs, [Next]_vars
    PROVE  /\ hist.tangled \subseteq hist'.tangled
           /\ hist.late \subseteq hist'.late
           /\ hist.lost \subseteq hist'.lost
           /\ \A c \in Conn :
                c \in (hist'.tangled \ hist.tangled) \cup (hist'.late \ hist.late)
                  => link[c] # "none"
<1> DEFINE Goal == /\ hist.tangled \subseteq hist'.tangled
                   /\ hist.late \subseteq hist'.late
                   /\ hist.lost \subseteq hist'.lost
                   /\ \A c \in Conn :
                        c \in (hist'.tangled \ hist.tangled)
                                \cup (hist'.late \ hist.late)
                          => link[c] # "none"
<1>0. hist' = hist => Goal
  OBVIOUS
<1>1. ASSUME NEW h \in Handler, AuthStoreUser(h) PROVE Goal
  <2>1. go[h].conn \in Conn /\ link[go[h].conn] # "none"
    BY <1>1, GoField DEF AuthStoreUser, Hold, Bookkeeping, Unopened
  <2>2. hist' = [hist EXCEPT !.listed = @ \cup {go[h].conn},
                   !.lost = @ \cup Overwrites(client[go[h].conn].user,
                               userIndex[client[go[h].conn].user], go[h].list),
                   !.late = IF cleanup[go[h].conn].pc = "serve"
                            THEN @ ELSE @ \cup {go[h].conn}]
    BY <1>1 DEF AuthStoreUser
  <2>. QED BY <2>1, <2>2 DEF TypeOK
<1>2. ASSUME NEW h \in Handler, JoinStoreDoc(h) \/ ExitStoreDoc(h) PROVE Goal
  <2>1. PICK x : hist' = [hist EXCEPT !.lost = @ \cup x]
    BY <1>2 DEF JoinStoreDoc, ExitStoreDoc
  <2>. QED BY <2>1, LostOnly
<1>3. ASSUME NEW d \in Conn, \/ CleanLoadUser(d) \/ CleanStoreUser(d)
                             \/ CleanLoadDoc(d) \/ CleanStoreDoc(d)
      PROVE  Goal
  <2>1. link[d] # "none"
    BY <1>3 DEF CleanLoadUser, CleanStoreUser, CleanLoadDoc, CleanStoreDoc,
       CleanHold, CleanStep, Bookkeeping, Unopened
  <2>2. \/ hist' = hist
        \/ hist' = [hist EXCEPT !.late = @ \cup {d}]
        \/ hist' = [hist EXCEPT !.tangled = @ \cup {d}]
        \/ \E x : hist' = [hist EXCEPT !.lost = @ \cup x]
    BY <1>3 DEF CleanLoadUser, CleanStoreUser, CleanLoadDoc, CleanStoreDoc
  <2>3. CASE \E x : hist' = [hist EXCEPT !.lost = @ \cup x]
    <3>1. PICK x : hist' = [hist EXCEPT !.lost = @ \cup x]
      BY <2>3
    <3>. QED BY <3>1, LostOnly
  <2>4. CASE \/ hist' = [hist EXCEPT !.late = @ \cup {d}]
             \/ hist' = [hist EXCEPT !.tangled = @ \cup {d}]
    BY <2>1, <2>4, LateOnly, TangledOnly
  <2>. QED BY <1>0, <2>2, <2>3, <2>4
<1>4. ASSUME NEW s \in Session, NEW h, NEW pc, NEW d, Send(s, h, pc, d)
      PROVE  Goal
  <2>1. current[s] \in Conn /\ link[current[s]] # "none"
    BY <1>4 DEF Send, Docs, TypeOK
  <2>2. hist' = hist \/ hist' = [hist EXCEPT !.tangled = @ \cup {current[s]}]
    BY <1>4 DEF Send
  <2>. QED BY <2>1, <2>2, TangledOnly
<1>5. \/ hist' = hist
      \/ \E h \in Handler : \/ AuthStoreUser(h) \/ JoinStoreDoc(h)
                            \/ ExitStoreDoc(h)
      \/ \E d \in Conn : \/ CleanLoadUser(d) \/ CleanStoreUser(d)
                         \/ CleanLoadDoc(d) \/ CleanStoreDoc(d)
      \/ \E s \in Session : \E h, pc, d : Send(s, h, pc, d)
  BY DEF Next, Client, Open, ClientGone, OpenEditor, CloseEditor, Auth,
     AuthRefused, AuthAccepted, AuthLoadUser, AuthAddManager,
     AuthStoreSessionInRedis, Join, Exit, JoinSetFile, JoinAddFileInSession,
     JoinLoadDoc, ExitLoadDoc, ExitDeleteFileInSession, Clean,
     CleanDeleteManagersMap, CleanDeleteSessionInRedis, PumpExit, Shutdown, vars
<1>. HIDE DEF Goal
<1>6. Goal
  BY <1>0, <1>1, <1>2, <1>3, <1>4, <1>5
<1>. QED BY <1>6 DEF Goal

\* Only two steps change the users' lists.
LEMMA UserIndexChange ==
    ASSUME [Next]_vars
    PROVE  \/ userIndex' = userIndex
           \/ \E h \in Handler : AuthStoreUser(h)
           \/ \E c \in Conn : CleanStoreUser(c)
  BY DEF Next, Client, Open, ClientGone, OpenEditor, CloseEditor, Send, Auth,
     AuthRefused, AuthAccepted, AuthLoadUser, AuthAddManager,
     AuthStoreSessionInRedis, Join, Exit, JoinSetFile, JoinAddFileInSession,
     JoinLoadDoc, JoinStoreDoc, ExitLoadDoc, ExitStoreDoc,
     ExitDeleteFileInSession, Clean, CleanLoadUser, CleanDeleteManagersMap,
     CleanLoadDoc, CleanStoreDoc, CleanDeleteSessionInRedis, PumpExit,
     Shutdown, vars, maps

\* Identities, managers and current connections stay well-formed in every
\* step.
LEMMA UsersStep ==
    ASSUME TypeOK, Bookkeeping, Users, UserHeld, Docs, [Next]_vars
    PROVE  Users'
<1>0. TypeOK' /\ Bookkeeping'
  BY TypeStep, BookkeepingStep
<1>1. \A c \in Conn : link'[c] # "none" => who'[c].user \in User
  <2>. SUFFICES ASSUME NEW c \in Conn, link'[c] # "none"
       PROVE  who'[c].user \in User
    OBVIOUS
  <2>1. CASE link[c] = "none"
    BY <2>1, LinkChange DEF Bookkeeping, Unopened
  <2>2. CASE link[c] # "none"
    BY <2>2, Monotone DEF Users
  <2>. QED BY <2>1, <2>2
<1>2. \A c \in hist'.late \cup hist'.tangled : link'[c] # "none"
  <2>. SUFFICES ASSUME NEW c \in hist'.late \cup hist'.tangled
       PROVE  link'[c] # "none"
    OBVIOUS
  <2>1. c \in Conn
    BY <1>0 DEF TypeOK
  <2>2. link[c] # "none"
    BY <2>1, HistChange DEF Users
  <2>. QED BY <2>1, <2>2, LinkChange
<1>3. \A s \in Session : managers'[s] # NoConn =>
        link'[managers'[s]] # "none" /\ who'[managers'[s]].session = s
  <2>. SUFFICES ASSUME NEW s \in Session, managers'[s] # NoConn
       PROVE  link'[managers'[s]] # "none" /\ who'[managers'[s]].session = s
    OBVIOUS
  <2>1. managers'[s] \in Conn
    BY <1>0 DEF TypeOK
  <2>2. link[managers'[s]] # "none" /\ who[managers'[s]].session = s
    <3>1. CASE managers'[s] = managers[s]
      BY <3>1 DEF Users
    <3>2. ASSUME NEW h \in Handler, AuthAddManager(h),
                 managers'[s] # managers[s]
          PROVE  link[managers'[s]] # "none" /\ who[managers'[s]].session = s
      <4>1. go[h].pc = "addManager" /\ go[h].conn \in Conn
        BY <3>2, GoField DEF AuthAddManager, Step
      <4>2. client[go[h].conn] = who[go[h].conn] /\ link[go[h].conn] # "none"
        BY <4>1 DEF Bookkeeping, AuthAssigned, Unopened, AuthPC
      <4>3. client[go[h].conn].session = s /\ managers'[s] = go[h].conn
        BY <3>2 DEF AuthAddManager, TypeOK
      <4>. QED BY <4>2, <4>3
    <3>3. ASSUME NEW d \in Conn, CleanDeleteManagersMap(d),
                 managers'[s] # managers[s]
          PROVE  FALSE
      BY <3>3 DEF CleanDeleteManagersMap, TypeOK
    <3>. QED BY <3>1, <3>2, <3>3, ManagersChange
  <2>. QED BY <2>1, <2>2, LinkChange, Monotone
<1>4. userIndex'[NoUser] = <<>>
  <2>1. CASE userIndex' = userIndex
    BY <2>1 DEF Users
  <2>2. ASSUME NEW h \in Handler, AuthStoreUser(h)
        PROVE  userIndex'[NoUser] = <<>>
    <3>1. go[h].pc = "storeUser" /\ go[h].conn \in Conn
      BY <2>2, GoField DEF AuthStoreUser, Hold
    <3>2. client[go[h].conn].user \in User
      BY <3>1 DEF Bookkeeping, AuthAssigned, Unopened, AuthPC, Users
    <3>. QED BY <2>2, <3>2, PoolAssumption DEF AuthStoreUser, TypeOK, Users
  <2>3. ASSUME NEW c \in Conn, CleanStoreUser(c)
        PROVE  userIndex'[NoUser] = <<>>
    <3>1. cleanup[c].pc = "storeUser"
      BY <2>3 DEF CleanStoreUser, CleanHold
    <3>2. client[c].user \in User
      BY <3>1 DEF UserHeld, HoldsEntry, Bookkeeping, Unopened, Users
    <3>. QED BY <2>3, <3>2, PoolAssumption DEF CleanStoreUser, TypeOK, Users
  <2>. QED BY <2>1, <2>2, <2>3, UserIndexChange
<1>5. IsFiniteSet(hist'.listed)
  BY ListedChange, FS_AddElement DEF Users
<1>. QED BY <1>1, <1>2, <1>3, <1>4, <1>5 DEF Users

-----------------------------------------------------------------------------
(* The users' lists.                                                       *)

\* Steps that are none of the three that load or store a user's list for
\* good.
UserQuiet ==
    /\ UNCHANGED <<userIndex, hist.listed, hist.late>>
    /\ \A c \in Conn :
         /\ cleanup'[c].pc = "storeUser" => cleanup'[c] = cleanup[c]
         /\ link[c] # "none" =>
              (cleanup'[c].pc \in Unlisted <=> cleanup[c].pc \in Unlisted)

\* What one step of a cleanup leaves of it, and that the others stay.
LEMMA AfterCleanStep ==
    ASSUME TypeOK, NEW c \in Conn, NEW pc, NEW next, CleanStep(c, pc, next)
    PROVE  /\ cleanup[c].pc = pc /\ cleanup'[c].pc = next
           /\ \A d \in Conn \ {c} : cleanup'[d] = cleanup[d]
  BY DEF TypeOK, CleanState, CleanStep

\* What a step of a cleanup that holds a list leaves behind.
LEMMA AfterCleanHold ==
    ASSUME TypeOK, NEW c \in Conn, NEW pc, NEW next, NEW d, NEW s, NEW list,
           CleanHold(c, pc, next, d, s, list)
    PROVE  /\ cleanup[c].pc = pc
           /\ cleanup'[c] = [pc |-> next, conn |-> NoConn, doc |-> d,
                             session |-> s, list |-> list]
           /\ \A b \in Conn \ {c} : cleanup'[b] = cleanup[b]
  BY DEF TypeOK, CleanHold

\* Only storing a list, or loading it for a cleanup, is not quiet.
LEMMA UserQuietSteps ==
    ASSUME TypeOK, Bookkeeping, [Next]_vars,
           ~\E h \in Handler : AuthStoreUser(h),
           ~\E c \in Conn : CleanLoadUser(c) \/ CleanStoreUser(c)
    PROVE  UserQuiet
<1>1. userIndex' = userIndex /\ hist'.listed = hist.listed
  BY UserIndexChange, ListedChange
<1>2. hist'.late = hist.late
  <2>1. ASSUME NEW x, hist' = [hist EXCEPT !.tangled = @ \cup {x}]
        PROVE  hist'.late = hist.late
    BY <2>1, TangledOnly
  <2>2. ASSUME NEW x, hist' = [hist EXCEPT !.lost = @ \cup x]
        PROVE  hist'.late = hist.late
    BY <2>2, LostOnly
  <2>3. \/ hist' = hist
        \/ \E x : hist' = [hist EXCEPT !.tangled = @ \cup {x}]
        \/ \E x : hist' = [hist EXCEPT !.lost = @ \cup x]
    BY DEF Next, Client, Open, ClientGone, OpenEditor, CloseEditor, Send, Auth,
       AuthRefused, AuthAccepted, AuthLoadUser, AuthAddManager,
       AuthStoreSessionInRedis, Join, Exit, JoinSetFile, JoinAddFileInSession,
       JoinLoadDoc, JoinStoreDoc, ExitLoadDoc, ExitStoreDoc,
       ExitDeleteFileInSession, Clean, CleanDeleteManagersMap, CleanLoadDoc,
       CleanStoreDoc, CleanDeleteSessionInRedis, PumpExit, Shutdown, vars
  <2>. QED BY <2>1, <2>2, <2>3
<1>3. \A c \in Conn :
        /\ cleanup'[c].pc = "storeUser" => cleanup'[c] = cleanup[c]
        /\ link[c] # "none" =>
             (cleanup'[c].pc \in Unlisted <=> cleanup[c].pc \in Unlisted)
  <2>1. CASE cleanup' = cleanup
    BY <2>1
  <2>2. ASSUME NEW d \in Conn, NEW s \in Session, NEW u \in User,
               NEW h \in Handler, Open(d, s, u, h), NEW c \in Conn
        PROVE  /\ cleanup'[c].pc = "storeUser" => cleanup'[c] = cleanup[c]
               /\ link[c] # "none" => cleanup'[c] = cleanup[c]
    <3>1. link[d] = "none"
          /\ cleanup' = [cleanup EXCEPT
                            ![d] = [cleanup[d] EXCEPT !.pc = "serve"]]
      BY <2>2 DEF Open
    <3>2. cleanup[d] \in CleanState /\ cleanup \in [Conn -> CleanState]
      BY DEF TypeOK
    <3>3. [cleanup[d] EXCEPT !.pc = "serve"].pc = "serve"
      BY <3>2 DEF CleanState
    <3>. QED BY <3>1, <3>2, <3>3
  <2>3. ASSUME NEW d \in Conn, Clean(d), NEW c \in Conn
        PROVE  /\ cleanup'[c].pc = "storeUser" => cleanup'[c] = cleanup[c]
               /\ cleanup'[c].pc \in Unlisted <=> cleanup[c].pc \in Unlisted
    <3>1. \/ CleanDeleteManagersMap(d) \/ CleanLoadDoc(d) \/ CleanStoreDoc(d)
          \/ CleanDeleteSessionInRedis(d)
      BY <2>3 DEF Clean
    <3>2. \E pc \in Unlisted, next \in Unlisted :
            \/ CleanStep(d, pc, next)
            \/ \E b, s, list : CleanHold(d, pc, next, b, s, list)
      BY <3>1 DEF CleanDeleteManagersMap, CleanLoadDoc, CleanStoreDoc,
         CleanDeleteSessionInRedis, Unlisted
    <3>3. /\ cleanup[d].pc \in Unlisted /\ cleanup'[d].pc \in Unlisted
          /\ \A b \in Conn \ {d} : cleanup'[b] = cleanup[b]
      <4>1. PICK pc \in Unlisted, next \in Unlisted :
              \/ CleanStep(d, pc, next)
              \/ \E b, s, list : CleanHold(d, pc, next, b, s, list)
        BY <3>2
      <4>2. CASE CleanStep(d, pc, next)
        BY <4>2, AfterCleanStep
      <4>3. CASE \E b, s, list : CleanHold(d, pc, next, b, s, list)
        <5>1. PICK x, y, list : CleanHold(d, pc, next, x, y, list)
          BY <4>3
        <5>2. /\ cleanup[d].pc = pc
              /\ \A b \in Conn \ {d} : cleanup'[b] = cleanup[b]
              /\ cleanup'[d] = [pc |-> next, conn |-> NoConn, doc |-> x,
                                session |-> y, list |-> list]
          BY <5>1, AfterCleanHold
        <5>3. cleanup'[d].pc = next
          BY <5>2
        <5>. QED BY <5>2, <5>3
      <4>. QED BY <4>1, <4>2, <4>3
    <3>. QED BY <3>3 DEF Unlisted
  <2>4. \/ cleanup' = cleanup
        \/ \E d \in Conn : \/ Clean(d)
                           \/ \E s \in Session, u \in User, h \in Handler :
                                Open(d, s, u, h)
    BY DEF Next, Client, ClientGone, OpenEditor, CloseEditor, Send, Auth,
       AuthRefused, AuthAccepted, AuthLoadUser, AuthStoreUser, AuthAddManager,
       AuthStoreSessionInRedis, Join, Exit, JoinSetFile, JoinAddFileInSession,
       JoinLoadDoc, JoinStoreDoc, ExitLoadDoc, ExitStoreDoc,
       ExitDeleteFileInSession, PumpExit, Shutdown, vars
  <2>. QED BY <2>1, <2>2, <2>3, <2>4
<1>. QED BY <1>1, <1>2, <1>3 DEF UserQuiet

\* Cardinalities of the sets of owners.
LEMMA OwnersFinite ==
    ASSUME Users, NEW u, NEW s
    PROVE  IsFiniteSet(Owners(u, s)) /\ Cardinality(Owners(u, s)) \in Nat
<1>1. Owners(u, s) \subseteq hist.listed
  BY DEF Owners
<1>2. IsFiniteSet(Owners(u, s))
  BY <1>1, FS_Subset DEF Users
<1>. QED BY <1>2, FS_CardinalityType

\* UserListExact for one user and one tab.
UserExact(u, s) ==
    (\A c \in hist.late : who[c] # [user |-> u, session |-> s]) =>
        Occurrences(s, userIndex[u]) = Cardinality(Owners(u, s))

\* The property, one list and one session at a time.
LEMMA UserExactIs ==
    UserListExact <=>
        \A u \in User \ hist.lost, s \in Session : UserExact(u, s)
  BY DEF UserListExact, UserExact, Owners, Unlisted

\* And after the step.
LEMMA UserExactPrimed ==
    ASSUME \A u \in User \ hist'.lost, s \in Session : UserExact(u, s)'
    PROVE  UserListExact'
  BY DEF UserListExact, UserExact, Owners, Unlisted

\* A cleanup that does not move keeps its entry.
LEMMA HeldFrame ==
    ASSUME TypeOK, Bookkeeping, Users, UserHeld, Docs, [Next]_vars,
           NEW c \in Conn, cleanup'[c].pc = "storeUser",
           cleanup'[c] = cleanup[c]
    PROVE  HoldsEntry(c)'
<1>1. HoldsEntry(c)
  BY DEF UserHeld
<1>2. link[c] # "none" /\ who[c].user \in User
  BY DEF Bookkeeping, Unopened, Users
<1>3. client[c] = who[c] /\ client[c] # Nobody
  BY <1>1, <1>2, PoolAssumption DEF HoldsEntry, Nobody
<1>4. client'[c] = client[c] /\ who'[c] = who[c]
  BY <1>2, <1>3, Monotone
<1>5. hist.listed \subseteq hist'.listed /\ hist.late \subseteq hist'.late
  BY ListedChange, HistChange
<1>. QED BY <1>1, <1>4, <1>5 DEF HoldsEntry

\* A quiet step leaves every list with the entries it had.
LEMMA UserQuietStep ==
    ASSUME TypeOK, Bookkeeping, Users, UserHeld, UserListExact, Docs,
           [Next]_vars, UserQuiet
    PROVE  UserHeld' /\ UserListExact'
<1>1. \A c \in hist.listed \cup hist.late :
        c \in Conn /\ link[c] # "none" /\ who'[c] = who[c]
  BY Monotone DEF TypeOK, Bookkeeping, Unopened, Users
<1>2. UserHeld'
  BY HeldFrame DEF UserHeld, UserQuiet
<1>3. ASSUME NEW u \in User \ hist'.lost, NEW s \in Session
      PROVE  UserExact(u, s)'
  <2>1. u \notin hist.lost
    BY HistChange
  <2>2. Owners(u, s)' = Owners(u, s)
    BY <1>1 DEF Owners, UserQuiet, TypeOK
  <2>. QED BY <1>1, <2>1, <2>2, UserExactIs DEF UserExact, UserQuiet
<1>. QED BY <1>2, <1>3, UserExactPrimed

\* The identity of a connection that was opened.
LEMMA WhoIs ==
    ASSUME TypeOK, Bookkeeping, Users, NEW c \in Conn, link[c] # "none"
    PROVE  /\ who[c].user \in User /\ who[c].session \in Session
           /\ who[c] = [user |-> who[c].user, session |-> who[c].session]
  BY DEF TypeOK, Identity, Bookkeeping, Opened, Users

\* addUserIndex stores the list with the session of a connection that gets
\* its one entry by this.
LEMMA UserAuthStep ==
    ASSUME TypeOK, Bookkeeping, Users, UserHeld, UserListExact, Docs,
           NEW h \in Handler, AuthStoreUser(h)
    PROVE  UserHeld' /\ UserListExact'
<1> DEFINE c == go[h].conn
<1>0. [Next]_vars /\ TypeOK'
  BY TypeStep DEF Next, Auth
<1>1. UNCHANGED <<who, cleanup, client>>
  BY DEF AuthStoreUser, clientSide
<1>2. UserHeld'
  BY <1>0, <1>1, HeldFrame DEF UserHeld
<1>3. c \in Conn /\ link[c] # "none" /\ client[c] = who[c] /\ c \notin hist.listed
  BY GoField DEF AuthStoreUser, Hold, Bookkeeping, Unopened, AuthAssigned,
     AuthNotListed, AuthPC
<1>4. /\ who[c].user \in User /\ who[c].session \in Session
      /\ who[c] = [user |-> who[c].user, session |-> who[c].session]
  BY <1>3, WhoIs
<1>5. /\ userIndex' = [userIndex EXCEPT
                         ![who[c].user] = Append(go[h].list, who[c].session)]
      /\ hist'.listed = hist.listed \cup {c} /\ hist.late \subseteq hist'.late
      /\ cleanup[c].pc # "serve" => c \in hist'.late
      /\ userIndex[who[c].user] # go[h].list => who[c].user \in hist'.lost
      /\ hist.lost \subseteq hist'.lost
  BY <1>3 DEF AuthStoreUser, TypeOK, Overwrites
<1> HIDE DEF c
<1>6. ASSUME NEW u \in User \ hist'.lost, NEW s \in Session,
             \A d \in hist'.late : who[d] # [user |-> u, session |-> s]
      PROVE  Occurrences(s, userIndex'[u]) = Cardinality(Owners(u, s)')
  <2>1. Occurrences(s, userIndex[u]) = Cardinality(Owners(u, s))
    BY <1>5, <1>6, UserExactIs DEF UserExact
  <2>2. userIndex[u] \in Seq(Session \cup {NoSession})
    BY DEF TypeOK
  <2>3. CASE u # who[c].user
    <3>1. userIndex'[u] = userIndex[u]
      BY <1>5, <2>3 DEF TypeOK
    <3>2. Owners(u, s)' = Owners(u, s)
      BY <1>1, <1>4, <1>5, <2>3 DEF Owners
    <3>. QED BY <2>1, <3>1, <3>2
  <2>4. CASE u = who[c].user
    <3>1. userIndex'[u] = Append(userIndex[u], who[c].session)
      BY <1>4, <1>5, <1>6, <2>4 DEF TypeOK
    <3>2. CASE s # who[c].session
      <4>1. Owners(u, s)' = Owners(u, s)
        BY <1>1, <1>4, <1>5, <3>2 DEF Owners
      <4>. QED BY <1>4, <2>1, <2>2, <3>1, <3>2, <4>1, OccursAppended
    <3>3. CASE s = who[c].session
      <4>1. who[c] = [user |-> u, session |-> s]
        BY <1>4, <2>4, <3>3
      <4>2. cleanup[c].pc = "serve"
        BY <1>5, <1>6, <4>1
      <4>3. Owners(u, s)' = Owners(u, s) \cup {c} /\ c \notin Owners(u, s)
        BY <1>1, <1>3, <1>5, <4>1, <4>2 DEF Owners, Unlisted
      <4>4. Cardinality(Owners(u, s)') = Cardinality(Owners(u, s)) + 1
        BY <4>3, OwnersFinite, FS_AddElement
      <4>. QED BY <1>4, <2>1, <2>2, <3>1, <3>3, <4>4, OccursAppended
    <3>. QED BY <3>2, <3>3
  <2>. QED BY <2>3, <2>4
<1>7. \A u \in User \ hist'.lost, s \in Session : UserExact(u, s)'
  BY <1>1, <1>6 DEF UserExact
<1>. QED BY <1>2, <1>7, UserExactPrimed

\* What the cleanup finds in the list of the connection's user.
LEMMA CleanFinds ==
    ASSUME TypeOK, Users, NEW c \in Conn
    PROVE  /\ searchIndex(client[c].session, userIndex[client[c].user]) # 0
                => client[c].user # NoUser
           /\ searchIndex(client[c].session, userIndex[client[c].user]) = 0
                => Occurrences(client[c].session, userIndex[client[c].user]) = 0
<1>1. userIndex[client[c].user] \in Seq(Session \cup {NoSession})
  BY ClientField
<1>2. Occurrences(client[c].session, <<>>) = 0
  BY OccursNowhere
<1>. QED BY <1>1, <1>2, OccursIf DEF Users

\* deleteUserIndex loads the list; when it holds no entry of the connection,
\* none was owed.
LEMMA UserLoadStep ==
    ASSUME TypeOK, Bookkeeping, Users, UserHeld, UserListExact, Docs,
           NEW c \in Conn, CleanLoadUser(c)
    PROVE  UserHeld' /\ UserListExact'
<1> DEFINE idx == searchIndex(client[c].session, userIndex[client[c].user])
<1>0. [Next]_vars
  BY DEF Next, Clean
<1>1. UNCHANGED <<who, client, userIndex, go>>
  BY DEF CleanLoadUser, clientSide
<1>2. /\ hist'.listed = hist.listed /\ hist'.lost = hist.lost
      /\ hist.late \subseteq hist'.late
      /\ client[c].user # NoUser => c \in hist.listed \cup hist'.late
  BY DEF CleanLoadUser, TypeOK
<1>3. /\ cleanup[c].pc = "serve"
      /\ \A d \in Conn \ {c} : cleanup'[d] = cleanup[d]
      /\ idx # 0 => /\ cleanup'[c].pc = "storeUser"
                    /\ cleanup'[c].session = client[c].session
                    /\ cleanup'[c].list = userIndex[client[c].user]
      /\ idx = 0 => cleanup'[c].pc = "delManager"
  <2>1. CASE idx # 0
    <3>1. CleanHold(c, "serve", "storeUser", NoDoc, client[c].session,
                    userIndex[client[c].user])
      BY <2>1 DEF CleanLoadUser
    <3>2. /\ cleanup[c].pc = "serve"
          /\ cleanup'[c] = [pc |-> "storeUser", conn |-> NoConn,
                            doc |-> NoDoc, session |-> client[c].session,
                            list |-> userIndex[client[c].user]]
          /\ \A d \in Conn \ {c} : cleanup'[d] = cleanup[d]
      BY <3>1, AfterCleanHold
    <3>. QED BY <2>1, <3>2
  <2>2. CASE idx = 0
    <3>1. CleanStep(c, "serve", "delManager")
      BY <2>2 DEF CleanLoadUser
    <3>. QED BY <2>2, <3>1, AfterCleanStep
  <2>. QED BY <2>1, <2>2
<1>4. link[c] # "none"
  BY <1>3 DEF Bookkeeping, Unopened
<1>5. /\ who[c].user \in User /\ who[c].session \in Session
      /\ who[c] = [user |-> who[c].user, session |-> who[c].session]
  BY <1>4, WhoIs
<1>6. client[c].user # NoUser => client[c] = who[c]
  BY DEF Bookkeeping, ClientIsTab, Nobody
<1>7. idx # 0 => client[c].user # NoUser
  BY CleanFinds
<1>8. idx = 0 => Occurrences(client[c].session, userIndex[client[c].user]) = 0
  BY CleanFinds
<1>9. HoldsEntry(c)' \/ cleanup'[c].pc # "storeUser"
  BY <1>1, <1>2, <1>3, <1>6, <1>7 DEF HoldsEntry
<1>10. UserHeld'
  BY <1>0, <1>3, <1>9, HeldFrame DEF UserHeld
<1> HIDE DEF idx
<1>11. ASSUME NEW u \in User \ hist'.lost, NEW s \in Session,
              \A d \in hist'.late : who[d] # [user |-> u, session |-> s]
       PROVE  Occurrences(s, userIndex[u]) = Cardinality(Owners(u, s)')
  <2>1. Occurrences(s, userIndex[u]) = Cardinality(Owners(u, s))
    BY <1>2, <1>11, UserExactIs DEF UserExact
  <2>2. ASSUME idx = 0, c \in Owners(u, s)
        PROVE  FALSE
    <3>1. c \in hist.listed /\ who[c] = [user |-> u, session |-> s]
      BY <2>2 DEF Owners
    <3>2. client[c] = who[c]
      BY <3>1 DEF Bookkeeping, AuthAssigned
    <3>3. Occurrences(s, userIndex[u]) = 0
      BY <1>8, <2>2, <3>1, <3>2
    <3>. QED BY <2>1, <2>2, <3>3, OwnersFinite, FS_EmptySet
  <2>3. Owners(u, s)' = Owners(u, s)
    <3>1. ASSUME NEW d \in Conn
          PROVE  d \in Owners(u, s)' <=> d \in Owners(u, s)
      <4>1. CASE d # c
        BY <1>1, <1>2, <1>3, <4>1 DEF Owners
      <4>2. CASE d = c /\ idx # 0
        BY <1>1, <1>2, <1>3, <4>2 DEF Owners, Unlisted
      <4>3. CASE d = c /\ idx = 0
        BY <1>3, <2>2, <4>3 DEF Owners, Unlisted
      <4>. QED BY <4>1, <4>2, <4>3
    <3>2. Owners(u, s) \subseteq Conn /\ Owners(u, s)' \subseteq Conn
      BY <1>2 DEF Owners, TypeOK
    <3>. QED BY <3>1, <3>2
  <2>. QED BY <2>1, <2>3
<1>12. \A u \in User \ hist'.lost, s \in Session : UserExact(u, s)'
  BY <1>1, <1>11 DEF UserExact
<1>. QED BY <1>10, <1>12, UserExactPrimed

\* deleteUserIndex stores the list without the connection's entry.
LEMMA UserCleanStep ==
    ASSUME TypeOK, Bookkeeping, Users, UserHeld, UserListExact, Docs,
           NEW c \in Conn, CleanStoreUser(c)
    PROVE  UserHeld' /\ UserListExact'
<1>0. [Next]_vars
  BY DEF Next, Clean
<1>1. UNCHANGED <<who, client, go>>
  BY DEF CleanStoreUser, clientSide
<1>2. /\ cleanup[c].pc = "storeUser" /\ cleanup'[c].pc = "delManager"
      /\ \A d \in Conn \ {c} : cleanup'[d] = cleanup[d]
  <2>1. CleanHold(c, "storeUser", "delManager", NoDoc, NoSession, <<>>)
    BY DEF CleanStoreUser
  <2>2. /\ cleanup[c].pc = "storeUser"
        /\ cleanup'[c] = [pc |-> "delManager", conn |-> NoConn,
                          doc |-> NoDoc, session |-> NoSession,
                          list |-> <<>>]
        /\ \A d \in Conn \ {c} : cleanup'[d] = cleanup[d]
    BY <2>1, AfterCleanHold
  <2>. QED BY <2>2
<1>3. UserHeld'
  BY <1>0, <1>2, HeldFrame DEF UserHeld
<1>4. HoldsEntry(c) /\ link[c] # "none"
  BY <1>2 DEF UserHeld, Bookkeeping, Unopened
<1>5. /\ who[c].user \in User /\ who[c].session \in Session
      /\ who[c] = [user |-> who[c].user, session |-> who[c].session]
  BY <1>4, WhoIs
<1>6. /\ userIndex' = [userIndex EXCEPT ![who[c].user] =
                         WithoutSession(cleanup[c].list, who[c].session)]
      /\ hist'.listed = hist.listed /\ hist'.late = hist.late
      /\ userIndex[who[c].user] # cleanup[c].list => who[c].user \in hist'.lost
      /\ hist.lost \subseteq hist'.lost
  <2>1. hist' = [hist EXCEPT !.lost = @ \cup Overwrites(who[c].user,
                       userIndex[who[c].user], cleanup[c].list)]
    BY <1>4 DEF CleanStoreUser, HoldsEntry
  <2>2. /\ hist'.listed = hist.listed /\ hist'.late = hist.late
        /\ hist'.lost = hist.lost \cup Overwrites(who[c].user,
                       userIndex[who[c].user], cleanup[c].list)
    BY <2>1, LostOnly
  <2>. QED BY <1>4, <2>2 DEF CleanStoreUser, HoldsEntry, Overwrites
<1>7. ASSUME NEW u \in User \ hist'.lost, NEW s \in Session,
             \A d \in hist'.late : who[d] # [user |-> u, session |-> s]
      PROVE  Occurrences(s, userIndex'[u]) = Cardinality(Owners(u, s)')
  <2>1. Occurrences(s, userIndex[u]) = Cardinality(Owners(u, s))
    BY <1>6, <1>7, UserExactIs DEF UserExact
  <2>2. userIndex[u] \in Seq(Session \cup {NoSession})
    BY DEF TypeOK
  <2>3. ASSUME who[c] # [user |-> u, session |-> s]
        PROVE  Owners(u, s)' = Owners(u, s)
    BY <1>1, <1>2, <1>6, <2>3 DEF Owners, TypeOK
  <2>4. CASE u # who[c].user
    <3>1. userIndex'[u] = userIndex[u]
      BY <1>6, <2>4 DEF TypeOK
    <3>2. who[c] # [user |-> u, session |-> s]
      BY <2>4
    <3>. QED BY <2>1, <2>3, <3>1, <3>2
  <2>5. CASE u = who[c].user
    <3>1. userIndex'[u] = WithoutSession(userIndex[u], who[c].session)
      BY <1>5, <1>6, <1>7, <2>5 DEF TypeOK
    <3>2. CASE s # who[c].session
      <4>1. who[c] # [user |-> u, session |-> s]
        BY <3>2
      <4>. QED BY <2>1, <2>2, <2>3, <3>1, <3>2, <4>1, OccursWithout
    <3>3. CASE s = who[c].session
      <4>1. who[c] = [user |-> u, session |-> s]
        BY <1>5, <2>5, <3>3
      <4>2. c \in hist.listed
        BY <1>4, <1>6, <1>7, <4>1 DEF HoldsEntry
      <4>3. Owners(u, s)' = Owners(u, s) \ {c} /\ c \in Owners(u, s)
        BY <1>1, <1>2, <1>6, <4>1, <4>2 DEF Owners, Unlisted, TypeOK
      <4>4. Cardinality(Owners(u, s)') = Cardinality(Owners(u, s)) - 1
        BY <4>3, OwnersFinite, FS_RemoveElement
      <4>5. searchIndex(s, userIndex[u]) # 0
        BY <1>4, <1>6, <1>7, <2>5, <3>3 DEF HoldsEntry
      <4>. QED BY <2>1, <2>2, <3>1, <3>3, <4>4, <4>5, OccursWithout
    <3>. QED BY <3>2, <3>3
  <2>. QED BY <2>4, <2>5
<1>8. \A u \in User \ hist'.lost, s \in Session : UserExact(u, s)'
  BY <1>1, <1>7 DEF UserExact
<1>. QED BY <1>3, <1>8, UserExactPrimed

\* Every step keeps the lists of the users exact.
LEMMA UserStep ==
    ASSUME TypeOK, Bookkeeping, Users, UserHeld, UserListExact, Docs,
           [Next]_vars
    PROVE  UserHeld' /\ UserListExact'
  BY UserQuietSteps, UserQuietStep, UserAuthStep, UserLoadStep, UserCleanStep

\* A session in a user's list that leads to a connection of somebody else
\* belongs to an older connection of the tab.
LEMMA MisroutedIf ==
    ASSUME TypeOK, Bookkeeping, Users, UserListExact
    PROVE  MisroutedOnlyAfterRelogin
<1> SUFFICES ASSUME NEW u \in User \ hist.lost, NEW s \in Session,
                    managers[s] # NoConn, Contains(userIndex[u], s),
                    who[managers[s]].user # u
             PROVE  \E d \in SameTab(managers[s]) :
                      /\ who[d].user = u
                      /\ cleanup[d].pc # "finished" \/ d \in hist.late
  BY DEF MisroutedOnlyAfterRelogin
<1> DEFINE c == managers[s]
<1>1. who[c].session = s
  BY DEF Users
<1>2. ASSUME NEW d \in Conn, who[d] = [user |-> u, session |-> s]
      PROVE  d \in SameTab(c) /\ who[d].user = u
  BY <1>1, <1>2 DEF SameTab
<1>3. CASE \E d \in hist.late : who[d] = [user |-> u, session |-> s]
  BY <1>2, <1>3 DEF TypeOK
<1>4. CASE \A d \in hist.late : who[d] # [user |-> u, session |-> s]
  <2>1. Occurrences(s, userIndex[u]) = Cardinality(Owners(u, s))
    BY <1>4, UserExactIs DEF UserExact
  <2>2. userIndex[u] \in Seq(Session \cup {NoSession})
    BY DEF TypeOK
  <2>3. Occurrences(s, userIndex[u]) # 0
    BY <2>2, OccursIf
  <2>4. Owners(u, s) # {}
    BY <2>1, <2>3, FS_EmptySet
  <2>5. PICK d \in Owners(u, s) : TRUE
    BY <2>4
  <2>6. /\ d \in Conn /\ who[d] = [user |-> u, session |-> s]
        /\ cleanup[d].pc # "finished"
    BY <2>5 DEF Owners, Unlisted, TypeOK
  <2>. QED BY <1>2, <2>6
<1>. QED BY <1>3, <1>4

-----------------------------------------------------------------------------
(* The documents' lists.                                                   *)

\* The goroutine after a step, field by field.
LEMMA StepIs ==
    ASSUME TypeOK, NEW h \in Handler, NEW pc, NEW next, Step(h, pc, next)
    PROVE  /\ go[h].pc = pc /\ go'[h].pc = next /\ go'[h].conn = go[h].conn
           /\ go'[h].doc = go[h].doc /\ go'[h].session = go[h].session
           /\ go'[h].list = go[h].list /\ Others(h)
  BY DEF TypeOK, GoState, Step, Others

\* A step that holds a list, field by field.
LEMMA HoldIs ==
    ASSUME TypeOK, NEW h \in Handler, NEW pc, NEW next, NEW d, NEW s, NEW list,
           Hold(h, pc, next, d, s, list)
    PROVE  /\ go[h].pc = pc /\ go'[h].pc = next /\ go'[h].conn = go[h].conn
           /\ go'[h].doc = d /\ go'[h].session = s /\ go'[h].list = list
           /\ Others(h)
<1>1. /\ go[h].pc = pc /\ Others(h)
      /\ go'[h] = [pc |-> next, conn |-> go[h].conn, doc |-> d,
                   session |-> s, list |-> list]
  BY DEF TypeOK, Hold, Others
<1>. QED BY <1>1

\* The start of a goroutine, field by field.
LEMMA SpawnIs ==
    ASSUME TypeOK, NEW h \in Handler, NEW c, NEW pc, NEW d, Spawn(h, c, pc, d)
    PROVE  /\ go[h].pc = "idle" /\ go'[h].pc = pc /\ go'[h].conn = c
           /\ go'[h].doc = d /\ Others(h)
  BY DEF TypeOK, Spawn, Idle, Others

\* A step of a cleanup that holds a list, field by field.
LEMMA CleanHoldIs ==
    ASSUME TypeOK, NEW c \in Conn, NEW pc, NEW next, NEW d, NEW s, NEW list,
           CleanHold(c, pc, next, d, s, list)
    PROVE  /\ cleanup[c].pc = pc /\ cleanup'[c].pc = next
           /\ cleanup'[c].doc = d /\ cleanup'[c].session = s
           /\ cleanup'[c].list = list
           /\ \A b \in Conn \ {c} : cleanup'[b] = cleanup[b]
<1>1. /\ cleanup[c].pc = pc
      /\ cleanup'[c] = [pc |-> next, conn |-> NoConn, doc |-> d,
                        session |-> s, list |-> list]
      /\ \A b \in Conn \ {c} : cleanup'[b] = cleanup[b]
  BY AfterCleanHold
<1>. QED BY <1>1

\* A goroutine belongs to a connection that was opened.
LEMMA GoConn ==
    ASSUME TypeOK, Bookkeeping, NEW h \in Handler, go[h].pc # "idle"
    PROVE  go[h].conn \in Conn /\ link[go[h].conn] # "none"
  BY GoField DEF Bookkeeping, Unopened

\* A session that is orderly after a step was so before it.
LEMMA OrderlyBefore ==
    ASSUME TypeOK, Bookkeeping, Docs, [Next]_vars, NEW s \in Session,
           Orderly(s)'
    PROVE  Orderly(s)
<1> SUFFICES ASSUME NEW c \in hist.tangled, client[c].session = s
             PROVE  FALSE
  BY DEF Orderly
<1>1. c \in Conn /\ c \in hist'.tangled
  BY HistChange DEF TypeOK
<1>2. client[c] # Nobody
  BY PoolAssumption DEF Nobody
<1>3. client'[c] = client[c]
  BY <1>1, <1>2, Monotone
<1>. QED BY <1>1, <1>3 DEF Orderly

\* The document a list with the session belongs to is a document.
LEMMA FoundInDoc ==
    ASSUME TypeOK, Docs, NEW c \in Conn,
           searchIndex(client[c].session, docSessions[file[c]]) # 0
    PROVE  file[c] \in Doc
<1>1. file[c] = NoDoc => docSessions[file[c]] = <<>>
  BY DEF Docs
<1>2. <<>> \in Seq(Session) /\ Occurrences(client[c].session, <<>>) = 0
  BY OccursNowhere
<1>3. file[c] \in Doc \cup {NoDoc}
  BY ClientField
<1>. QED BY <1>1, <1>2, <1>3, OccursIf

\* The lists of the documents start empty and current connections are open,
\* after every step.
LEMMA DocsStep ==
    ASSUME TypeOK, Bookkeeping, Docs, AllTidy, [Next]_vars
    PROVE  Docs'
<1>0. TypeOK' /\ Bookkeeping'
  BY TypeStep, BookkeepingStep
<1>1. docSessions'[NoDoc] = <<>>
  <2>1. ASSUME NEW h \in Handler, JoinStoreDoc(h) \/ ExitStoreDoc(h)
        PROVE  docSessions'[NoDoc] = <<>>
    <3>1. go[h].pc \in {"joinStore", "exitStore"} /\ go[h].conn \in Conn
      BY <2>1, GoField DEF JoinStoreDoc, ExitStoreDoc, Done, Hold
    <3>2. go[h].doc \in Doc
      BY <3>1 DEF AllTidy, Tidy, DocHeld, JoinPC
    <3>. QED BY <2>1, <3>2, PoolAssumption
             DEF JoinStoreDoc, ExitStoreDoc, TypeOK, Docs
  <2>2. ASSUME NEW c \in Conn, CleanStoreDoc(c)
        PROVE  docSessions'[NoDoc] = <<>>
    <3>1. cleanup[c].doc \in Doc
      BY <2>2 DEF CleanStoreDoc, CleanHold, AllTidy, Tidy, DocHeld
    <3>. QED BY <2>2, <3>1, PoolAssumption DEF CleanStoreDoc, TypeOK, Docs
  <2>3. \/ docSessions' = docSessions
        \/ \E h \in Handler : JoinStoreDoc(h) \/ ExitStoreDoc(h)
        \/ \E c \in Conn : CleanStoreDoc(c)
    BY DEF Next, Client, Open, ClientGone, OpenEditor, CloseEditor, Send,
       Auth, AuthRefused, AuthAccepted, AuthLoadUser, AuthStoreUser,
       AuthAddManager, AuthStoreSessionInRedis, Join, Exit, JoinSetFile,
       JoinAddFileInSession, JoinLoadDoc, ExitLoadDoc,
       ExitDeleteFileInSession, Clean, CleanLoadUser, CleanStoreUser,
       CleanDeleteManagersMap, CleanLoadDoc, CleanDeleteSessionInRedis,
       PumpExit, Shutdown, vars, maps
  <2>. QED BY <2>1, <2>2, <2>3 DEF Docs
<1>2. IsFiniteSet({c \in Conn : Identified(c)'})
  <2>1. ASSUME NEW h \in Handler, AuthAccepted(h)
        PROVE  IsFiniteSet({c \in Conn : Identified(c)'})
    <3>1. {c \in Conn : Identified(c)'} \subseteq
             {c \in Conn : Identified(c)} \cup {go[h].conn}
      BY <2>1 DEF AuthAccepted, Identified, TypeOK
    <3>2. IsFiniteSet({c \in Conn : Identified(c)} \cup {go[h].conn})
      BY FS_AddElement DEF Docs
    <3>. QED BY <3>1, <3>2, FS_Subset
  <2>2. client' = client \/ \E h \in Handler : AuthAccepted(h)
    BY DEF Next, Client, Open, ClientGone, OpenEditor, CloseEditor, Send,
       Auth, AuthRefused, AuthLoadUser, AuthStoreUser,
       AuthAddManager, AuthStoreSessionInRedis, Join, Exit, JoinSetFile,
       JoinAddFileInSession, JoinLoadDoc, JoinStoreDoc, ExitLoadDoc,
       ExitStoreDoc, ExitDeleteFileInSession, Clean, CleanLoadUser,
       CleanStoreUser, CleanDeleteManagersMap, CleanLoadDoc, CleanStoreDoc,
       CleanDeleteSessionInRedis, PumpExit, Shutdown, vars
  <2>. QED BY <2>1, <2>2 DEF Identified, Docs
<1>3. ASSUME NEW c \in Conn, link'[c] = "none"
      PROVE  file'[c] = NoDoc
  <2>1. link[c] = "none"
    BY <1>3, LinkChange
  <2>2. file[c] = NoDoc
    BY <2>1 DEF Docs
  <2>3. ASSUME NEW h \in Handler, JoinSetFile(h)
        PROVE  file'[c] = file[c]
    <3>1. go[h].conn # c
      BY <2>1, <2>3 DEF JoinSetFile, Step, Bookkeeping, Unopened
    <3>. QED BY <2>3, <3>1 DEF JoinSetFile, TypeOK
  <2>4. ASSUME \/ \E h \in Handler : ExitStoreDoc(h)
               \/ \E d \in Conn : CleanStoreDoc(d)
        PROVE  file'[c] \in {file[c], NoDoc}
    BY <2>4 DEF ExitStoreDoc, CleanStoreDoc, TypeOK
  <2>5. \/ file' = file
        \/ \E h \in Handler : JoinSetFile(h) \/ ExitStoreDoc(h)
        \/ \E d \in Conn : CleanStoreDoc(d)
    BY DEF Next, Client, Open, ClientGone, OpenEditor, CloseEditor, Send,
       Auth, AuthRefused, AuthAccepted, AuthLoadUser, AuthStoreUser,
       AuthAddManager, AuthStoreSessionInRedis, Join, Exit,
       JoinAddFileInSession, JoinLoadDoc, JoinStoreDoc, ExitLoadDoc,
       ExitDeleteFileInSession, Clean, CleanLoadUser, CleanStoreUser,
       CleanDeleteManagersMap, CleanLoadDoc, CleanDeleteSessionInRedis,
       PumpExit, Shutdown, vars
  <2>. QED BY <2>2, <2>3, <2>4, <2>5
<1>4. ASSUME NEW s \in Session, current'[s] # NoConn
      PROVE  link'[current'[s]] # "none" /\ who'[current'[s]].session = s
  <2>1. CASE current'[s] = current[s]
    <3>1. current[s] \in Conn /\ link[current[s]] # "none"
          /\ who[current[s]].session = s
      BY <1>4, <2>1 DEF Docs, TypeOK
    <3>. QED BY <2>1, <3>1, LinkChange, Monotone
  <2>2. ASSUME NEW c \in Conn, NEW t \in Session, NEW u \in User,
               NEW h \in Handler, Open(c, t, u, h), current'[s] # current[s]
        PROVE  link'[current'[s]] # "none" /\ who'[current'[s]].session = s
    BY <2>2 DEF Open, TypeOK
  <2>3. \/ current' = current
        \/ \E c \in Conn, t \in Session, u \in User, h \in Handler :
              Open(c, t, u, h)
    BY DEF Next, Client, ClientGone, OpenEditor, CloseEditor, Send,
       Auth, AuthRefused, AuthAccepted, AuthLoadUser, AuthStoreUser,
       AuthAddManager, AuthStoreSessionInRedis, Join, Exit, JoinSetFile,
       JoinAddFileInSession, JoinLoadDoc, JoinStoreDoc, ExitLoadDoc,
       ExitStoreDoc, ExitDeleteFileInSession, Clean, CleanLoadUser,
       CleanStoreUser, CleanDeleteManagersMap, CleanLoadDoc, CleanStoreDoc,
       CleanDeleteSessionInRedis, PumpExit, Shutdown, vars, clientSide
  <2>. QED BY <2>1, <2>2, <2>3
<1>. QED BY <1>1, <1>2, <1>3, <1>4 DEF Docs

\* A step that starts no goroutine on a connection, lets no exitFile on it
\* move, and leaves what its goroutines hold.
Undisturbed(c) ==
    /\ \A h \in Handler :
         go'[h].pc # "idle" /\ go'[h].conn = c =>
           \/ go'[h] = go[h]
           \/ /\ go[h].conn = c
              /\ \/ go[h].pc \in AuthPC /\ go'[h].pc \in AuthPC
                 \/ /\ go[h].pc = "joinRedis" /\ go'[h].pc = "joinLoad"
                    /\ go'[h].doc = go[h].doc
    /\ \A h \in Handler :
         go[h].pc \in {"exit", "exitStore"} /\ go[h].conn = c => go'[h] = go[h]
\* A cleanup that stands still, or moves to a step that is not the Store of
\* DeleteSessionInDoc.
CleanQuiet(c) ==
    \/ cleanup'[c] = cleanup[c]
    \/ /\ cleanup'[c].pc # "storeDoc"
       /\ Busy(c) => cleanup'[c].pc \in BeforeDoc \/ c \in hist'.tangled

\* A connection no step is about stays tidy.
LEMMA TidyFrame ==
    ASSUME TypeOK, Bookkeeping, Docs, AllTidy, [Next]_vars, NEW c \in Conn,
           Undisturbed(c), CleanQuiet(c),
           client'[c] = client[c], file'[c] = file[c],
           \A s \in Session : Viewing(s, c)' => Viewing(s, c)
    PROVE  Tidy(c)'
<1>1. /\ Tidy(c) /\ hist.lost \subseteq hist'.lost
      /\ c \notin hist'.tangled => c \notin hist.tangled
  BY HistChange DEF AllTidy
<1>2. DocHeld(c)'
  BY <1>1 DEF Tidy, DocHeld, Undisturbed, CleanQuiet, JoinPC, AuthPC
<1>3. Busy(c)' => Busy(c)
  BY DEF Busy, Undisturbed, AuthPC
<1>4. ASSUME c \notin hist'.tangled
      PROVE  (OneAtATime(c) /\ FileHeld(c) /\ NoJoin(c))'
  <2>1. OneAtATime(c) /\ FileHeld(c) /\ NoJoin(c)
    BY <1>1, <1>4 DEF Tidy
  <2>2. OneAtATime(c)'
    <3>1. ASSUME NEW g \in Handler, NEW h \in Handler,
                 go'[g].pc # "idle" /\ go'[g].conn = c,
                 go'[h].pc # "idle" /\ go'[h].conn = c
          PROVE  g = h
      BY <2>1, <3>1 DEF OneAtATime, Undisturbed, AuthPC
    <3>2. Busy(c)' => cleanup'[c].pc \in BeforeDoc
      BY <1>3, <1>4, <2>1 DEF OneAtATime, CleanQuiet
    <3>. QED BY <3>1, <3>2 DEF OneAtATime, BeforeDoc
  <2>3. FileHeld(c)'
    <3>1. ASSUME NEW h \in Handler, go'[h].conn = c
          PROVE  /\ go'[h].pc \in AuthPC => file'[c] = NoDoc
                 /\ go'[h].pc \in {"joinRedis", "joinLoad", "joinStore",
                                   "exitStore"} => file'[c] = go'[h].doc
                 /\ go'[h].pc \in {"joinStore", "exitStore"} =>
                      go'[h].session = client'[c].session
                 /\ go'[h].pc = "exitStore" =>
                      searchIndex(go'[h].session, go'[h].list) # 0
      BY <2>1, <3>1 DEF FileHeld, Undisturbed, AuthPC
    <3>2. cleanup'[c].pc = "storeDoc" =>
            /\ file'[c] = cleanup'[c].doc
            /\ cleanup'[c].session = client'[c].session
            /\ searchIndex(cleanup'[c].session, cleanup'[c].list) # 0
      BY <2>1 DEF FileHeld, CleanQuiet
    <3>. QED BY <3>1, <3>2 DEF FileHeld
  <2>4. NoJoin(c)'
    BY <2>1 DEF NoJoin, Joining, Undisturbed, JoinPC, AuthPC
  <2>. QED BY <2>2, <2>3, <2>4
<1>5. ASSUME Identified(c)', Orderly(client[c].session)'
      PROVE  FileLeft(c)'
  <2>1. client[c].session \in Session /\ Identified(c)
    BY <1>5, ClientField DEF Identified
  <2>2. FileLeft(c)
    BY <1>1, <1>5, <2>1, OrderlyBefore DEF Tidy
  <2>3. ASSUME NEW h \in Handler, go'[h].conn = c, go'[h].pc = "exitRedis"
        PROVE  file'[c] \in {NoDoc} \cup hist'.lost
    BY <1>1, <2>2, <2>3 DEF FileLeft, Undisturbed, AuthPC
  <2>4. ASSUME NEW s \in Session, Viewing(s, c)', ~Exiting(c)'
        PROVE  file'[c] \in {NoDoc} \cup hist'.lost
    <3>1. ~Exiting(c)
      BY <2>4 DEF Exiting, Undisturbed
    <3>. QED BY <1>1, <2>2, <2>4, <3>1 DEF FileLeft
  <2>. QED BY <2>3, <2>4 DEF FileLeft
<1>. QED BY <1>2, <1>4, <1>5 DEF Tidy

\* The connections that a step of a goroutine is not about.
LEMMA Elsewhere ==
    ASSUME NEW h \in Handler, Others(h),
           \/ go'[h].pc = "idle"
           \/ go'[h].conn = go[h].conn
           \/ go[h].pc = "idle",
           NEW c \in Conn,
           go[h].pc # "idle" => go[h].conn # c,
           go[h].pc = "idle" => go'[h].conn # c
    PROVE  Undisturbed(c)
  BY DEF Undisturbed, Others

\* The steps of goroutines that leave all the connections tidy as they are.
LEMMA TidyQuietGo ==
    ASSUME TypeOK, Bookkeeping, Docs, AllTidy, NEW h \in Handler,
           \/ AuthRefused(h) \/ AuthLoadUser(h) \/ AuthStoreUser(h)
           \/ AuthAddManager(h) \/ AuthStoreSessionInRedis(h)
           \/ JoinAddFileInSession(h) \/ JoinStoreDoc(h)
           \/ ExitDeleteFileInSession(h)
    PROVE  AllTidy'
<1>0. [Next]_vars
  BY DEF Next, Auth, Join, Exit
<1>1. UNCHANGED <<client, file, cleanup, link, current, editing>>
  BY DEF AuthRefused, AuthLoadUser, AuthStoreUser, AuthAddManager,
     AuthStoreSessionInRedis, JoinAddFileInSession, JoinStoreDoc,
     ExitDeleteFileInSession, clientSide
<1>2. /\ Others(h)
      /\ \/ go'[h].pc = "idle" /\ go[h].pc \notin {"exit", "exitStore"}
         \/ /\ go'[h].conn = go[h].conn
            /\ \/ go[h].pc \in AuthPC /\ go'[h].pc \in AuthPC
               \/ /\ go[h].pc = "joinRedis" /\ go'[h].pc = "joinLoad"
                  /\ go'[h].doc = go[h].doc
  <2>1. CASE AuthRefused(h) \/ AuthStoreSessionInRedis(h) \/ JoinStoreDoc(h)
             \/ ExitDeleteFileInSession(h)
    BY <2>1, AfterDone DEF AuthRefused, AuthStoreSessionInRedis, JoinStoreDoc,
       ExitDeleteFileInSession
  <2>2. CASE AuthAddManager(h) \/ JoinAddFileInSession(h)
    BY <2>2, StepIs DEF AuthAddManager, JoinAddFileInSession, AuthPC
  <2>3. CASE AuthLoadUser(h) \/ AuthStoreUser(h)
    <3>1. \E d, s, list : \/ Hold(h, "addUser", "storeUser", d, s, list)
                          \/ Hold(h, "storeUser", "addManager", d, s, list)
      BY <2>3 DEF AuthLoadUser, AuthStoreUser
    <3>. QED BY <3>1, HoldIs DEF AuthPC
  <2>. QED BY <2>1, <2>2, <2>3
<1>3. ASSUME NEW c \in Conn PROVE Undisturbed(c)
  BY <1>2 DEF Undisturbed, Others, AuthPC
<1>4. ASSUME NEW c \in Conn PROVE Tidy(c)'
  <2>1. CleanQuiet(c) /\ client'[c] = client[c] /\ file'[c] = file[c]
    BY <1>1 DEF CleanQuiet
  <2>2. \A s \in Session : Viewing(s, c)' => Viewing(s, c)
    BY <1>1 DEF Viewing, Reading
  <2>. QED BY <1>0, <1>3, <2>1, <2>2, TidyFrame
<1>. QED BY <1>4 DEF AllTidy

\* The steps outside the goroutines that do.
LEMMA TidyQuietRest ==
    ASSUME TypeOK, Bookkeeping, Docs, AllTidy, [Next]_vars,
           \/ UNCHANGED vars \/ Shutdown
           \/ \E d \in Conn :
                \/ ClientGone(d) \/ PumpExit(d) \/ CleanLoadUser(d)
                \/ CleanStoreUser(d) \/ CleanDeleteManagersMap(d)
                \/ CleanDeleteSessionInRedis(d)
    PROVE  AllTidy'
<1>1. UNCHANGED <<client, file, go, current, editing>>
  BY DEF vars, Shutdown, ClientGone, PumpExit, CleanLoadUser, CleanStoreUser,
     CleanDeleteManagersMap, CleanDeleteSessionInRedis, clientSide
<1>2. ASSUME NEW c \in Conn
      PROVE  CleanQuiet(c) /\ (Reading(c)' => Reading(c))
  <2>1. CASE \/ UNCHANGED vars \/ Shutdown
             \/ \E d \in Conn : ClientGone(d) \/ PumpExit(d)
    BY <2>1 DEF vars, Shutdown, ClientGone, PumpExit, CleanQuiet, Reading,
       clientSide, TypeOK
  <2>2. ASSUME NEW d \in Conn, \/ CleanLoadUser(d) \/ CleanStoreUser(d)
                               \/ CleanDeleteManagersMap(d)
        PROVE  CleanQuiet(c) /\ (Reading(c)' => Reading(c))
    <3>1. /\ cleanup[d].pc # "finished" /\ link' = link
          /\ cleanup'[d].pc \in {"storeUser", "delManager", "loadDoc"}
          /\ \A b \in Conn \ {d} : cleanup'[b] = cleanup[b]
      <4>1. CASE CleanLoadUser(d)
        <5>1. \/ CleanStep(d, "serve", "delManager")
              \/ CleanHold(d, "serve", "storeUser", NoDoc, client[d].session,
                           userIndex[client[d].user])
          BY <4>1 DEF CleanLoadUser
        <5>. QED BY <4>1, <5>1, AfterCleanStep, CleanHoldIs
                 DEF CleanLoadUser, clientSide
      <4>2. CASE CleanStoreUser(d)
        BY <4>2, CleanHoldIs DEF CleanStoreUser, clientSide
      <4>3. CASE CleanDeleteManagersMap(d)
        BY <4>3, AfterCleanStep DEF CleanDeleteManagersMap, clientSide
      <4>. QED BY <2>2, <4>1, <4>2, <4>3
    <3>. QED BY <3>1 DEF CleanQuiet, Reading, BeforeDoc
  <2>3. ASSUME NEW d \in Conn, CleanDeleteSessionInRedis(d)
        PROVE  CleanQuiet(c) /\ (Reading(c)' => Reading(c))
    <3>1. /\ cleanup[d].pc = "delRedis" /\ cleanup'[d].pc = "finished"
          /\ \A b \in Conn \ {d} : cleanup'[b] = cleanup[b]
      BY <2>3, AfterCleanStep DEF CleanDeleteSessionInRedis
    <3>2. Busy(d) => d \in hist.tangled
      BY <3>1 DEF AllTidy, Tidy, OneAtATime, BeforeDoc
    <3>3. link' = [link EXCEPT ![d] = "closed"] /\ hist' = hist
      BY <2>3 DEF CleanDeleteSessionInRedis
    <3>. QED BY <3>1, <3>2, <3>3 DEF CleanQuiet, Reading, TypeOK
  <2>. QED BY <2>1, <2>2, <2>3
<1>3. ASSUME NEW c \in Conn PROVE Tidy(c)'
  <2>1. Undisturbed(c) /\ client'[c] = client[c] /\ file'[c] = file[c]
    BY <1>1 DEF Undisturbed
  <2>2. \A s \in Session : Viewing(s, c)' => Viewing(s, c)
    BY <1>1, <1>2 DEF Viewing
  <2>. QED BY <1>2, <2>1, <2>2, TidyFrame
<1>. QED BY <1>3 DEF AllTidy

\* A connection that is opened is tidy: nothing is known of it.
LEMMA TidyOpen ==
    ASSUME TypeOK, Bookkeeping, Docs, AllTidy, NEW c \in Conn,
           NEW s \in Session, NEW u \in User, NEW h \in Handler,
           Open(c, s, u, h)
    PROVE  AllTidy'
<1>0. [Next]_vars /\ TypeOK'
  BY TypeStep DEF Next, Client
<1>1. /\ link[c] = "none" /\ client[c] = Nobody /\ file[c] = NoDoc
      /\ \A g \in Handler : go[g].pc # "idle" => go[g].conn # c
  BY DEF Open, Bookkeeping, Unopened, Docs
<1>2. /\ go[h].pc = "idle" /\ go'[h].pc = "auth" /\ go'[h].conn = c
      /\ Others(h)
  BY SpawnIs DEF Open
<1>3. /\ UNCHANGED <<client, file, editing, hist>>
      /\ \A d \in Conn \ {c} : /\ cleanup'[d] = cleanup[d] /\ link'[d] = link[d]
                               /\ \A t \in Session : current'[t] = d => current[t] = d
  BY DEF Open, TypeOK
<1>4. cleanup'[c].pc = "serve"
  <2>1. cleanup' = [cleanup EXCEPT ![c] = [cleanup[c] EXCEPT !.pc = "serve"]]
    BY DEF Open
  <2>2. cleanup[c] \in CleanState
    BY DEF TypeOK
  <2>3. [cleanup[c] EXCEPT !.pc = "serve"].pc = "serve"
    BY <2>2 DEF CleanState
  <2>. QED BY <2>1, <2>3 DEF TypeOK
<1>5. ASSUME NEW d \in Conn, d # c PROVE Tidy(d)'
  <2>1. Undisturbed(d)
    BY <1>2, <1>5, Elsewhere
  <2>2. CleanQuiet(d) /\ client'[d] = client[d] /\ file'[d] = file[d]
    BY <1>3, <1>5 DEF CleanQuiet
  <2>3. \A t \in Session : Viewing(t, d)' => Viewing(t, d)
    BY <1>3, <1>5 DEF Viewing, Reading
  <2>. QED BY <1>0, <2>1, <2>2, <2>3, TidyFrame
<1>6. \A g \in Handler : go'[g].pc # "idle" /\ go'[g].conn = c => g = h
  BY <1>1, <1>2 DEF Others
<1>7. DocHeld(c)' /\ ~Identified(c)'
  BY <1>1, <1>2, <1>3, <1>4, <1>6 DEF DocHeld, Identified, Nobody, JoinPC
<1>8. OneAtATime(c)' /\ NoJoin(c)'
  BY <1>2, <1>4, <1>6 DEF OneAtATime, NoJoin, Joining, BeforeDoc, JoinPC
<1>9. FileHeld(c)'
  BY <1>1, <1>2, <1>3, <1>4, <1>6 DEF FileHeld, AuthPC
<1>10. Tidy(c)'
  BY <1>7, <1>8, <1>9 DEF Tidy
<1>. QED BY <1>5, <1>10 DEF AllTidy

\* A message sent on a tab's current connection.
LEMMA TidySend ==
    ASSUME TypeOK, Bookkeeping, Docs, AllTidy, NEW s \in Session,
           NEW h \in Handler, NEW pc \in {"join", "exit"}, NEW d,
           [Next]_vars, Send(s, h, pc, d),
           pc = "join" => d \in Doc /\ editing'[s] # NoDoc,
           \A t \in Session \ {s} : editing'[t] = editing[t]
    PROVE  AllTidy'
<1>0. PICK c \in Conn : c = current[s]
  BY DEF Send, TypeOK
<1>1. link[c] # "none" /\ who[c].session = s
  BY <1>0 DEF Send, Docs, TypeOK
<1>2. UNCHANGED <<link, current, client, file, cleanup>>
  BY DEF Send
<1>3. ASSUME NEW t \in Session, current[t] = c PROVE t = s
  BY <1>0, <1>1, <1>3 DEF Docs, Send
<1>4. ASSUME NEW b \in Conn, b # c \/ ~Reading(c), Undisturbed(b)
      PROVE  Tidy(b)'
  <2>1. CleanQuiet(b) /\ client'[b] = client[b] /\ file'[b] = file[b]
    BY <1>2 DEF CleanQuiet
  <2>2. \A t \in Session : Viewing(t, b)' => Viewing(t, b)
    BY <1>0, <1>2, <1>4 DEF Viewing, Reading
  <2>. QED BY <1>4, <2>1, <2>2, TidyFrame
<1>5. CASE ~Reading(c)
  <2>1. go' = go
    BY <1>0, <1>5 DEF Send
  <2>2. ASSUME NEW b \in Conn PROVE Undisturbed(b)
    BY <2>1 DEF Undisturbed
  <2>. QED BY <1>4, <1>5, <2>2 DEF AllTidy
<1>6. CASE Reading(c)
  <2>1. Spawn(h, c, pc, d)
    BY <1>0, <1>6 DEF Send
  <2>2. /\ go[h].pc = "idle" /\ go'[h].pc = pc /\ go'[h].conn = c
        /\ go'[h].doc = d /\ Others(h)
    BY <2>1, SpawnIs
  <2>3. ASSUME NEW b \in Conn, b # c PROVE Tidy(b)'
    <3>1. Undisturbed(b)
      BY <2>2, <2>3, Elsewhere
    <3>. QED BY <1>4, <2>3, <3>1
  <2>4. Busy(c) \/ cleanup[c].pc # "serve" => c \in hist'.tangled
    <3>1. ASSUME Busy(c) \/ cleanup[c].pc # "serve"
          PROVE  hist' = [hist EXCEPT !.tangled = @ \cup {c}]
      BY <1>0, <1>6, <3>1 DEF Send
    <3>. QED BY <3>1, TangledOnly
  <2>5. DocHeld(c)'
    <3>1. DocHeld(c)
      BY <1>1 DEF AllTidy, Tidy
    <3>. QED BY <1>2, <2>2, <3>1 DEF DocHeld, Others, JoinPC
  <2>6. CASE c \in hist'.tangled
    <3>1. ~Orderly(client[c].session)'
      BY <2>6 DEF Orderly
    <3>. QED BY <2>3, <2>5, <2>6, <3>1 DEF Tidy, AllTidy
  <2>7. CASE c \notin hist'.tangled
    <3>1. /\ cleanup'[c].pc = "serve"
          /\ \A g \in Handler : go'[g].pc # "idle" /\ go'[g].conn = c => g = h
      BY <1>2, <2>2, <2>4, <2>7 DEF Busy, Others
    <3>2. OneAtATime(c)' /\ FileHeld(c)'
      BY <2>2, <3>1 DEF OneAtATime, FileHeld, BeforeDoc, AuthPC
    <3>3. ASSUME NEW t \in Session, Viewing(t, c)'
          PROVE  pc = "exit"
      BY <1>2, <1>3, <3>3 DEF Viewing
    <3>4. NoJoin(c)'
      BY <2>2, <3>1, <3>3 DEF NoJoin, Joining, JoinPC
    <3>5. FileLeft(c)'
      BY <2>2, <3>1, <3>3 DEF FileLeft, Exiting
    <3>. QED BY <2>3, <2>5, <3>2, <3>4, <3>5 DEF Tidy, AllTidy
  <2>. QED BY <2>6, <2>7
<1>. QED BY <1>5, <1>6

\* The steps of one goroutine: the other connections stay tidy.
LEMMA TidyOthers ==
    ASSUME TypeOK, Bookkeeping, Docs, AllTidy, [Next]_vars, NEW h \in Handler,
           go[h].pc # "idle", Others(h), NEW c \in Conn, c # go[h].conn,
           go'[h].pc = "idle" \/ go'[h].conn = go[h].conn,
           UNCHANGED <<cleanup, link, current, editing>>,
           client'[c] = client[c], file'[c] = file[c]
    PROVE  Tidy(c)'
<1>1. Undisturbed(c)
  BY Elsewhere
<1>2. CleanQuiet(c) /\ \A s \in Session : Viewing(s, c)' => Viewing(s, c)
  BY DEF CleanQuiet, Viewing, Reading
<1>. QED BY <1>1, <1>2, TidyFrame

\* What OneAtATime says of the connection of a goroutine.
LEMMA OneGoroutine ==
    ASSUME NEW h \in Handler, NEW c, go[h].pc # "idle", go[h].conn = c,
           OneAtATime(c), Others(h), go'[h].pc = "idle" \/ go'[h].conn = c
    PROVE  /\ \A g \in Handler : go'[g].pc # "idle" /\ go'[g].conn = c => g = h
           /\ \A g \in Handler : go[g].pc # "idle" /\ go[g].conn = c => g = h
           /\ cleanup[c].pc \in BeforeDoc /\ cleanup[c].pc # "storeDoc"
           /\ cleanup' = cleanup => OneAtATime(c)'
<1>1. /\ \A g \in Handler : go'[g].pc # "idle" /\ go'[g].conn = c => g = h
      /\ \A g \in Handler : go[g].pc # "idle" /\ go[g].conn = c => g = h
  BY DEF OneAtATime, Others
<1>2. cleanup[c].pc \in BeforeDoc
  BY DEF OneAtATime, Busy
<1>. QED BY <1>1, <1>2 DEF OneAtATime, BeforeDoc

\* The token of a connection is accepted, before it has joined any document.
LEMMA TidyAccepted ==
    ASSUME TypeOK, Bookkeeping, Docs, AllTidy, NEW h \in Handler,
           AuthAccepted(h)
    PROVE  AllTidy'
<1>0. [Next]_vars
  BY DEF Next, Auth
<1>c. PICK c \in Conn : c = go[h].conn
  BY GoField DEF AuthAccepted, Step, Done
<1>1. /\ go[h].pc = "auth" /\ Others(h)
      /\ go'[h].pc = "idle" \/ (go'[h].pc = "addUser" /\ go'[h].conn = c)
  <2>1. Step(h, "auth", "addUser") \/ Done(h, "auth")
    BY DEF AuthAccepted
  <2>. QED BY <1>c, <2>1, StepIs, AfterDone
<1>3. /\ UNCHANGED <<file, cleanup, link, current, editing, hist>>
      /\ client' = [client EXCEPT ![c] = who[c]]
  BY <1>c DEF AuthAccepted, clientSide
<1>4. client'[c] = who[c] /\ \A b \in Conn \ {c} : client'[b] = client[b]
  BY <1>3 DEF TypeOK
<1>5. client[c] = Nobody \/ client[c] = client'[c]
  BY <1>4 DEF Bookkeeping, ClientIsTab
<1>6. ASSUME NEW b \in Conn, b # c PROVE Tidy(b)'
  BY <1>0, <1>c, <1>1, <1>3, <1>4, <1>6, TidyOthers
<1>7. Tidy(c)
  BY DEF AllTidy
<1>8. DocHeld(c)'
  <2>1. DocHeld(c)
    BY <1>7 DEF Tidy
  <2>2. client[c].session \in {NoSession, client'[c].session}
    BY <1>5 DEF Nobody
  <2>3. ASSUME NEW g \in Handler, go'[g].conn = c
        PROVE  \/ go'[g] = go[g]
               \/ go'[g].pc \notin JoinPC \cup {"exitStore"}
    BY <1>1, <2>3 DEF Others, JoinPC
  <2>. QED BY <1>3, <2>1, <2>2, <2>3 DEF DocHeld, JoinPC
<1>9. ASSUME c \notin hist.tangled
      PROVE  OneAtATime(c)' /\ FileHeld(c)' /\ NoJoin(c)' /\ FileLeft(c)'
  <2>1. OneAtATime(c) /\ FileHeld(c) /\ NoJoin(c)
    BY <1>7, <1>9 DEF Tidy
  <2>2. file[c] = NoDoc
    BY <1>c, <1>1, <2>1 DEF FileHeld, AuthPC
  <2>3. /\ \A g \in Handler : go'[g].pc # "idle" /\ go'[g].conn = c => g = h
        /\ cleanup[c].pc # "storeDoc" /\ OneAtATime(c)'
    BY <1>c, <1>1, <1>3, <2>1, OneGoroutine
  <2>4. NoJoin(c)'
    BY <1>1, <2>3 DEF NoJoin, Joining, JoinPC
  <2>5. FileHeld(c)' /\ FileLeft(c)'
    BY <1>1, <1>3, <2>2, <2>3 DEF FileHeld, FileLeft, AuthPC
  <2>. QED BY <2>3, <2>4, <2>5
<1>10. Orderly(client[c].session)' => c \notin hist.tangled
  BY <1>3 DEF Orderly
<1>11. Tidy(c)'
  BY <1>3, <1>8, <1>9, <1>10 DEF Tidy
<1>. QED BY <1>6, <1>11 DEF AllTidy

\* handleJoinFile takes the file, which no other goroutine holds.
LEMMA TidySetFile ==
    ASSUME TypeOK, Bookkeeping, Docs, AllTidy, NEW h \in Handler,
           JoinSetFile(h)
    PROVE  AllTidy'
<1>0. [Next]_vars
  BY DEF Next, Join
<1>c. PICK c \in Conn : c = go[h].conn
  BY GoField DEF JoinSetFile, Step
<1>1. /\ go[h].pc = "join" /\ go'[h].pc = "joinRedis" /\ go'[h].conn = c
      /\ go'[h].doc = go[h].doc /\ Others(h)
  BY <1>c, StepIs DEF JoinSetFile
<1>2. /\ UNCHANGED <<client, cleanup, link, current, editing, hist>>
      /\ file'[c] = go[h].doc /\ \A b \in Conn \ {c} : file'[b] = file[b]
  BY <1>c DEF JoinSetFile, clientSide, TypeOK
<1>3. ASSUME NEW b \in Conn, b # c PROVE Tidy(b)'
  BY <1>0, <1>c, <1>1, <1>2, <1>3, TidyOthers
<1>4. Tidy(c)
  BY DEF AllTidy
<1>5. DocHeld(c)'
  <2>1. DocHeld(c)
    BY <1>4 DEF Tidy
  <2>. QED BY <1>c, <1>1, <1>2, <2>1 DEF DocHeld, Others, JoinPC
<1>6. ASSUME c \notin hist.tangled
      PROVE  OneAtATime(c)' /\ FileHeld(c)' /\ NoJoin(c)' /\ FileLeft(c)'
  <2>1. OneAtATime(c) /\ NoJoin(c)
    BY <1>4, <1>6 DEF Tidy
  <2>2. /\ \A g \in Handler : go'[g].pc # "idle" /\ go'[g].conn = c => g = h
        /\ cleanup[c].pc # "storeDoc" /\ OneAtATime(c)'
    BY <1>c, <1>1, <1>2, <2>1, OneGoroutine
  <2>3. \A s \in Session : ~Viewing(s, c)'
    BY <1>c, <1>1, <1>2, <2>1 DEF NoJoin, Joining, JoinPC, Viewing, Reading
  <2>4. NoJoin(c)'
    BY <2>3 DEF NoJoin
  <2>5. FileHeld(c)'
    BY <1>1, <1>2, <2>2 DEF FileHeld, AuthPC
  <2>6. FileLeft(c)'
    BY <1>1, <2>2, <2>3 DEF FileLeft
  <2>. QED BY <2>2, <2>4, <2>5, <2>6
<1>7. Orderly(client[c].session)' => c \notin hist.tangled
  BY <1>2 DEF Orderly
<1>8. Tidy(c)'
  BY <1>2, <1>5, <1>6, <1>7 DEF Tidy
<1>. QED BY <1>3, <1>8 DEF AllTidy

\* AddSessionToDoc loads the list of the file that was set.
LEMMA TidyLoadDoc ==
    ASSUME TypeOK, Bookkeeping, Docs, AllTidy, NEW h \in Handler,
           JoinLoadDoc(h)
    PROVE  AllTidy'
<1>0. [Next]_vars
  BY DEF Next, Join
<1>c. PICK c \in Conn : c = go[h].conn
  BY GoField DEF JoinLoadDoc, Hold
<1>1. /\ go[h].pc = "joinLoad" /\ go'[h].pc = "joinStore" /\ go'[h].conn = c
      /\ go'[h].doc = go[h].doc /\ go'[h].session = client[c].session
      /\ Others(h)
  BY <1>c, HoldIs DEF JoinLoadDoc
<1>2. UNCHANGED <<client, cleanup, link, current, editing, hist, file>>
  BY DEF JoinLoadDoc, clientSide
<1>3. ASSUME NEW b \in Conn, b # c PROVE Tidy(b)'
  BY <1>0, <1>c, <1>1, <1>2, <1>3, TidyOthers
<1>4. Tidy(c)
  BY DEF AllTidy
<1>5. DocHeld(c)'
  <2>1. DocHeld(c)
    BY <1>4 DEF Tidy
  <2>. QED BY <1>c, <1>1, <1>2, <2>1 DEF DocHeld, Others, JoinPC
<1>6. ASSUME c \notin hist.tangled
      PROVE  OneAtATime(c)' /\ FileHeld(c)' /\ NoJoin(c)' /\ FileLeft(c)'
  <2>1. OneAtATime(c) /\ FileHeld(c) /\ NoJoin(c)
    BY <1>4, <1>6 DEF Tidy
  <2>2. /\ \A g \in Handler : go'[g].pc # "idle" /\ go'[g].conn = c => g = h
        /\ cleanup[c].pc # "storeDoc" /\ OneAtATime(c)'
    BY <1>c, <1>1, <1>2, <2>1, OneGoroutine
  <2>3. \A s \in Session : ~Viewing(s, c)'
    BY <1>c, <1>1, <1>2, <2>1 DEF NoJoin, Joining, JoinPC, Viewing, Reading
  <2>4. NoJoin(c)'
    BY <2>3 DEF NoJoin
  <2>5. FileHeld(c)'
    BY <1>c, <1>1, <1>2, <2>1, <2>2 DEF FileHeld, AuthPC
  <2>6. FileLeft(c)'
    BY <1>1, <2>2, <2>3 DEF FileLeft
  <2>. QED BY <2>2, <2>4, <2>5, <2>6
<1>7. Orderly(client[c].session)' => c \notin hist.tangled
  BY <1>2 DEF Orderly
<1>8. Tidy(c)'
  BY <1>2, <1>5, <1>6, <1>7 DEF Tidy
<1>. QED BY <1>3, <1>8 DEF AllTidy

\* Cardinalities of the sets of connections that have joined.
LEMMA JoinedFinite ==
    ASSUME Docs, NEW d, NEW s \in Session
    PROVE  IsFiniteSet(Joined(d, s)) /\ Cardinality(Joined(d, s)) \in Nat
<1>1. Joined(d, s) \subseteq {c \in Conn : Identified(c)}
  BY PoolAssumption DEF Joined, Identified
<1>2. IsFiniteSet(Joined(d, s))
  BY <1>1, FS_Subset DEF Docs
<1>. QED BY <1>2, FS_CardinalityType

\* A connection whose session is missing from its file's list has no file,
\* or its list lost an update.
LEMMA NothingToLeave ==
    ASSUME TypeOK, Docs, DocsExact, NEW c \in Conn, Identified(c), ~Joining(c),
           Orderly(client[c].session),
           searchIndex(client[c].session, docSessions[file[c]]) = 0
    PROVE  file[c] \in {NoDoc} \cup hist.lost
<1> SUFFICES ASSUME file[c] \notin {NoDoc} \cup hist.lost
             PROVE  FALSE
  OBVIOUS
<1>1. file[c] \in Doc \ hist.lost /\ client[c].session \in Session
      /\ docSessions[file[c]] \in Seq(Session \cup {NoSession})
  BY ClientField DEF Identified
<1>2. Occurrences(client[c].session, docSessions[file[c]]) = 0
  BY <1>1, OccursIf
<1>3. Cardinality(Joined(file[c], client[c].session)) = 0
  BY <1>1, <1>2 DEF DocsExact
<1>4. Joined(file[c], client[c].session) = {}
  BY <1>1, <1>3, JoinedFinite, FS_EmptySet
<1>. QED BY <1>4 DEF Joined

\* DeleteSessionInDoc loads the list of the connection's file.
LEMMA TidyExitLoad ==
    ASSUME TypeOK, Bookkeeping, Docs, AllTidy, DocsExact, NEW h \in Handler,
           ExitLoadDoc(h)
    PROVE  AllTidy'
<1>0. [Next]_vars
  BY DEF Next, Exit
<1>c. PICK c \in Conn : c = go[h].conn
  BY GoField DEF ExitLoadDoc
<1> DEFINE idx == searchIndex(client[c].session, docSessions[file[c]])
<1>1. /\ go[h].pc = "exit" /\ Others(h) /\ go'[h].conn = c
      /\ idx # 0 => /\ go'[h].pc = "exitStore" /\ go'[h].doc = file[c]
                    /\ go'[h].session = client[c].session
                    /\ go'[h].list = docSessions[file[c]]
      /\ idx = 0 => go'[h].pc = "exitRedis"
  <2>1. CASE idx # 0
    <3>1. Hold(h, "exit", "exitStore", file[c], client[c].session,
               docSessions[file[c]])
      BY <1>c, <2>1 DEF ExitLoadDoc
    <3>. QED BY <1>c, <2>1, <3>1, HoldIs
  <2>2. CASE idx = 0
    <3>1. Step(h, "exit", "exitRedis")
      BY <1>c, <2>2 DEF ExitLoadDoc
    <3>. QED BY <1>c, <2>2, <3>1, StepIs
  <2>. QED BY <2>1, <2>2
<1>2. UNCHANGED <<client, cleanup, link, current, editing, hist, file,
                  docSessions>>
  BY DEF ExitLoadDoc, clientSide, maps
<1>3. ASSUME NEW b \in Conn, b # c PROVE Tidy(b)'
  BY <1>0, <1>c, <1>1, <1>2, <1>3, TidyOthers
<1>4. Tidy(c)
  BY DEF AllTidy
<1>5. idx # 0 => file[c] \in Doc
  BY FoundInDoc
<1>6. idx = 0 /\ Identified(c) /\ ~Joining(c) /\ Orderly(client[c].session) =>
        file[c] \in {NoDoc} \cup hist.lost
  BY NothingToLeave
<1>7. idx # 0 => searchIndex(go'[h].session, go'[h].list) # 0
  BY <1>1
<1> HIDE DEF idx
<1>8. DocHeld(c)'
  <2>1. DocHeld(c)
    BY <1>4 DEF Tidy
  <2>. QED BY <1>c, <1>1, <1>2, <1>5, <2>1 DEF DocHeld, Others, JoinPC
<1>9. ASSUME c \notin hist.tangled
      PROVE  OneAtATime(c)' /\ FileHeld(c)' /\ NoJoin(c)'
  <2>1. OneAtATime(c) /\ FileHeld(c) /\ NoJoin(c)
    BY <1>4, <1>9 DEF Tidy
  <2>2. /\ \A g \in Handler : go'[g].pc # "idle" /\ go'[g].conn = c => g = h
        /\ cleanup[c].pc # "storeDoc" /\ OneAtATime(c)'
    BY <1>c, <1>1, <1>2, <2>1, OneGoroutine
  <2>3. NoJoin(c)'
    BY <1>1, <2>2 DEF NoJoin, Joining, JoinPC
  <2>4. FileHeld(c)'
    BY <1>1, <1>2, <1>7, <2>2 DEF FileHeld, AuthPC
  <2>. QED BY <2>2, <2>3, <2>4
<1>10. ASSUME Identified(c)', Orderly(client[c].session)'
       PROVE  FileLeft(c)'
  <2>1. Identified(c) /\ Orderly(client[c].session) /\ c \notin hist.tangled
    BY <1>2, <1>10 DEF Identified, Orderly
  <2>2. OneAtATime(c)
    BY <1>4, <2>1 DEF Tidy
  <2>3. /\ \A g \in Handler : go'[g].pc # "idle" /\ go'[g].conn = c => g = h
        /\ \A g \in Handler : go[g].pc # "idle" /\ go[g].conn = c => g = h
    BY <1>c, <1>1, <2>2, OneGoroutine
  <2>4. ~Joining(c)
    BY <1>1, <2>3 DEF Joining, JoinPC
  <2>5. CASE idx = 0
    BY <1>2, <1>6, <2>1, <2>4, <2>5 DEF FileLeft
  <2>6. CASE idx # 0
    BY <1>1, <2>3, <2>6 DEF FileLeft, Exiting
  <2>. QED BY <2>5, <2>6
<1>11. Tidy(c)'
  BY <1>2, <1>8, <1>9, <1>10 DEF Tidy
<1>. QED BY <1>3, <1>11 DEF AllTidy

\* DeleteSessionInDoc stores the list and forgets the file.
LEMMA TidyExitStore ==
    ASSUME TypeOK, Bookkeeping, Docs, AllTidy, NEW h \in Handler,
           ExitStoreDoc(h)
    PROVE  AllTidy'
<1>0. [Next]_vars
  BY DEF Next, Exit
<1>c. PICK c \in Conn : c = go[h].conn
  BY GoField DEF ExitStoreDoc, Hold
<1>1. /\ go[h].pc = "exitStore" /\ go'[h].pc = "exitRedis"
      /\ go'[h].conn = c /\ Others(h)
  BY <1>c, HoldIs DEF ExitStoreDoc
<1>2. /\ UNCHANGED <<client, cleanup, link, current, editing>>
      /\ file'[c] = NoDoc /\ \A b \in Conn \ {c} : file'[b] = file[b]
  BY <1>c DEF ExitStoreDoc, clientSide, TypeOK
<1>3. hist'.tangled = hist.tangled
  <2>1. PICK x : hist' = [hist EXCEPT !.lost = @ \cup x]
    BY DEF ExitStoreDoc
  <2>. QED BY <2>1, LostOnly
<1>4. ASSUME NEW b \in Conn, b # c PROVE Tidy(b)'
  BY <1>0, <1>c, <1>1, <1>2, <1>4, TidyOthers
<1>5. Tidy(c)
  BY DEF AllTidy
<1>6. DocHeld(c)'
  <2>1. DocHeld(c)
    BY <1>5 DEF Tidy
  <2>. QED BY <1>c, <1>1, <1>2, <2>1 DEF DocHeld, Others, JoinPC
<1>7. ASSUME c \notin hist.tangled
      PROVE  OneAtATime(c)' /\ FileHeld(c)' /\ NoJoin(c)'
  <2>1. OneAtATime(c)
    BY <1>5, <1>7 DEF Tidy
  <2>2. /\ \A g \in Handler : go'[g].pc # "idle" /\ go'[g].conn = c => g = h
        /\ cleanup[c].pc # "storeDoc" /\ OneAtATime(c)'
    BY <1>c, <1>1, <1>2, <2>1, OneGoroutine
  <2>3. NoJoin(c)' /\ FileHeld(c)'
    BY <1>1, <1>2, <2>2 DEF NoJoin, Joining, JoinPC, FileHeld, AuthPC
  <2>. QED BY <2>2, <2>3
<1>8. FileLeft(c)'
  BY <1>2 DEF FileLeft
<1>9. Tidy(c)'
  BY <1>3, <1>6, <1>7, <1>8 DEF Tidy
<1>. QED BY <1>4, <1>9 DEF AllTidy

\* The cleanup of one connection: the others stay tidy.
LEMMA TidyOtherCleanups ==
    ASSUME TypeOK, Bookkeeping, Docs, AllTidy, [Next]_vars, NEW c \in Conn,
           NEW d \in Conn, d # c, cleanup'[d] = cleanup[d],
           UNCHANGED <<go, link, current, editing>>,
           client'[d] = client[d], file'[d] = file[d]
    PROVE  Tidy(d)'
<1>1. Undisturbed(d) /\ CleanQuiet(d)
  BY DEF Undisturbed, CleanQuiet
<1>2. \A s \in Session : Viewing(s, d)' => Viewing(s, d)
  BY DEF Viewing, Reading
<1>. QED BY <1>1, <1>2, TidyFrame

\* The cleanup loads the list of the connection's file.
LEMMA TidyCleanLoad ==
    ASSUME TypeOK, Bookkeeping, Docs, AllTidy, NEW c \in Conn,
           CleanLoadDoc(c)
    PROVE  AllTidy'
<1> DEFINE idx == searchIndex(client[c].session, docSessions[file[c]])
<1>0. [Next]_vars
  BY DEF Next, Clean
<1>1. /\ cleanup[c].pc = "loadDoc"
      /\ \A b \in Conn \ {c} : cleanup'[b] = cleanup[b]
      /\ idx # 0 => /\ cleanup'[c].pc = "storeDoc" /\ cleanup'[c].doc = file[c]
                    /\ cleanup'[c].session = client[c].session
                    /\ cleanup'[c].list = docSessions[file[c]]
      /\ idx = 0 => cleanup'[c].pc = "delRedis"
  <2>1. CASE idx # 0
    <3>1. CleanHold(c, "loadDoc", "storeDoc", file[c], client[c].session,
                    docSessions[file[c]])
      BY <2>1 DEF CleanLoadDoc
    <3>. QED BY <2>1, <3>1, CleanHoldIs
  <2>2. CASE idx = 0
    <3>1. CleanStep(c, "loadDoc", "delRedis")
      BY <2>2 DEF CleanLoadDoc
    <3>. QED BY <2>2, <3>1, AfterCleanStep
  <2>. QED BY <2>1, <2>2
<1>2. UNCHANGED <<client, go, link, current, editing, file, docSessions>>
  BY DEF CleanLoadDoc, clientSide, maps
<1>3. Busy(c) => c \in hist'.tangled
  <2>1. ASSUME Busy(c) PROVE hist' = [hist EXCEPT !.tangled = @ \cup {c}]
    BY <2>1 DEF CleanLoadDoc
  <2>. QED BY <2>1, TangledOnly
<1>4. ASSUME NEW b \in Conn, b # c PROVE Tidy(b)'
  BY <1>0, <1>1, <1>2, <1>4, TidyOtherCleanups
<1>5. CASE idx = 0
  <2>1. Undisturbed(c) /\ CleanQuiet(c)
    BY <1>1, <1>2, <1>3, <1>5 DEF Undisturbed, CleanQuiet
  <2>2. \A s \in Session : Viewing(s, c)' => Viewing(s, c)
    BY <1>1, <1>2 DEF Viewing, Reading
  <2>3. Tidy(c)'
    BY <1>0, <1>2, <2>1, <2>2, TidyFrame
  <2>. QED BY <1>4, <2>3 DEF AllTidy
<1>6. CASE idx # 0
  <2>1. /\ Tidy(c) /\ hist.lost \subseteq hist'.lost
        /\ c \notin hist'.tangled => c \notin hist.tangled
    BY <1>0, HistChange DEF AllTidy
  <2>2. file[c] \in Doc
    BY <1>6, FoundInDoc
  <2>3. idx # 0 => searchIndex(cleanup'[c].session, cleanup'[c].list) # 0
    BY <1>1
  <2> HIDE DEF idx
  <2>4. DocHeld(c)'
    BY <1>1, <1>2, <1>6, <2>1, <2>2 DEF Tidy, DocHeld
  <2>5. ASSUME c \notin hist'.tangled
        PROVE  OneAtATime(c)' /\ FileHeld(c)' /\ NoJoin(c)'
    <3>1. OneAtATime(c) /\ FileHeld(c) /\ NoJoin(c) /\ ~Busy(c)
      BY <1>3, <2>1, <2>5 DEF Tidy
    <3>2. OneAtATime(c)'
      BY <1>2, <3>1 DEF OneAtATime, Busy
    <3>3. FileHeld(c)'
      BY <1>1, <1>2, <1>6, <2>3, <3>1 DEF FileHeld
    <3>4. NoJoin(c)'
      BY <1>1, <1>2, <3>1 DEF NoJoin, Joining, Viewing, Reading
    <3>. QED BY <3>2, <3>3, <3>4
  <2>6. ASSUME Identified(c)', Orderly(client[c].session)'
        PROVE  FileLeft(c)'
    <3>1. Identified(c) /\ client[c].session \in Session
      BY <1>2, <2>6, ClientField DEF Identified
    <3>2. Orderly(client[c].session)
      BY <1>0, <1>2, <2>6, <3>1, HistChange DEF Orderly
    <3>3. FileLeft(c)
      BY <2>1, <3>1, <3>2 DEF Tidy
    <3>. QED BY <1>1, <1>2, <2>1, <3>3 DEF FileLeft, Exiting, Viewing, Reading
  <2>7. Tidy(c)'
    BY <2>4, <2>5, <2>6 DEF Tidy
  <2>. QED BY <1>4, <2>7 DEF AllTidy
<1>. QED BY <1>5, <1>6

\* The cleanup stores the list and forgets the file.
LEMMA TidyCleanStore ==
    ASSUME TypeOK, Bookkeeping, Docs, AllTidy, NEW c \in Conn,
           CleanStoreDoc(c)
    PROVE  AllTidy'
<1>0. [Next]_vars
  BY DEF Next, Clean
<1>1. /\ cleanup[c].pc = "storeDoc" /\ cleanup'[c].pc = "delRedis"
      /\ \A b \in Conn \ {c} : cleanup'[b] = cleanup[b]
  BY CleanHoldIs DEF CleanStoreDoc
<1>2. /\ UNCHANGED <<client, go, link, current, editing>>
      /\ file'[c] = NoDoc /\ \A b \in Conn \ {c} : file'[b] = file[b]
  BY DEF CleanStoreDoc, clientSide, TypeOK
<1>3. hist'.tangled = hist.tangled
  <2>1. PICK x : hist' = [hist EXCEPT !.lost = @ \cup x]
    BY DEF CleanStoreDoc
  <2>. QED BY <2>1, LostOnly
<1>4. ASSUME NEW b \in Conn, b # c PROVE Tidy(b)'
  BY <1>0, <1>1, <1>2, <1>4, TidyOtherCleanups
<1>5. Tidy(c)
  BY DEF AllTidy
<1>6. DocHeld(c)'
  BY <1>1, <1>2, <1>5 DEF Tidy, DocHeld
<1>7. ASSUME c \notin hist.tangled
      PROVE  OneAtATime(c)' /\ FileHeld(c)' /\ NoJoin(c)'
  <2>1. OneAtATime(c) /\ NoJoin(c)
    BY <1>5, <1>7 DEF Tidy
  <2>2. ~Busy(c)
    BY <1>1, <2>1 DEF OneAtATime, BeforeDoc
  <2>3. OneAtATime(c)' /\ NoJoin(c)'
    BY <1>1, <1>2, <2>1, <2>2
       DEF OneAtATime, Busy, NoJoin, Joining, Viewing, Reading
  <2>4. FileHeld(c)'
    BY <1>1, <1>2, <2>2 DEF FileHeld, Busy, AuthPC
  <2>. QED BY <2>3, <2>4
<1>8. FileLeft(c)'
  BY <1>2 DEF FileLeft
<1>9. Tidy(c)'
  BY <1>3, <1>6, <1>7, <1>8 DEF Tidy
<1>. QED BY <1>4, <1>9 DEF AllTidy

\* Every step leaves every connection tidy.
LEMMA TidyStep ==
    ASSUME TypeOK, Bookkeeping, Docs, AllTidy, DocsExact, [Next]_vars
    PROVE  AllTidy'
<1>1. ASSUME NEW s \in Session, NEW d \in Doc, NEW h \in Handler,
             OpenEditor(s, d, h)
      PROVE  AllTidy'
  <2>1. /\ Send(s, h, "join", d) /\ editing'[s] = d
        /\ \A t \in Session \ {s} : editing'[t] = editing[t]
    BY <1>1 DEF OpenEditor, TypeOK
  <2>. QED BY <2>1, TidySend, PoolAssumption
<1>2. ASSUME NEW s \in Session, NEW h \in Handler, CloseEditor(s, h)
      PROVE  AllTidy'
  <2>1. /\ Send(s, h, "exit", NoDoc)
        /\ \A t \in Session \ {s} : editing'[t] = editing[t]
    BY <1>2 DEF CloseEditor, TypeOK
  <2>. QED BY <2>1, TidySend
<1>3. CASE Client
  BY <1>1, <1>2, <1>3, TidyOpen, TidyQuietRest DEF Client
<1>4. ASSUME NEW h \in Handler, Auth(h) \/ Join(h) \/ Exit(h)
      PROVE  AllTidy'
  BY <1>4, TidyQuietGo, TidyAccepted, TidySetFile, TidyLoadDoc, TidyExitLoad,
     TidyExitStore DEF Auth, Join, Exit
<1>5. ASSUME NEW c \in Conn, Clean(c) \/ PumpExit(c)
      PROVE  AllTidy'
  BY <1>5, TidyQuietRest, TidyCleanLoad, TidyCleanStore DEF Clean
<1>. QED BY <1>3, <1>4, <1>5, TidyQuietRest DEF Next

\* Steps that leave the lists alone, and who has joined what.
LEMMA ExactFrame ==
    ASSUME TypeOK, Bookkeeping, Docs, DocsExact, [Next]_vars,
           docSessions' = docSessions,
           \A c \in Conn, d \in Doc \ hist.lost, s \in Session : Orderly(s)' =>
              (c \in Joined(d, s)' <=> c \in Joined(d, s))
    PROVE  DocsExact'
<1> SUFFICES ASSUME NEW d \in Doc \ hist'.lost, NEW s \in Session, Orderly(s)'
             PROVE  Occurrences(s, docSessions'[d]) = Cardinality(Joined(d, s)')
  BY DEF DocsExact
<1>1. d \notin hist.lost /\ Orderly(s)
  BY HistChange, OrderlyBefore
<1>2. Joined(d, s)' = Joined(d, s)
  <2>1. Joined(d, s) \subseteq Conn /\ Joined(d, s)' \subseteq Conn
    BY DEF Joined
  <2>2. \A c \in Conn : c \in Joined(d, s)' <=> c \in Joined(d, s)
    BY <1>1
  <2>. QED BY <2>1, <2>2
<1>. QED BY <1>1, <1>2 DEF DocsExact

\* A step of a goroutine that has not begun or finished joining.
LEMMA JoiningSame ==
    ASSUME NEW h \in Handler, Others(h), NEW c,
           \/ go[h].pc \notin JoinPC /\ go'[h].pc \notin JoinPC
           \/ /\ go[h].pc \in JoinPC /\ go'[h].pc \in JoinPC
              /\ go'[h].conn = go[h].conn
           \/ /\ go[h].pc \in JoinPC => go[h].conn # c
              /\ go'[h].pc \in JoinPC => go'[h].conn # c
    PROVE  Joining(c)' <=> Joining(c)
<1>1. Joining(c)' => Joining(c)
  BY DEF Joining, Others
<1>2. Joining(c) => Joining(c)'
  BY DEF Joining, Others
<1>. QED BY <1>1, <1>2

\* The steps of goroutines that keep the lists and who has joined.
LEMMA ExactQuietGo ==
    ASSUME TypeOK, Bookkeeping, Docs, AllTidy, DocsExact, NEW h \in Handler,
           \/ AuthRefused(h) \/ AuthLoadUser(h) \/ AuthStoreUser(h)
           \/ AuthAddManager(h) \/ AuthStoreSessionInRedis(h)
           \/ JoinAddFileInSession(h) \/ JoinLoadDoc(h) \/ ExitLoadDoc(h)
           \/ ExitDeleteFileInSession(h)
    PROVE  DocsExact'
<1>0. [Next]_vars
  BY DEF Next, Auth, Join, Exit
<1>1. UNCHANGED <<client, file, docSessions>>
  BY DEF AuthRefused, AuthLoadUser, AuthStoreUser, AuthAddManager,
     AuthStoreSessionInRedis, JoinAddFileInSession, JoinLoadDoc, ExitLoadDoc,
     ExitDeleteFileInSession, maps
<1>2. /\ Others(h)
      /\ \/ go[h].pc \notin JoinPC /\ go'[h].pc \notin JoinPC
         \/ /\ go[h].pc \in JoinPC /\ go'[h].pc \in JoinPC
            /\ go'[h].conn = go[h].conn
  <2>1. CASE AuthRefused(h) \/ AuthStoreSessionInRedis(h)
             \/ ExitDeleteFileInSession(h)
    BY <2>1, AfterDone DEF AuthRefused, AuthStoreSessionInRedis,
       ExitDeleteFileInSession, JoinPC
  <2>2. CASE AuthAddManager(h) \/ JoinAddFileInSession(h)
    BY <2>2, StepIs DEF AuthAddManager, JoinAddFileInSession, JoinPC
  <2>3. CASE AuthLoadUser(h) \/ AuthStoreUser(h) \/ JoinLoadDoc(h)
    <3>1. \E d, s, list : \/ Hold(h, "addUser", "storeUser", d, s, list)
                          \/ Hold(h, "storeUser", "addManager", d, s, list)
                          \/ Hold(h, "joinLoad", "joinStore", d, s, list)
      BY <2>3 DEF AuthLoadUser, AuthStoreUser, JoinLoadDoc
    <3>. QED BY <3>1, HoldIs DEF JoinPC
  <2>4. CASE ExitLoadDoc(h)
    <3>1. \/ Step(h, "exit", "exitRedis")
          \/ \E d, s, list : Hold(h, "exit", "exitStore", d, s, list)
      BY <2>4 DEF ExitLoadDoc
    <3>. QED BY <3>1, StepIs, HoldIs DEF JoinPC
  <2>. QED BY <2>1, <2>2, <2>3, <2>4
<1>3. ASSUME NEW c \in Conn PROVE Joining(c)' <=> Joining(c)
  BY <1>2, JoiningSame
<1>4. ASSUME NEW c \in Conn, NEW d \in Doc, NEW s \in Session
      PROVE  c \in Joined(d, s)' <=> c \in Joined(d, s)
  BY <1>1, <1>3 DEF Joined
<1>. QED BY <1>0, <1>1, <1>4, ExactFrame

\* The steps outside the goroutines that do.
LEMMA ExactQuietRest ==
    ASSUME TypeOK, Bookkeeping, Docs, AllTidy, DocsExact, [Next]_vars,
           \/ UNCHANGED vars \/ Shutdown
           \/ \E c \in Conn :
                \/ ClientGone(c) \/ PumpExit(c) \/ CleanLoadUser(c)
                \/ CleanStoreUser(c) \/ CleanDeleteManagersMap(c)
                \/ CleanLoadDoc(c) \/ CleanDeleteSessionInRedis(c)
           \/ \E c \in Conn, s \in Session, u \in User, h \in Handler :
                Open(c, s, u, h)
    PROVE  DocsExact'
<1>1. UNCHANGED <<client, file, docSessions>>
  BY DEF vars, Shutdown, ClientGone, PumpExit, CleanLoadUser, CleanStoreUser,
     CleanDeleteManagersMap, CleanLoadDoc, CleanDeleteSessionInRedis, Open,
     maps
<1>2. ASSUME NEW c \in Conn PROVE Joining(c)' <=> Joining(c)
  <2>1. CASE go' = go
    BY <2>1 DEF Joining
  <2>2. ASSUME NEW b \in Conn, NEW s \in Session, NEW u \in User,
               NEW h \in Handler, Open(b, s, u, h)
        PROVE  Joining(c)' <=> Joining(c)
    <3>1. Others(h) /\ go[h].pc = "idle" /\ go'[h].pc = "auth"
      BY <2>2, SpawnIs DEF Open
    <3>. QED BY <3>1, JoiningSame DEF JoinPC
  <2>3. \/ go' = go
        \/ \E b \in Conn, s \in Session, u \in User, h \in Handler :
             Open(b, s, u, h)
    BY DEF vars, Shutdown, ClientGone, PumpExit, CleanLoadUser,
       CleanStoreUser, CleanDeleteManagersMap, CleanLoadDoc,
       CleanDeleteSessionInRedis
  <2>. QED BY <2>1, <2>2, <2>3
<1>3. ASSUME NEW c \in Conn, NEW d \in Doc, NEW s \in Session
      PROVE  c \in Joined(d, s)' <=> c \in Joined(d, s)
  BY <1>1, <1>2 DEF Joined
<1>. QED BY <1>1, <1>3, ExactFrame

\* A connection that authenticates has not joined anything.
LEMMA ExactAccepted ==
    ASSUME TypeOK, Bookkeeping, Docs, AllTidy, DocsExact, NEW h \in Handler,
           AuthAccepted(h)
    PROVE  DocsExact'
<1>0. [Next]_vars
  BY DEF Next, Auth
<1>c. PICK c \in Conn : c = go[h].conn
  BY GoField DEF AuthAccepted, Step, Done
<1>1. /\ go[h].pc = "auth" /\ Others(h)
      /\ go'[h].pc = "idle" \/ (go'[h].pc = "addUser" /\ go'[h].conn = c)
  <2>1. Step(h, "auth", "addUser") \/ Done(h, "auth")
    BY DEF AuthAccepted
  <2>. QED BY <1>c, <2>1, StepIs, AfterDone
<1>2. /\ UNCHANGED <<file, docSessions, hist>> /\ client'[c] = who[c]
      /\ \A b \in Conn \ {c} : client'[b] = client[b]
  BY <1>c DEF AuthAccepted, maps, TypeOK
<1>3. ASSUME NEW b \in Conn PROVE Joining(b)' <=> Joining(b)
  BY <1>1, JoiningSame DEF JoinPC
<1>4. ASSUME NEW b \in Conn, NEW d \in Doc, NEW s \in Session, Orderly(s)'
      PROVE  b \in Joined(d, s)' <=> b \in Joined(d, s)
  <2>1. CASE b # c
    BY <1>2, <1>3, <2>1 DEF Joined
  <2>2. CASE b = c /\ client'[c].session # s
    BY <1>2, <2>2, PoolAssumption DEF Joined, Bookkeeping, ClientIsTab, Nobody
  <2>3. CASE b = c /\ client'[c].session = s
    <3>1. c \notin hist.tangled
      BY <1>2, <1>4, <2>3 DEF Orderly
    <3>2. file[c] = NoDoc
      BY <1>c, <1>1, <3>1 DEF AllTidy, Tidy, FileHeld, AuthPC
    <3>. QED BY <1>2, <2>3, <3>2, PoolAssumption DEF Joined
  <2>. QED BY <2>1, <2>2, <2>3
<1>. QED BY <1>0, <1>2, <1>4, ExactFrame

\* A tab that joins a document has left the one before, or its list has lost
\* an update.
LEMMA ExactSend ==
    ASSUME TypeOK, Bookkeeping, Docs, AllTidy, DocsExact, NEW s \in Session,
           NEW h \in Handler, NEW pc \in {"join", "exit"}, NEW x,
           [Next]_vars, Send(s, h, pc, x),
           pc = "join" => editing[s] = NoDoc,
           UNCHANGED docSessions
    PROVE  DocsExact'
<1>0. PICK c \in Conn : c = current[s]
  BY DEF Send, TypeOK
<1>1. UNCHANGED <<link, current, client, file, cleanup>>
  BY DEF Send
<1>2. CASE ~Reading(c) \/ pc = "exit"
  <2>1. ASSUME NEW b \in Conn PROVE Joining(b)' <=> Joining(b)
    <3>1. CASE ~Reading(c)
      BY <1>0, <3>1 DEF Send, Joining
    <3>2. CASE Reading(c)
      <4>1. Spawn(h, c, pc, x)
        BY <1>0, <3>2 DEF Send
      <4>2. Others(h) /\ go[h].pc = "idle" /\ go'[h].pc = pc
        BY <4>1, SpawnIs
      <4>. QED BY <1>2, <3>2, <4>2, JoiningSame DEF JoinPC
    <3>. QED BY <3>1, <3>2
  <2>2. ASSUME NEW b \in Conn, NEW d \in Doc, NEW t \in Session
        PROVE  b \in Joined(d, t)' <=> b \in Joined(d, t)
    BY <1>1, <2>1 DEF Joined
  <2>. QED BY <2>2, ExactFrame
<1>3. CASE Reading(c) /\ pc = "join"
  <2>1. Spawn(h, c, pc, x)
    BY <1>0, <1>3 DEF Send
  <2>2. /\ Others(h) /\ go[h].pc = "idle" /\ go'[h].pc = pc
        /\ go'[h].conn = c
    BY <2>1, SpawnIs
  <2>3. Busy(c) => c \in hist'.tangled
    <3>1. ASSUME Busy(c) PROVE hist' = [hist EXCEPT !.tangled = @ \cup {c}]
      BY <1>0, <1>3, <3>1 DEF Send
    <3>. QED BY <3>1, TangledOnly
  <2>4. ASSUME NEW b \in Conn, NEW d \in Doc \ hist.lost, NEW t \in Session,
               Orderly(t)'
        PROVE  b \in Joined(d, t)' <=> b \in Joined(d, t)
    <3>1. CASE b # c
      <4>1. Joining(b)' <=> Joining(b)
        BY <2>2, <3>1, JoiningSame DEF JoinPC
      <4>. QED BY <1>1, <4>1 DEF Joined
    <3>2. CASE b = c /\ client[c].session # t
      BY <1>1, <3>2 DEF Joined
    <3>3. CASE b = c /\ client[c].session = t
      <4>1. Identified(c) /\ Orderly(client[c].session) /\ ~Busy(c)
        <5>1. Identified(c)
          BY <3>3, PoolAssumption DEF Identified
        <5>2. Orderly(t)
          BY <2>4, OrderlyBefore
        <5>3. c \notin hist'.tangled
          BY <1>1, <2>4, <3>3 DEF Orderly
        <5>. QED BY <2>3, <3>3, <5>1, <5>2, <5>3
      <4>2. FileLeft(c)
        BY <4>1 DEF AllTidy, Tidy
      <4>3. Viewing(s, c) /\ ~Exiting(c)
        BY <1>0, <1>3, <4>1 DEF Viewing, Exiting, Busy
      <4>4. file[c] \in {NoDoc} \cup hist.lost
        BY <4>2, <4>3 DEF FileLeft
      <4>. QED BY <1>1, <3>3, <4>4, PoolAssumption DEF Joined
    <3>. QED BY <3>1, <3>2, <3>3
  <2>. QED BY <2>4, ExactFrame
<1>. QED BY <1>2, <1>3

\* handleJoinFile sets the file of a connection that is joining.
LEMMA ExactSetFile ==
    ASSUME TypeOK, Bookkeeping, Docs, AllTidy, DocsExact, NEW h \in Handler,
           JoinSetFile(h)
    PROVE  DocsExact'
<1>0. [Next]_vars
  BY DEF Next, Join
<1>c. PICK c \in Conn : c = go[h].conn
  BY GoField DEF JoinSetFile, Step
<1>1. /\ go[h].pc = "join" /\ go'[h].pc = "joinRedis" /\ go'[h].conn = c
      /\ Others(h)
  BY <1>c, StepIs DEF JoinSetFile
<1>2. /\ UNCHANGED <<client, docSessions>>
      /\ \A b \in Conn \ {c} : file'[b] = file[b]
  BY <1>c DEF JoinSetFile, maps, TypeOK
<1>3. ASSUME NEW b \in Conn PROVE Joining(b)' <=> Joining(b)
  BY <1>c, <1>1, JoiningSame DEF JoinPC
<1>4. Joining(c)
  BY <1>c, <1>1 DEF Joining, JoinPC
<1>5. ASSUME NEW b \in Conn, NEW d \in Doc, NEW s \in Session
      PROVE  b \in Joined(d, s)' <=> b \in Joined(d, s)
  BY <1>2, <1>3, <1>4 DEF Joined
<1>. QED BY <1>0, <1>2, <1>5, ExactFrame

\* AddSessionToDoc stores the list with the session of a connection that has
\* joined by this.
LEMMA ExactJoinStore ==
    ASSUME TypeOK, Bookkeeping, Docs, AllTidy, DocsExact, NEW h \in Handler,
           JoinStoreDoc(h)
    PROVE  DocsExact'
<1>0. [Next]_vars
  BY DEF Next, Join
<1>c. PICK c \in Conn : c = go[h].conn
  BY GoField DEF JoinStoreDoc, Done
<1>k. PICK k : k = go[h].doc
  OBVIOUS
<1>e. PICK e : e = go[h].session
  OBVIOUS
<1>1. go[h].pc = "joinStore" /\ go'[h].pc = "idle" /\ Others(h)
  BY AfterDone DEF JoinStoreDoc
<1>2. /\ k \in Doc /\ e \in {NoSession, client[c].session}
      /\ c \notin hist.tangled =>
           file[c] = k /\ e = client[c].session /\ OneAtATime(c)
  BY <1>c, <1>k, <1>e, <1>1 DEF AllTidy, Tidy, DocHeld, FileHeld, JoinPC
<1>3. /\ UNCHANGED <<client, file>>
      /\ docSessions' = [docSessions EXCEPT ![k] = Append(go[h].list, e)]
      /\ hist'.tangled = hist.tangled /\ hist.lost \subseteq hist'.lost
      /\ docSessions[k] # go[h].list => k \in hist'.lost
  <2>1. hist' = [hist EXCEPT !.lost = @ \cup
                    Overwrites(k, docSessions[k], go[h].list)]
    BY <1>k DEF JoinStoreDoc
  <2>2. /\ hist'.tangled = hist.tangled
        /\ hist'.lost = hist.lost \cup
                    Overwrites(k, docSessions[k], go[h].list)
    BY <2>1, LostOnly
  <2>. QED BY <1>k, <1>e, <2>2 DEF JoinStoreDoc, Overwrites
<1>4. ASSUME NEW b \in Conn, b # c PROVE Joining(b)' <=> Joining(b)
  BY <1>c, <1>1, <1>4, JoiningSame DEF JoinPC
<1>5. Joining(c)
  BY <1>c, <1>1 DEF Joining, JoinPC
<1> SUFFICES ASSUME NEW d \in Doc \ hist'.lost, NEW s \in Session, Orderly(s)'
             PROVE  Occurrences(s, docSessions'[d]) = Cardinality(Joined(d, s)')
  BY DEF DocsExact
<1>6. /\ Orderly(s) /\ docSessions[d] \in Seq(Session \cup {NoSession})
      /\ Occurrences(s, docSessions[d]) = Cardinality(Joined(d, s))
  BY <1>0, HistChange, OrderlyBefore DEF DocsExact, TypeOK
<1>7. CASE client[c].session # s
  <2>1. e # s
    BY <1>2, <1>7, PoolAssumption
  <2>2. Joined(d, s)' = Joined(d, s)
    BY <1>3, <1>4, <1>7 DEF Joined
  <2>3. docSessions'[d] = docSessions[d] \/ docSessions'[d] = Append(docSessions[d], e)
    BY <1>3, <1>6 DEF TypeOK
  <2>4. e \in Session \cup {NoSession}
    BY <1>2, ClientField
  <2>5. Occurrences(s, Append(docSessions[d], e)) = Occurrences(s, docSessions[d])
    BY <1>6, <2>1, <2>4, OccursAppended
  <2>. QED BY <1>6, <2>2, <2>3, <2>5
<1>8. CASE client[c].session = s
  <2>1. c \notin hist.tangled
    BY <1>6, <1>8 DEF Orderly
  <2>2. file[c] = k /\ e = s /\ OneAtATime(c)
    BY <1>2, <1>8, <2>1
  <2>3. ~Joining(c)'
    <3>1. \A g \in Handler : go'[g].pc # "idle" /\ go'[g].conn = c => g = h
      BY <1>c, <1>1, <2>2, OneGoroutine
    <3>. QED BY <1>1, <3>1 DEF Joining, JoinPC
  <2>4. CASE d # k
    <3>1. Joined(d, s)' = Joined(d, s)
      BY <1>3, <1>4, <2>2, <2>4 DEF Joined
    <3>2. docSessions'[d] = docSessions[d]
      BY <1>3, <2>4 DEF TypeOK
    <3>. QED BY <1>6, <3>1, <3>2
  <2>5. CASE d = k
    <3>1. Joined(d, s)' = Joined(d, s) \cup {c} /\ c \notin Joined(d, s)
      BY <1>3, <1>4, <1>5, <1>8, <2>2, <2>3, <2>5 DEF Joined
    <3>2. Cardinality(Joined(d, s)') = Cardinality(Joined(d, s)) + 1
      BY <3>1, JoinedFinite, FS_AddElement
    <3>3. docSessions'[d] = Append(docSessions[d], s)
      BY <1>3, <2>2, <2>5 DEF TypeOK
    <3>. QED BY <1>6, <3>2, <3>3, OccursAppended
  <2>. QED BY <2>4, <2>5
<1>. QED BY <1>7, <1>8

\* What the Store of DeleteSessionInDoc does, whoever calls it: the list of
\* document k is stored without session e, and connection c has no file.
LEMMA ExactLeave ==
    ASSUME TypeOK, Bookkeeping, Docs, DocsExact, [Next]_vars,
           NEW c \in Conn, NEW k, NEW e \in {NoSession, client[c].session},
           NEW list,
           UNCHANGED client, file' = [file EXCEPT ![c] = NoDoc],
           docSessions' = [docSessions EXCEPT ![k] = WithoutSession(list, e)],
           hist'.tangled = hist.tangled,
           docSessions[k] # list => k \in hist'.lost,
           \A b \in Conn : Joining(b)' <=> Joining(b),
           c \notin hist.tangled =>
              /\ file[c] = k /\ e = client[c].session /\ ~Joining(c)
              /\ searchIndex(e, list) # 0
    PROVE  DocsExact'
<1> SUFFICES ASSUME NEW d \in Doc \ hist'.lost, NEW s \in Session, Orderly(s)'
             PROVE  Occurrences(s, docSessions'[d]) = Cardinality(Joined(d, s)')
  BY DEF DocsExact
<1>1. /\ Orderly(s) /\ docSessions[d] \in Seq(Session \cup {NoSession})
      /\ Occurrences(s, docSessions[d]) = Cardinality(Joined(d, s))
  BY HistChange, OrderlyBefore DEF DocsExact, TypeOK
<1>2. file'[c] = NoDoc /\ \A b \in Conn \ {c} : file'[b] = file[b]
  BY DEF TypeOK
<1>3. CASE client[c].session # s
  <2>1. e # s
    BY <1>3, PoolAssumption
  <2>2. Joined(d, s)' = Joined(d, s)
    BY <1>2, <1>3 DEF Joined
  <2>3. docSessions'[d] = docSessions[d]
        \/ docSessions'[d] = WithoutSession(docSessions[d], e)
    BY DEF TypeOK
  <2>4. Occurrences(s, WithoutSession(docSessions[d], e)) =
          Occurrences(s, docSessions[d])
    BY <1>1, <2>1, OccursWithout
  <2>. QED BY <1>1, <2>2, <2>3, <2>4
<1>4. CASE client[c].session = s
  <2>1. c \notin hist.tangled
    BY <1>1, <1>4 DEF Orderly
  <2>2. file[c] = k /\ e = s /\ ~Joining(c) /\ searchIndex(s, list) # 0
    BY <1>4, <2>1
  <2>3. CASE d # k
    <3>1. Joined(d, s)' = Joined(d, s)
      BY <1>2, <2>2, <2>3, PoolAssumption DEF Joined
    <3>2. docSessions'[d] = docSessions[d]
      BY <2>3 DEF TypeOK
    <3>. QED BY <1>1, <3>1, <3>2
  <2>4. CASE d = k
    <3>1. Joined(d, s)' = Joined(d, s) \ {c} /\ c \in Joined(d, s)
      BY <1>2, <1>4, <2>2, <2>4, PoolAssumption DEF Joined
    <3>2. Cardinality(Joined(d, s)') = Cardinality(Joined(d, s)) - 1
      BY <3>1, JoinedFinite, FS_RemoveElement
    <3>3. docSessions'[d] = WithoutSession(docSessions[d], s)
          /\ searchIndex(s, docSessions[d]) # 0
      BY <2>2, <2>4 DEF TypeOK
    <3>. QED BY <1>1, <3>2, <3>3, OccursWithout
  <2>. QED BY <2>3, <2>4
<1>. QED BY <1>3, <1>4

\* Storing a list for an exit keeps the documents exact.
LEMMA ExactExitStore ==
    ASSUME TypeOK, Bookkeeping, Docs, AllTidy, DocsExact, NEW h \in Handler,
           ExitStoreDoc(h)
    PROVE  DocsExact'
<1>0. [Next]_vars
  BY DEF Next, Exit
<1>c. PICK c \in Conn : c = go[h].conn
  BY GoField DEF ExitStoreDoc, Hold
<1>1. /\ go[h].pc = "exitStore" /\ go'[h].pc = "exitRedis"
      /\ go'[h].conn = c /\ Others(h)
  BY <1>c, HoldIs DEF ExitStoreDoc
<1>2. /\ go[h].session \in {NoSession, client[c].session}
      /\ c \notin hist.tangled =>
           /\ file[c] = go[h].doc /\ go[h].session = client[c].session
           /\ searchIndex(go[h].session, go[h].list) # 0 /\ OneAtATime(c)
  BY <1>c, <1>1 DEF AllTidy, Tidy, DocHeld, FileHeld
<1>3. c \notin hist.tangled => ~Joining(c)
  <2>1. ASSUME c \notin hist.tangled
        PROVE  \A g \in Handler : go[g].pc # "idle" /\ go[g].conn = c => g = h
    BY <1>c, <1>1, <1>2, <2>1, OneGoroutine
  <2>. QED BY <1>1, <2>1 DEF Joining, JoinPC
<1>4. \A b \in Conn : Joining(b)' <=> Joining(b)
  BY <1>1, JoiningSame DEF JoinPC
<1>5. hist' = [hist EXCEPT !.lost = @ \cup
                 Overwrites(go[h].doc, docSessions[go[h].doc], go[h].list)]
  BY DEF ExitStoreDoc
<1>6. /\ hist'.tangled = hist.tangled
      /\ docSessions[go[h].doc] # go[h].list => go[h].doc \in hist'.lost
  BY <1>5, LostOnly DEF Overwrites
<1>7. /\ UNCHANGED client /\ file' = [file EXCEPT ![c] = NoDoc]
      /\ docSessions' = [docSessions EXCEPT
           ![go[h].doc] = WithoutSession(go[h].list, go[h].session)]
  BY <1>c DEF ExitStoreDoc
<1>. QED BY <1>0, <1>2, <1>3, <1>4, <1>6, <1>7, ExactLeave

\* So does storing it for a cleanup.
LEMMA ExactCleanStore ==
    ASSUME TypeOK, Bookkeeping, Docs, AllTidy, DocsExact, NEW c \in Conn,
           CleanStoreDoc(c)
    PROVE  DocsExact'
<1>0. [Next]_vars
  BY DEF Next, Clean
<1>1. cleanup[c].pc = "storeDoc"
  BY DEF CleanStoreDoc, CleanHold
<1>2. /\ cleanup[c].session \in {NoSession, client[c].session}
      /\ c \notin hist.tangled =>
           /\ file[c] = cleanup[c].doc
           /\ cleanup[c].session = client[c].session
           /\ searchIndex(cleanup[c].session, cleanup[c].list) # 0
           /\ OneAtATime(c)
  BY <1>1 DEF AllTidy, Tidy, DocHeld, FileHeld
<1>3. c \notin hist.tangled => ~Joining(c)
  BY <1>1, <1>2 DEF OneAtATime, Busy, BeforeDoc, Joining, JoinPC
<1>4. \A b \in Conn : Joining(b)' <=> Joining(b)
  BY DEF CleanStoreDoc, Joining
<1>5. hist' = [hist EXCEPT !.lost = @ \cup
        Overwrites(cleanup[c].doc, docSessions[cleanup[c].doc], cleanup[c].list)]
  BY DEF CleanStoreDoc
<1>6. /\ hist'.tangled = hist.tangled
      /\ docSessions[cleanup[c].doc] # cleanup[c].list =>
           cleanup[c].doc \in hist'.lost
  BY <1>5, LostOnly DEF Overwrites
<1>7. /\ UNCHANGED client /\ file' = [file EXCEPT ![c] = NoDoc]
      /\ docSessions' = [docSessions EXCEPT ![cleanup[c].doc] =
                           WithoutSession(cleanup[c].list, cleanup[c].session)]
  BY DEF CleanStoreDoc
<1>. QED BY <1>0, <1>2, <1>3, <1>4, <1>6, <1>7, ExactLeave

\* Every step keeps the documents' lists exact.
LEMMA ExactStep ==
    ASSUME TypeOK, Bookkeeping, Docs, AllTidy, DocsExact, [Next]_vars
    PROVE  DocsExact'
<1>1. ASSUME NEW s \in Session, NEW d \in Doc, NEW h \in Handler,
             OpenEditor(s, d, h)
      PROVE  DocsExact'
  <2>1. Send(s, h, "join", d) /\ editing[s] = NoDoc
    BY <1>1 DEF OpenEditor
  <2>2. UNCHANGED docSessions
    BY <2>1 DEF Send, maps
  <2>. QED BY <2>1, <2>2, ExactSend
<1>2. ASSUME NEW s \in Session, NEW h \in Handler, CloseEditor(s, h)
      PROVE  DocsExact'
  <2>1. Send(s, h, "exit", NoDoc)
    BY <1>2 DEF CloseEditor
  <2>2. UNCHANGED docSessions
    BY <2>1 DEF Send, maps
  <2>. QED BY <2>1, <2>2, ExactSend
<1>3. CASE Client
  BY <1>1, <1>2, <1>3, ExactQuietRest DEF Client
<1>4. ASSUME NEW h \in Handler, Auth(h) \/ Join(h) \/ Exit(h)
      PROVE  DocsExact'
  BY <1>4, ExactQuietGo, ExactAccepted, ExactSetFile, ExactJoinStore,
     ExactExitStore DEF Auth, Join, Exit
<1>5. ASSUME NEW c \in Conn, Clean(c) \/ PumpExit(c)
      PROVE  DocsExact'
  BY <1>5, ExactQuietRest, ExactCleanStore DEF Clean
<1>. QED BY <1>3, <1>4, <1>5, ExactQuietRest DEF Next

-----------------------------------------------------------------------------
(* The file field of the Redis hashes.                                     *)

\* Whose command it is that changes the file field of a session's hash.
LEMMA RedisFileChange ==
    ASSUME TypeOK, [Next]_vars, NEW s \in Session
    PROVE  \/ redis'[s] = redis[s]
           \/ \E h \in Handler : /\ \/ AuthStoreSessionInRedis(h)
                                    \/ JoinAddFileInSession(h)
                                    \/ ExitDeleteFileInSession(h)
                                /\ client[go[h].conn].session = s
           \/ \E d \in Conn : /\ CleanDeleteSessionInRedis(d)
                             /\ client[d].session = s
<1>1. ASSUME NEW h \in Handler, \/ AuthStoreSessionInRedis(h)
                                \/ JoinAddFileInSession(h)
                                \/ ExitDeleteFileInSession(h),
             client[go[h].conn].session # s
      PROVE  redis'[s] = redis[s]
  BY <1>1 DEF AuthStoreSessionInRedis, JoinAddFileInSession,
     ExitDeleteFileInSession, Redis, TypeOK
<1>2. ASSUME NEW d \in Conn, CleanDeleteSessionInRedis(d),
             client[d].session # s
      PROVE  redis'[s] = redis[s]
  BY <1>2 DEF CleanDeleteSessionInRedis, Redis, TypeOK
<1>3. \/ redis' = redis
      \/ \E h \in Handler : \/ AuthStoreSessionInRedis(h)
                            \/ JoinAddFileInSession(h)
                            \/ ExitDeleteFileInSession(h)
      \/ \E d \in Conn : CleanDeleteSessionInRedis(d)
  BY DEF Next, Client, Open, ClientGone, OpenEditor, CloseEditor, Send,
     Auth, AuthRefused, AuthAccepted, AuthLoadUser, AuthStoreUser,
     AuthAddManager, Join, Exit, JoinSetFile, JoinLoadDoc, JoinStoreDoc,
     ExitLoadDoc, ExitStoreDoc, Clean, CleanLoadUser, CleanStoreUser,
     CleanDeleteManagersMap, CleanLoadDoc, CleanStoreDoc, PumpExit,
     Shutdown, vars
<1>. QED BY <1>1, <1>2, <1>3

\* Whose step it is that changes a connection's file.
LEMMA FileChange ==
    ASSUME TypeOK, [Next]_vars, NEW c \in Conn
    PROVE  \/ file'[c] = file[c]
           \/ \E h \in Handler : /\ JoinSetFile(h) \/ ExitStoreDoc(h)
                                /\ go[h].conn = c
           \/ CleanStoreDoc(c)
<1>1. \/ file' = file
      \/ \E h \in Handler : JoinSetFile(h) \/ ExitStoreDoc(h)
      \/ \E d \in Conn : CleanStoreDoc(d)
  BY DEF Next, Client, Open, ClientGone, OpenEditor, CloseEditor, Send,
     Auth, AuthRefused, AuthAccepted, AuthLoadUser, AuthStoreUser,
     AuthAddManager, AuthStoreSessionInRedis, Join, Exit,
     JoinAddFileInSession, JoinLoadDoc, JoinStoreDoc, ExitLoadDoc,
     ExitDeleteFileInSession, Clean, CleanLoadUser, CleanStoreUser,
     CleanDeleteManagersMap, CleanLoadDoc, CleanDeleteSessionInRedis,
     PumpExit, Shutdown, vars
<1>2. ASSUME NEW h \in Handler, JoinSetFile(h) \/ ExitStoreDoc(h),
             go[h].conn # c
      PROVE  file'[c] = file[c]
  BY <1>2 DEF JoinSetFile, ExitStoreDoc, TypeOK
<1>3. ASSUME NEW d \in Conn, CleanStoreDoc(d), d # c
      PROVE  file'[c] = file[c]
  BY <1>3 DEF CleanStoreDoc, TypeOK
<1>. QED BY <1>1, <1>2, <1>3

\* The goroutines of a connection come to rest by a Redis command, or by the
\* end of an authentication.
LEMMA RestChange ==
    ASSUME TypeOK, [Next]_vars, NEW c \in Conn, AtRest(c)'
    PROVE  \/ AtRest(c)
           \/ \E h \in Handler : /\ \/ AuthRefused(h) \/ AuthAccepted(h)
                                    \/ AuthStoreSessionInRedis(h)
                                    \/ JoinAddFileInSession(h)
                                    \/ ExitDeleteFileInSession(h)
                                /\ go[h].conn = c
<1> SUFFICES ASSUME NEW h \in Handler, go[h].pc # "idle", go[h].conn = c,
                    go[h].pc \notin {"joinLoad", "joinStore"}
             PROVE  \/ AuthRefused(h) \/ AuthAccepted(h)
                    \/ AuthStoreSessionInRedis(h)
                    \/ JoinAddFileInSession(h)
                    \/ ExitDeleteFileInSession(h)
  BY DEF AtRest
<1>1. go'[h] # go[h]
  BY DEF AtRest
<1>2. Auth(h) \/ Join(h) \/ Exit(h)
  BY <1>1, GoChange
<1>3. ASSUME go'[h].conn = c, go'[h].pc \in {"storeUser", "addManager",
               "storeRedis", "joinRedis", "exitStore", "exitRedis"}
      PROVE  FALSE
  BY <1>3 DEF AtRest
<1>4. ASSUME \/ AuthLoadUser(h) \/ AuthStoreUser(h) \/ AuthAddManager(h)
             \/ JoinSetFile(h) \/ ExitLoadDoc(h) \/ ExitStoreDoc(h)
      PROVE  FALSE
  <2>1. \/ \E pc, next : /\ Step(h, pc, next)
                         /\ next \in {"storeRedis", "joinRedis", "exitRedis"}
        \/ \E pc, next, d, s, list :
              /\ Hold(h, pc, next, d, s, list)
              /\ next \in {"storeUser", "addManager", "exitStore", "exitRedis"}
    BY <1>4 DEF AuthLoadUser, AuthStoreUser, AuthAddManager, JoinSetFile,
       ExitLoadDoc, ExitStoreDoc
  <2>. QED BY <1>3, <2>1, AfterStep, AfterHold
<1>5. ~JoinLoadDoc(h) /\ ~JoinStoreDoc(h)
  BY DEF JoinLoadDoc, JoinStoreDoc, Hold, Done
<1>. QED BY <1>2, <1>4, <1>5 DEF Auth, Join, Exit

\* An unrivalled connection whose goroutines never overlapped keeps its
\* session orderly.
LEMMA UnrivalledOrderly ==
    ASSUME TypeOK, Bookkeeping, NEW c \in Conn \ hist.tangled, Unrivalled(c),
           c \in hist.listed
    PROVE  /\ client[c] = who[c] /\ Identified(c)
           /\ who[c].session \in Session /\ Orderly(client[c].session)
<1>1. client[c] = who[c] /\ who[c].session \in Session
  BY DEF Bookkeeping, AuthAssigned, Unopened, Opened
<1>2. ASSUME NEW d \in hist.tangled, client[d].session = client[c].session
      PROVE  FALSE
  BY <1>1, <1>2, OnlyItself DEF TypeOK
<1>. QED BY <1>1, <1>2, PoolAssumption DEF Orderly, Identified

\* No step takes the hash of such a connection, at rest, from its file.
LEMMA RedisFileStep ==
    ASSUME TypeOK, Bookkeeping, Docs, AllTidy, RedisFile, [Next]_vars
    PROVE  RedisFile'
<1> SUFFICES ASSUME NEW c \in Conn \ hist'.tangled, ~RedisMayFail,
                    Unrivalled(c)', Registered(c)', AtRest(c)',
                    file'[c] \notin hist'.lost
             PROVE  redis'[who'[c].session].file = file'[c]
  BY DEF RedisFile
<1>0. c \notin hist.tangled /\ hist.lost \subseteq hist'.lost
  BY HistChange
<1>1. link[c] # "none"
  <2>1. ASSUME NEW h \in Handler, AuthStoreUser(h)
        PROVE  link[go[h].conn] # "none"
    BY <2>1, GoConn DEF AuthStoreUser, Hold
  <2>2. c \in hist'.listed
    BY DEF Registered
  <2>. QED BY <2>1, <2>2, ListedChange DEF Bookkeeping, Unopened
<1>2. Unrivalled(c) /\ who'[c] = who[c] /\ Tidy(c)
  BY <1>1, UnrivalledBefore DEF AllTidy
<1>3. OneAtATime(c) /\ FileHeld(c)
  BY <1>0, <1>2 DEF Tidy
<1>4. CASE \E h \in Handler : AuthStoreSessionInRedis(h) /\ go[h].conn = c
  <2>1. PICK h \in Handler : AuthStoreSessionInRedis(h) /\ go[h].conn = c
    BY <1>4
  <2>2. go[h].pc = "storeRedis" /\ cleanup[c].pc # "finished" /\ file' = file
    BY <1>2, <2>1 DEF AuthStoreSessionInRedis, Done, Unrivalled, Serving
  <2>3. client[c] = who[c] /\ file[c] = NoDoc
    BY <1>3, <2>1, <2>2 DEF Bookkeeping, AuthAssigned, AuthPC, FileHeld
  <2>4. redis' = [redis EXCEPT ![client[c].session] =
                    [user |-> client[c].user, file |-> NoDoc]]
    BY <2>1, <2>2 DEF AuthStoreSessionInRedis, Redis
  <2>. QED BY <1>2, <2>2, <2>3, <2>4, ClientField DEF TypeOK
<1>5. CASE ~\E h \in Handler : AuthStoreSessionInRedis(h) /\ go[h].conn = c
  <2>1. Registered(c)
    BY <1>5, RegisteredBefore
  <2>2. /\ client[c] = who[c] /\ Identified(c)
        /\ who[c].session \in Session /\ Orderly(client[c].session)
    BY <1>0, <1>2, <2>1, UnrivalledOrderly DEF Registered
  <2>3. ASSUME NEW h \in Handler, JoinAddFileInSession(h), go[h].conn = c
        PROVE  redis'[who'[c].session].file = file'[c]
    <3>1. /\ file[c] = go[h].doc /\ file' = file
          /\ redis' = [redis EXCEPT ![client[c].session] =
                         [redis[client[c].session] EXCEPT !.file = go[h].doc]]
      BY <1>3, <2>3 DEF JoinAddFileInSession, Step, Redis, FileHeld
    <3>2. redis[client[c].session] \in [user : User \cup {NoUser, NoField},
                                        file : Doc \cup {NoDoc, NoField}]
      BY ClientField DEF TypeOK
    <3>3. [redis[client[c].session] EXCEPT !.file = go[h].doc].file = go[h].doc
      BY <3>2
    <3>. QED BY <1>2, <2>2, <3>1, <3>3 DEF TypeOK
  <2>4. ASSUME NEW h \in Handler, ExitDeleteFileInSession(h), go[h].conn = c
        PROVE  redis'[who'[c].session].file = file'[c]
    <3>1. /\ go[h].pc = "exitRedis" /\ file' = file
          /\ redis' = [redis EXCEPT ![client[c].session] =
                         [redis[client[c].session] EXCEPT !.file = NoDoc]]
      BY <2>4 DEF ExitDeleteFileInSession, Done, Redis
    <3>2. redis[client[c].session] \in [user : User \cup {NoUser, NoField},
                                        file : Doc \cup {NoDoc, NoField}]
      BY ClientField DEF TypeOK
    <3>3. [redis[client[c].session] EXCEPT !.file = NoDoc].file = NoDoc
      BY <3>2
    <3>4. file[c] = NoDoc
      BY <1>0, <1>2, <2>2, <2>4, <3>1 DEF Tidy, FileLeft
    <3>. QED BY <1>2, <2>2, <3>1, <3>3, <3>4 DEF TypeOK
  <2>5. CASE ~\E h \in Handler : /\ \/ JoinAddFileInSession(h)
                                    \/ ExitDeleteFileInSession(h)
                                 /\ go[h].conn = c
    <3>1. AtRest(c)
      <4>1. ASSUME NEW h \in Handler, AuthRefused(h) \/ AuthAccepted(h),
                   go[h].conn = c
            PROVE  FALSE
        BY <2>1, <4>1 DEF AuthRefused, AuthAccepted, Step, Done, Registered,
           Authenticating, AuthPC
      <4>. QED BY <1>5, <2>5, <4>1, RestChange
    <3>2. cleanup[c].pc = "serve"
      BY <1>2 DEF Unrivalled, Serving
    <3>3. file'[c] = file[c]
      <4>1. ASSUME NEW h \in Handler, JoinSetFile(h) \/ ExitStoreDoc(h),
                   go[h].conn = c
            PROVE  FALSE
        BY <3>1, <4>1 DEF JoinSetFile, ExitStoreDoc, Step, Hold, AtRest
      <4>2. ~CleanStoreDoc(c)
        BY <3>2 DEF CleanStoreDoc, CleanHold
      <4>. QED BY <4>1, <4>2, FileChange
    <3>4. redis'[who[c].session] = redis[who[c].session]
      <4>1. ASSUME NEW h \in Handler, \/ AuthStoreSessionInRedis(h)
                                      \/ JoinAddFileInSession(h)
                                      \/ ExitDeleteFileInSession(h),
                   client[go[h].conn].session = who[c].session
            PROVE  FALSE
        <5>1. go[h].conn \in Conn
          BY <4>1, GoField DEF AuthStoreSessionInRedis, JoinAddFileInSession,
             ExitDeleteFileInSession, Step, Done
        <5>2. go[h].conn = c
          BY <1>2, <2>1, <4>1, <5>1, OnlyItself DEF Registered
        <5>. QED BY <1>5, <2>5, <4>1, <5>2
      <4>2. ASSUME NEW d \in Conn, CleanDeleteSessionInRedis(d),
                   client[d].session = who[c].session
            PROVE  FALSE
        <5>1. d = c
          BY <1>2, <2>1, <4>2, OnlyItself DEF Registered
        <5>. QED BY <3>2, <4>2, <5>1 DEF CleanDeleteSessionInRedis, CleanStep
      <4>. QED BY <2>2, <4>1, <4>2, RedisFileChange
    <3>5. redis[who[c].session].file = file[c]
      BY <1>0, <1>2, <2>1, <3>1, <3>3 DEF RedisFile
    <3>. QED BY <1>2, <3>3, <3>4, <3>5
  <2>. QED BY <2>3, <2>4, <2>5
<1>. QED BY <1>4, <1>5

-----------------------------------------------------------------------------
(***************************************************************************)
(* The theorems.                                                           *)
(***************************************************************************)
ListsInv == /\ IInv
            /\ Users /\ UserHeld /\ UserListExact
            /\ Docs /\ AllTidy /\ DocsExact
            /\ RedisFile

\* The inductive invariant holds of the initial states.
LEMMA ListsInit == Init => ListsInv
<1> SUFFICES ASSUME Init PROVE ListsInv
  OBVIOUS
<1>1. IInv
  BY IInvInit
<1>2. /\ \A c \in Conn : /\ link[c] = "none" /\ cleanup[c].pc = "none"
                         /\ client[c] = Nobody /\ file[c] = NoDoc
      /\ \A h \in Handler : go[h].pc = "idle"
      /\ hist.listed = {} /\ hist.late = {} /\ hist.tangled = {}
  BY DEF Init, Idle
<1>3. /\ \A u \in User \cup {NoUser} : userIndex[u] = <<>>
      /\ \A d \in Doc \cup {NoDoc} : docSessions[d] = <<>>
      /\ \A s \in Session : managers[s] = NoConn /\ current[s] = NoConn
  BY DEF Init
<1>4. Users /\ UserHeld
  BY <1>2, <1>3, FS_EmptySet DEF Users, UserHeld
<1>5. UserListExact
  <2>1. ASSUME NEW u \in User, NEW s \in Session PROVE UserExact(u, s)
    <3>1. Owners(u, s) = {}
      BY <1>2 DEF Owners
    <3>. QED BY <1>3, <3>1, FS_EmptySet, OccursNowhere DEF UserExact
  <2>. QED BY <2>1, UserExactIs
<1>6. Docs
  <2>1. {c \in Conn : Identified(c)} = {}
    BY <1>2 DEF Identified, Nobody
  <2>. QED BY <1>2, <1>3, <2>1, FS_EmptySet DEF Docs
<1>7. AllTidy
  <2>1. ASSUME NEW c \in Conn
        PROVE  DocHeld(c) /\ OneAtATime(c) /\ FileHeld(c) /\ NoJoin(c)
    BY <1>2 DEF DocHeld, OneAtATime, Busy, FileHeld, NoJoin, Joining, JoinPC,
       AuthPC
  <2>2. ASSUME NEW c \in Conn PROVE ~Identified(c)
    BY <1>2 DEF Identified, Nobody
  <2>. QED BY <2>1, <2>2 DEF AllTidy, Tidy
<1>8. DocsExact
  <2>1. ASSUME NEW d \in Doc, NEW s \in Session
        PROVE  Occurrences(s, docSessions[d]) = Cardinality(Joined(d, s))
    <3>1. Joined(d, s) = {}
      BY <1>2, PoolAssumption DEF Joined, Nobody
    <3>. QED BY <1>3, <3>1, FS_EmptySet, OccursNowhere
  <2>. QED BY <2>1 DEF DocsExact
<1>9. RedisFile
  BY <1>2 DEF RedisFile, Registered
<1>. QED BY <1>1, <1>4, <1>5, <1>6, <1>7, <1>8, <1>9 DEF ListsInv

\* Every step keeps it.
LEMMA ListsStep == ListsInv /\ [Next]_vars => ListsInv'
<1> SUFFICES ASSUME ListsInv, [Next]_vars PROVE ListsInv'
  OBVIOUS
<1>1. /\ IInv /\ TypeOK /\ Bookkeeping /\ Users /\ UserHeld /\ UserListExact
      /\ Docs /\ AllTidy /\ DocsExact /\ RedisFile
  BY DEF ListsInv, IInv
<1>2. IInv'
  BY <1>1, IInvStep
<1>3. Users' /\ UserHeld' /\ UserListExact'
  BY <1>1, UsersStep, UserStep
<1>4. Docs' /\ AllTidy' /\ DocsExact'
  BY <1>1, DocsStep, TidyStep, ExactStep
<1>5. RedisFile'
  BY <1>1, RedisFileStep
<1>. QED BY <1>2, <1>3, <1>4, <1>5 DEF ListsInv

\* So it holds in every reachable state.
LEMMA ListsAlways == Spec => []ListsInv
  BY ListsInit, ListsStep, PTL DEF Spec

(***************************************************************************)
(* Whatever the order of the goroutines and the cleanups, a user's list    *)
(* holds a tab's session once for every registered connection of the tab   *)
(* that was not cleaned up, as long as no update of the list was lost and  *)
(* no authentication came after its own cleanup.                           *)
(***************************************************************************)
THEOREM UserListTheorem == Spec => []UserListExact
<1>1. ListsInv => UserListExact
  BY DEF ListsInv
<1>. QED BY <1>1, ListsAlways, PTL

(***************************************************************************)
(* A session found in a user's list leads to a connection of another user  *)
(* only while an older connection of the tab, of that user, lives on.      *)
(***************************************************************************)
THEOREM MisroutedTheorem == Spec => []MisroutedOnlyAfterRelogin
<1>1. ListsInv => MisroutedOnlyAfterRelogin
  BY MisroutedIf DEF ListsInv, IInv
<1>. QED BY <1>1, ListsAlways, PTL

(***************************************************************************)
(* A document's list holds a tab's session once for every connection of    *)
(* the tab that has joined the document and not left it, as long as no     *)
(* update of the list was lost and the goroutines of the tab's connections *)
(* did not overlap.                                                        *)
(***************************************************************************)
THEOREM DocListTheorem == Spec => []DocListExact
<1>1. ListsInv => DocListExact
  <2> SUFFICES ASSUME ListsInv, NEW d \in Doc \ hist.lost, NEW s \in Session,
                      \A c \in hist.tangled : who[c].session # s
               PROVE  Occurrences(s, docSessions[d]) = Cardinality(Joined(d, s))
    BY DEF DocListExact, Joined, Joining
  <2>1. Orderly(s)
    <3>1. hist.tangled \subseteq Conn /\ ClientIsTab
      BY DEF ListsInv, IInv, TypeOK, Bookkeeping
    <3>2. \A c \in hist.tangled : client[c].session # s
      BY <3>1, PoolAssumption DEF ClientIsTab, Nobody
    <3>. QED BY <3>2 DEF Orderly
  <2>. QED BY <2>1 DEF ListsInv, DocsExact
<1>. QED BY <1>1, ListsAlways, PTL

(***************************************************************************)
(* A tab that shows no editor, and of which nothing is being handled, is   *)
(* on no document's list, as long as it has one authenticated connection,  *)
(* its messages did not overlap and the list lost no update.               *)
(***************************************************************************)
THEOREM LeftTheorem == Spec => []LeftForgotten
<1>1. ListsInv => LeftForgotten
  <2> SUFFICES ASSUME ListsInv, NEW s \in Session, NEW d \in Doc \ hist.lost,
                      current[s] # NoConn, Reading(current[s]),
                      ~Busy(current[s]), editing[s] = NoDoc,
                      \A k \in SameTab(current[s]) : ~Identified(k),
                      \A k \in hist.tangled : who[k].session # s
               PROVE  ~Contains(docSessions[d], s)
    BY DEF LeftForgotten
  <2> DEFINE c == current[s]
  <2>0. TypeOK /\ ClientIsTab /\ Docs /\ AllTidy /\ DocsExact
    BY DEF ListsInv, IInv, Bookkeeping
  <2>1. c \in Conn /\ who[c].session = s
    BY <2>0 DEF TypeOK, Docs
  <2>2. Orderly(s)
    <3>1. \A k \in hist.tangled : k \in Conn /\ who[k].session # s
      BY <2>0 DEF TypeOK
    <3>. QED BY <2>0, <3>1, PoolAssumption DEF Orderly, ClientIsTab, Nobody
  <2>3. ASSUME NEW k \in Joined(d, s) PROVE FALSE
    <3>1. k \in Conn /\ client[k].session = s /\ file[k] = d
      BY <2>3 DEF Joined
    <3>2. Identified(k) /\ who[k].session = s
      BY <2>0, <3>1, PoolAssumption DEF Identified, ClientIsTab, Nobody
    <3>3. k = c
      BY <2>1, <3>1, <3>2 DEF SameTab
    <3>4. Tidy(c) /\ client[c].session = s /\ Identified(c)
      BY <2>0, <2>1, <3>1, <3>2, <3>3 DEF AllTidy
    <3>5. FileLeft(c)
      BY <2>2, <3>4 DEF Tidy
    <3>6. Viewing(s, c) /\ ~Exiting(c)
      BY DEF Viewing, Exiting, Busy
    <3>7. file[c] \in {NoDoc} \cup hist.lost
      BY <3>5, <3>6 DEF FileLeft
    <3>. QED BY <3>1, <3>3, <3>7, PoolAssumption
  <2>4. Joined(d, s) = {}
    BY <2>3
  <2>5. Occurrences(s, docSessions[d]) = 0
    BY <2>0, <2>2, <2>4, FS_EmptySet DEF DocsExact
  <2>6. docSessions[d] \in Seq(Session \cup {NoSession})
    BY <2>0 DEF TypeOK
  <2>. QED BY <2>5, <2>6, OccursIf
<1>. QED BY <1>1, ListsAlways, PTL

(***************************************************************************)
(* When Redis answers, the hash of a tab with one authenticated connection *)
(* that is served and idle names the connection's user and its file.       *)
(***************************************************************************)
THEOREM RedisSessionTheorem == Spec => []RedisSessionCurrent
<1>1. ListsInv => RedisSessionCurrent
  <2> SUFFICES ASSUME ListsInv, NEW c \in Conn \ hist.tangled, ~RedisMayFail,
                      Registered(c), Serving(c), ~Busy(c),
                      file[c] \notin hist.lost,
                      \A d \in SameTab(c) : ~Identified(d)
               PROVE  redis[who[c].session] =
                        [user |-> who[c].user, file |-> file[c]]
    BY DEF RedisSessionCurrent
  <2>1. Unrivalled(c) /\ AtRest(c)
    BY DEF Unrivalled, AtRest, Busy
  <2>2. redis[who[c].session].file = file[c]
    BY <2>1 DEF ListsInv, RedisFile
  <2>3. redis[who[c].session].user = who[c].user
    BY <2>1 DEF ListsInv, IInv, RedisKept
  <2>4. who[c].session \in Session
    BY DEF ListsInv, IInv, Bookkeeping, Unopened, Opened, Registered
  <2>5. redis[who[c].session] \in [user : User \cup {NoUser, NoField},
                                   file : Doc \cup {NoDoc, NoField}]
    BY <2>4 DEF ListsInv, IInv, TypeOK
  <2>. QED BY <2>2, <2>3, <2>5
<1>. QED BY <1>1, ListsAlways, PTL
=============================================================================
