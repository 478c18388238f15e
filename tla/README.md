# miniDoc: a TLA+ model of the collaborative editor

miniDoc is a collaborative document editor: an Angular client, a Go server,
PostgreSQL, and Redis between the server's processes. This directory holds
TLA+ modules that model its core logic, the TLC configurations that check
them on small instances, and proofs, checked by TLAPS, of what holds for every
size of the system. `PROJECT.json` ties every definition to the lines of the
source it models, every run to its properties, and every property to a
plausible bug of the code that the run detects.

Paths below are relative to the repository; `ws/` stands for
`backEnd/internal/app/websocket/` and `collaboration/` for
`frontEnd/src/app/core/services/collaboration/`.

## 1. The system

| component | state | operations | where it is hard |
|---|---|---|---|
| connection registry (`ws/controller.go`, `localPoolAction.go`, `service.go`) | four `sync.Map`s: pool, userIndex, managers, docSessions; a `ConnectionManager` per connection | auth, joinFile, exitFile, cleanup, routing of events | every message has its own goroutine; lists are changed by a Load and a Store; a tab reuses its session identifier on every connection |
| Redis session hashes (`pkg/redisUtils/redisUtils.go`) | `session:<id>` with user and file | store, delete, set file, clear file | written from concurrent handlers; failures are only logged |
| Redis publish/subscribe (`redisPub.go`, `redisSub.go`) | channels, the registered router | publish, subscribe loop | a busy `send` channel drops |
| LSEQ sequence (`collaboration/CRDT`) | atoms in order of their identifiers, the strategy per depth | alloc, insert, delete, printString | random digits, paths that must grow when there is no room |
| rope tree (`collaboration/RopeTree`) | leaves of identifiers, lengths of internal nodes | getInsertIds, getDeleteIds, insert, delete | leaf boundaries, splits, lengths that must follow every change |
| editor component (`rich-text-editor.component.ts`) | one LSEQ and one rope tree | insert and delete at a position, join and exit | two structures that nothing else keeps together |
| WebSocket client (`websocket.service.ts`, `websocketState.service.ts`) | the current socket, the session identifier, a flag of the reconnection, timers | connect, sendAuth, listenMessage, autoReconnect, disconnect | `connect` leaves the former socket as it is; timers outlive logins and logouts; nothing repeats `joinFile` |
| user state, token, guards (`userState.service.ts`, `token.service.ts`, ...) | the token in `localStorage`, username and login status | login, logout, replaceToken, the events of the bus | three services that call each other through a synchronous bus; a token shared by all tabs |
| accounts, login sessions, JWT (`app/Auth`, `sessionUtils`, `jwtUtils`) | rows of users and sessions | register, login, verdict on a token, create/extend/expire a session | look-up then insert; a sweep between look-up and update; two answers to one expired token |
| files and sharing (`app/File`) | users_files rows | create, share, unshare, delete | several statements and a publication without a transaction |
| home page (`home.component.ts`) | the list of files | load, patch by notifications | answers and notifications in any order |
| share popover (`share.component.ts`) | the names to share with, the users who have access | verify, share, revoke | answers that come after the list or the page has changed |
| varint conversion (`convertUtils`) | none | encode, decode (no caller) | boundaries of the byte groups |

They interact as follows. Login and registration answer a token and then
create a session for the user and the browser. The token service puts the token into
`localStorage` and tells the user state, which tells the WebSocket service to
connect. The tab opens a socket and sends `auth`; the server has the verdict on
the token, extends the session, and
registers the connection under the tab's session identifier and writes the
session's hash to Redis. The editor sends `joinFile` and `exitFile`, which
change the document's list and the hash. A request that changes a file
publishes an event to Redis; every server process that receives it looks the
target user or document up in its registry and hands the event to the
connections it finds. Inside a tab, every key goes to both the LSEQ and the
rope tree; no edit is sent to the server yet (the editor's `//TODO fetch
fileContent`), so that there is one replica of a text. A connection that
breaks is opened again by a chain of timers; an error of a request, a refused
`auth` and the logout of the user all take the same way back: token, user state
and socket, each through the bus.

The full list of components, with those that are not modelled and why, is in
`PROJECT.json` under `components`; what is hard to test, at its line, under
`hazards`.

## 2. The modules

| module | models | lines of thought |
|---|---|---|
| `SessionList` | the lists of sessions: search, leave out the first occurrence | used by `ConnectionPool` |
| `SessionListProofs` | - | what these helpers return, for any list |
| `ConnectionPool` | the registry, its handlers and cleanups, the hashes, what the client sends | one `sync.Map` or Redis operation is one step |
| `MCConnectionPool` | - | symmetry for TLC |
| `ConnectionPoolProofs` | - | type correctness and the eviction theorem; the lists of users and documents, and the hashes, are exact; a document that was left is forgotten |
| `LseqIdentifier` | identifiers and their order, the sentinels | |
| `TextBuffer` | abstract: a text edited at positions | what the editor promises |
| `Lseq` | alloc, the atoms, the editing calls | shown to implement `TextBuffer` |
| `LseqProofs` | - | order of identifiers and the refinement |
| `RopeTree` | the tree as a value, its methods as functions | recursive functions on the trees of a bounded height |
| `Editor` | the component on an LSEQ and a rope tree together | extends `Lseq` and `RopeTree`; shown to implement `Lseq` |
| `EditorProofs` | - | searches, insertion and deletion in the tree; the tree holds the atoms; the editor implements `Lseq` |
| `FileStore` | the handlers of files and sharing over two tables | one SQL statement or publication is one step |
| `HomeFiles` | the home page's list of files, on `FileStore` | extends `FileStore` with the tabs |
| `HomeFilesProofs` | - | types, one owner, who deletes; the lists are exact |
| `EventRouting` | from a publication to the connections of its target, on `ConnectionPool` | extends `ConnectionPool` with the publisher, the subscriber, the goroutines of routing and the write pumps |
| `EventRoutingProofs` | - | types; routed as listed, once to its target, got or missed |
| `WsClient` | one tab: socket, reconnection, user state, token, and the server's end of its sockets | a handler with all the handlers its events reach is one step |
| `WsClientProofs` | - | types and the two safety properties |
| `Sessions` | accounts, tokens and login sessions over the clock | one SQL statement is one step, and may fail |
| `SessionsProofs` | - | types and the three safety properties |
| `MCHomeFiles`, `MCEventRouting`, `MCSessions` | - | symmetry for TLC |

### ConnectionPool

`userIndex`, `managers`, `docSessions` and `pool` are the four maps; an absent
key is an empty list or `NoConn`. `client` and `file` are the fields of the
`ConnectionManager`s, `redis` the hashes. `go` holds the message goroutines:
a program counter, the connection, and the locals that survive a step (the
list that was loaded, the identifiers that were read). `cleanup` is the same
for `WebSocketHandler` itself, which blocks in `Start` (`"serve"`) until the
context is cancelled and then runs `DeleteLocal` and `DeleteSessionInRedis`.
`link`, `who`, `current`, `editing` are the client's side. `hist` is history:
which connections were registered, which lists lost an update, which
connections were registered late, which had overlapping goroutines.

Each handler is split at its accesses to shared state: `handleAuthentication`
is `AuthRefused`, or `AuthAccepted` (which may end it when the token cannot be
renewed), `AuthLoadUser`, `AuthStoreUser`, `AuthAddManager`,
`AuthStoreSessionInRedis`; `handleJoinFile` and `handleExitFile` and the cleanup
likewise. Steps are merged only where nobody can tell:

- the assignment of `clientSocket.client` is one step, although Go may tear
  it: a reader that sees one new and one old field finds the entries of
  neither (a torn string, which could crash the process, is not modelled);
- `pool` is written and never read, so that `pool.Store` and `pool.Delete` go
  with the next access;
- reads of the manager's own fields go with the Load they are made for, and
  the reset of `currentFileUUID` with the Store before it.

The server reads a message as soon as it is sent, but the goroutine it starts
runs whenever it likes, which covers every order in which goroutines may run.
After `ClientGone` nothing gets through. `StoreSessionInRedis` uses the
request's context, which the HTTP server cancels when `WebSocketHandler`
returns: issued afterwards it may do nothing. The other commands use the gin
context or a fresh one, which are never cancelled.

### Lseq, RopeTree, Editor

`alloc` is the set of its outcomes: `Depths` is where its loop stops, `Steps`
and `NewDigits` every value `Math.random()` can lead to, and `bpbm` remembers
per depth the side drawn first. `Lseq` runs it between the neighbours of the
position as the atoms have them; `Editor` runs it as the code does, between
the neighbours that the rope tree finds, and inserts the identifier into both
structures. `EditsAsLseq`, which is `Lseq`'s own specification as a property of
`Editor`, says that the two ways of finding a position are one, so that what is
proved of `Lseq` holds of the component as far as `EditsAsLseq` does. A rope tree is a value (`[ids]` or `[left, right, length]`), and
`length` is the *field* of an internal node, so that lengths `delete` leaves
stale are stale in the model. The methods that call themselves on the children of a node are
recursive functions on `TreeNode`, the trees no higher than `MaxHeight`. An insertion makes a tree higher by
one at most and `MaxInsert` bounds the insertions, so that `MaxHeight >= MaxInsert`
(`EditorAssumption`) makes this no bound on the editor's trees. The caret takes the positions `0..Len(atoms)`.
All clients are called `"client-id"` in the code (`LSEQ.service.ts:77`), and so
here.

### FileStore, HomeFiles

`files` and `role` are the rows of `files` and `users_files`. A request is a
program counter with the locals of its handler: the requester, the file, the
users it has still to go through (`todo`), those whose row it has changed and
whom it has not told yet (`owed`), what it selected (`found`), whether its
answer is a success (`ok`). No handler opens a transaction around two
statements, so that each statement is a step of its own; `gorm`'s own
transaction around a `Create` makes one step of the row and of the rows it
refers to. The primary key of `users_files`, its foreign keys and ON DELETE
CASCADE (`database_init.go`) are in the guards and the assignments. A step may
fail with `MayFail`, as it does when the client is gone and the request's
context with it; it then goes to the handler's error branch. The users of a share
are gone through in any order, where the code takes them in the database's.

The verdict on the token comes before everything else, and a request that it
refuses or sends back for a new token changes nothing, so that requests begin
after it. The requests are those the client sends: `met` remembers which files
have been on whose list, a file is created under a fresh UUID, and an owner is
never revoked because `share.component.html` has no button for it; the server
itself would not refuse.

`HomeFiles` adds one tab per user. `list` is `filteredFiles`, which the page shows (the order is left
out, and the search field is empty): how often each file is listed. `broken` says that
`userfiles` is undefined: a list that could not be read leaves the old one on the page, with its
buttons, and the page patches nothing until another list is read. `home` says who shows the page, `out` who of
them is logged out: by the button, which clears the list (`Logout`), by the verdict on one of the page's requests
(`MayLogOut`), or because the session or the WebSocket has ended (`LoggedOut`); the page stays, under the modal that asks
to log in, and what is sent to it meanwhile may be lost. `LoggedIn` is the subscription to `isLoggedIn`,
which asks for the list again after every login and renewed token. `orphans` are the requests of components that were
destroyed since, whose answers find no list. `mail` is what `EventRouting` makes of the network:
notifications in any order, some of them lost. `unsynced` is history; the
actions compute it from what the step changes (`Crossed`, `Lapsed`,
`Muddled`), a list that fails to arrive adds every file of the page's user, and a later reading of the rows takes
pairs out again (`Resynced`). That somebody else logs in to the tab while the page stays is left out.

### EventRouting

`EventRouting` extends `ConnectionPool`: its connections, lists and managers are the registry's own, and any
step of the registry, its goroutines, its cleanups and its clients (`PoolStep`) may come between two steps of the
routing. A list that has lost an update, an entry left behind, a session that leads to another connection by
now, and a document that is left while an event about it is under way are therefore all there, for users (`userIndex`) and documents
(`docSessions`) alike. One server is modelled. Servers share nothing but Redis, so that for a server an event is either published
on it, which routes it locally and then publishes (`Broadcast`, `PubRedis`), or elsewhere (`PublishElsewhere`). `event` is the
publisher; `channel` and `subscribed` are the server's subscription; `routing` is `RouteEvent` of an event,
with what is left of the list it loaded; `offers` counts the goroutines
that are about to offer the event to a connection; `pump` is the event a `writePump` is writing. A pump takes an event
only in its `select`; because it also writes pings and answers, which are not kept, an offer may find it busy at
any time. A cancelled context does not end it, only a write that fails does. `got` counts what
was written to a connection. `seen` is history: who was connected when an event was
published and has been since (`owed`), who missed it for which step (`missed`), the list that was loaded (`loaded`)
and who was of the target at that moment (`listed`).

### WsClient

The services of a tab call each other through `Subject`s that deliver
synchronously, so that a handler, the events it emits and what their
subscribers do is one step of the tab. The services are therefore written as
functions on a record of what they keep (`token`, `user`, `socket`, `sock`,
`reconnecting`), named as in the code: `logout` is `disconnect` after
`removeToken`, `replaceToken` is `removeToken` and `setToken`, whose event makes the
user state connect. An action applies them to the state before it (`Now`,
`Becomes`).

`sock` has every socket of the tab with the server's end of it, which lives from the opening of the socket until a ping fails or
the read deadline passes (`served`, `ServerEnds`) and so outlives the tab's: `asked` is the token of an
`auth` that its end has not handled yet, `who` the user it holds the connection for, `answer` the answer on
its way to the tab. Only the current
socket has handlers, so that answers to the others are not kept. `timers` are the pending
`setTimeout`s of `autoReconnect`, by the number of attempts made; `submitted` says that
login or register requests may be unanswered, which lets any number of them be
answered until the page is loaded again. An answered login replaces the token, and with it connects, before anything else happens.
History: `gaveUp` (a chain of attempts has come to its
end), and in `sock` `stray` (the socket was authenticated with the token of
another tab, or a new token or a second login replaced it while it was open).

What is abstract: a former socket that is still connecting, or closing, is
forgotten by `connect`, because nothing the tab does can reach it again, but its end on the server goes on; a
`send` that throws because the socket is connecting changes nothing here; `isOpen` and `status` of the WebSocket state
have no reader, and `username`, `hasJWT` and `isLoggedIn` change together and are one variable. The
server may give any verdict on a token (`Sessions` says which it gives) and may drop
its answer, as `sendResponse` does when the channel is busy. A connection breaks only
while the server cannot be reached or after the server has ended it.

The documents of the tab are not here. Its `joinFile` and `exitFile` take effect in goroutines of the server, in any
order, which is `ConnectionPool`'s subject (`JoinSetFile`, `ExitLoadDoc`, ...), with several connections of one tab; a `file_event`
is routed to the session and not to a connection, which is `EventRouting`'s.

### Sessions

`account` and `rows` are the tables `users` and `sessions`, `tokens` every token
that was answered, as who it is for and when it expires; its signature is not
modelled, and neither is a token that nobody issued. A token names no browser: the verdict looks for a session of
its user with the agent of the *request*, and the WebSocket's `Authenticate` creates or extends that of the user its
message names. A handler is a program counter
(`create`, `answer`, `find`, `insert`, `update`, `renew`: its next statement) with
what it holds. Register and Login answer before they create the session, as the
controllers do. `CreateSession` is `FindNothing` and `SessionInsert`, or
`FindSession` and `SessionUpdate`, which updates the row by the identifier that was
found. The expiry it writes is computed before the statement runs, from the clock at any time since the handler
looked the session up (`Expiries`, `since`). `HttpRenews` makes a new token, which the client does not look for where
it is answered. `Tick` lets time pass and `Sweep` deletes what has expired between any two
statements. `Fails` is any statement that fails, or the end of the server; a WebSocket
goes on after a session it could not create. `ErrTokenExpired` and
`ErrJWTExpired` are the two errors of `ValidJWT` on an expired token, without and with an
active session. History: `promised` (until when a session was last granted),
`lost` (it was swept while it was being extended), `raced` (two handlers found
none at once), `registered`, `renewals`.

## 3. The runs

Every run finishes in less than four minutes with two workers.

| run | instance | checks |
|---|---|---|
| `PoolTabs` | 2 connections, 2 tabs, 2 users, 2 goroutines, Redis may fail, the server may stop | `EvictedOnlyByOwnTab`, `UserListExact`, `MisroutedOnlyAfterRelogin` |
| `DocReuse` | 2 connections of one tab, 1 document, 2 goroutines, 1 editor | `TypeOK`, `DocListExact`, `LeftForgotten`, `RedisSessionCurrent` |
| `PoolLive` | 2 connections of one tab, 1 editor, fair | `DeadConnectionForgotten` |
| `EditorText` | end digit 3, boundary 2, 2 characters, 4 insertions, leaves of 3, deletions from trees of two leaves | `TypeOK`, `AtomsOrdered`, `TreeHoldsAtoms`, `RefinesTextBuffer`, `EditsAsLseq` |
| `HomeList` | 3 users, 1 file, 2 requests at a time, 5 in all, failures and losses | `TypeOK`, `HomeTypeOK`, `OneOwner`, `ListExact`, `OnlyItsOwnerDeletes` |
| `RoutingTabs` | 2 connections of 2 tabs or of one, 1 user, 1 goroutine of the registry, 1 event, failures | `RTypeOK`, `RoutedAsListed`, `OnceToItsTarget`, `GotOrMissed` |
| `RoutingDocs` | 1 connection, 2 documents, 2 goroutines of the registry, 2 editors, 1 event | the same, and `LeftForgotten`, `RedisSessionCurrent` |
| `WsClient` | 2 users, 2 sockets, 2 attempts, 2 timers, fair | `TypeOK`, `RightUser`, `NoStray`, `Reconnects`, `LoggedOutQuiet` |
| `Sessions` | 1 username, 2 passwords, 2 agents, 2 handlers, life time 1, clock to 3, 3 rows | `TypeOK`, `OneSessionEach`, `RegistrationKept`, `SessionKept` |
| `HttpRenewal` | 1 username, 1 agent, 1 handler, life time 1, clock to 3 | `RenewedOnlyWithSession`, **violated** |
| `EditorDeleting` | end digit 3, boundary 2, leaves of 2, deletions | `DeletesWhereAsked`, **violated** |
| `EditorOrder` | the same | `TreeOrdered`, **violated** |

**What the registry's runs show.** The registry is not exact, and the
properties say exactly when: a user's list names each registered connection
once (`UserListExact`), except that (a) two goroutines between Load and Store
of one list lose an update (`hist.lost`), and (b) a connection may be cleaned
up before its own authentication has registered it, and stays registered for
ever (`hist.late`). The exceptions are the code's races; without them the
properties do not hold, with them they hold in every interleaving, which is
what they claim: these are the only ways to get there. The same goes for
documents, where the exceptions are lost updates and overlapping goroutines of
one connection (`hist.tangled`). A tab that has closed its editor is in no document's list, although `exitFile` names no
document and the `joinFile` of the next may have come before it (`LeftForgotten`), with the same exceptions and that
of a second connection of the tab, whose own entry stays. A connection is evicted from the managers
only by another connection of its own tab (`EvictedOnlyByOwnTab`); a
notification reaches another user only through a tab that logged in again
while its former connection was still registered
(`MisroutedOnlyAfterRelogin`).

**What the runs of files and events show.** A file that has been made has
exactly one owner and is deleted by nobody else, although the role is read in
one statement and used in another (`OneOwner`, `OnlyItsOwnerDeletes`). A
creation that fails half-way leaves a file that nobody has, which `OneOwner`
leaves aside. The list on the home page is not kept exact, and `ListExact` says
when it may be wrong: two changes of a user's access, or one of them and the
reading of the rows, overlap (a file is listed twice, not at all, or for good
although it was revoked); nobody tells the user (a share that failed for a
later user, the other users of a file its owner deletes, a deletion answered
with 403 because the event could not be published); the
notification is lost; or the page could not be read or its user was logged out, after which it shows what it showed and
promises nothing until it is read again. Each of these is needed: without it TLC finds the list wrong.

An event goes through one list once, so that a connection is written it at most as often as its tab was in that list
(`RoutedAsListed`, without exceptions). That this is once, and only for a connection of the target
(`OnceToItsTarget`), holds where the list is right: not where it has lost an update, where the tab authenticated a second
connection, which the old entries then lead to, or where its messages overlapped. A connection
that was there all along and did not get the event has one of the same exceptions to blame, or was passed over for one of the
reasons that `GotOrMissed` names.

**What the run of the tab shows.** The tab keeps its promises only with
exceptions, and the properties name them. The connection is that of the tab's user
(`RightUser`) although `sendAuth` reads the token when the socket opens and not when
`connect` was called: whoever logs out and in between the two is authenticated as who
he is by then. It fails only for a stray socket, since another tab may change the token. The
server holds no other connection of the tab than the current one (`NoStray`),
except those that a renewed token or a second login left open, because `connect`
does not close the former socket; the end of a broken one may live on there for a minute, but the tab holds it no
longer open. Once the
server stays reachable, a tab whose user stays logged in is connected again, unless its attempts have run
out: then the flag stays set and only a login or a reload helps (`Reconnects`). After
the last logout the timers come to an end, the server's deadlines end what was closed, and no connection is left
(`LoggedOutQuiet`).

**What the runs of accounts and sessions show.** A username is never answered
"created" to two registrations with different passwords, although the look-up and the
insertion are two statements (`RegistrationKept`; the unique index does it, and the
mutant without it fails). Nothing does it for sessions: a user has two with one agent
after two logins that both found none, and only then (`OneSessionEach`). A session
lasts as long as it was granted, except that a sweep between the look-up and the update
takes it and nobody notices (`SessionKept`). `HttpRenewal` shows that the HTTP
controllers confuse the two errors of an expired token: they refuse a user with an active
session and renew the token of one without, the contrary of what the WebSocket handler does
and of what the names and messages say (`PROJECT.json`, `findings`).

**Bounds.** Two tabs race through one list of one user, and a third actor
adds no new kind of overwriting, because an update is lost between two; the
theorems of section 4 remove the bounds for every safety property of this module. A session's reuse
and a re-login while the first connection's cleanup is under way need two
connections of one tab, which the tabs of `PoolTabs` may also open. `Handler`
bounds the goroutines in flight and `MaxOpen` the editors opened; each
connection is used once. `RedisMayFail` and `MayStop` are on where a property is
claimed under them. Symmetry is used for safety only, over
connections, tabs, users, documents and goroutines, which the specification
never tells apart. Deadlock is not checked for the registry because a system whose
clients have all gone really stops.

One file is enough for `FileStore` and `HomeFiles`, whose requests touch one
file each. Three users are an owner, one who is shared with, and one more, so that a share
may fail between its users; two requests at a time overlap two changes, or a change and the reading of a list, and five
in all hold the creation, the loading of two lists, a share, and a
revocation or a deletion. More at a time is the theorem's (section 4). In the two runs of `EventRouting` a pump that is
busy anyway stands for the write of another event, so that one event is enough. `RoutingTabs` has the races of two
authentications and cleanups over a user's list; `RoutingDocs` the second document and the overlap of `joinFile` and `exitFile`,
which take two goroutines of one connection. These
behaviours end when their requests, connections and events are used up, so that
deadlock is not checked.

In `WsClient` two sockets are the current one and one that was left open, or whose end the server still keeps; a third
is like the second (a run of three with one timer, 2.8 million states, keeps the safety properties too). A socket that
both sides are done with is used again. Two attempts are a first and a last
one, between which the timer waits; the code makes four. One timer may be pending while a
login makes a new socket break and a second chain of attempts begins. Deadlock is checked, since a tab never stops: the user may always
reload. In `Sessions` a life time of one tick has every order of expiry, sweep and
renewal; a session and the token it renews need three ticks, and the third row shows what a session made
after a race looks like. One username is enough, since no statement touches
two. Its behaviours end at the last tick with all rows used, so that deadlock is not
checked. Handlers, passwords and agents are symmetric; the safety properties do not tell them apart.

**What the editor's runs show.** With the end digit at 3, two characters side
by side already have no room between them, so that paths of two, three and
four digits, the interesting part of `alloc`, appear from the second insertion
on. With leaves of 3, which begin with the two sentinels, the second character splits the first
leaf and the next ones split again; the code's leaves of 256 give the same trees for longer texts. Typing, and deleting while the tree has at most two leaves
(`DeletableLeaves`), keeps the two structures equal, and every character where it was
typed: the editor implements both the sequence on its own (`EditsAsLseq`) and a text
(`RefinesTextBuffer`). After such deletions the typing goes on to larger trees. Once an internal node
is a left child, which takes three leaves, deletions break this: `RopeTree.delete`
leaves the lengths of internal nodes as they were
(`RopeTree.service.ts:140`), and a later deletion finds another character than
the one at its position (`EditorDeleting`); and `insert` takes an emptied left
leaf for a place before everything (`RopeTree.service.ts:104`), which leaves
the tree unsorted (`EditorOrder`). Both are reported in `PROJECT.json` under
`findings`. `EditorDeleting` checks deadlock and has none: a deletion is always possible
there. In `EditorText` a behaviour ends when its insertions are used up in a tree of more
than two leaves, so that deadlock is not checked.

**Fairness.** `FairSpec` (run `PoolLive`): Weak fairness on every goroutine and
on every cleanup: the Go scheduler runs what can run, and no step of them
waits for another (Redis commands have timeouts). Weak fairness on `PumpExit`:
a peer that is gone is noticed at the latest at the read deadline
(`readTimeout`, 60 s). No fairness on what a client does.
`Fairness` of `WsClient`: weak fairness on the network's events of the current socket (the
browser reports in the end that a connection is open, or has failed or closed), and on the timers,
which fire; and on `ServerEnds` of a socket the tab has closed, which the deadline of the server's reads brings about
(`readTimeout`). None on the user, on other tabs, on the server, or on the reachability of the server, which
the liveness properties have as their premise.

## 4. The proofs

TLAPS checks the following for every value of the constants that the named
assumptions admit.

`SessionListProofs` has no theorem of its own but what both proofs about the
registry count with: `searchIndex` finds a session if and only if it occurs
(`SearchIndexIs`), appending a session adds one occurrence of it and
`WithoutSession` takes one away, and neither touches another session
(`OccursAppended`, `OccursWithout`). That the first of several occurrences exists
is the least-number principle, stated for sets (`LeastNumber`).

`ConnectionPoolProofs`:

- `TypeCorrect`: `Spec => []TypeOK`. One lemma per group of actions.
- `EvictionTheorem`: `Spec => []EvictedOnlyByOwnTab`. The property is not inductive:
  it says nothing of a connection whose authentication is between two steps.
  The inductive invariant `IInv` is `TypeOK` with `Bookkeeping` (a connection is
  assigned its own identity and no other, by the single auth goroutine it has; a
  connection before that is nobody and in no list), `ManagerKept` and
  `RedisKept` (an unrivalled connection whose authentication is past the step
  that stores its manager, or its hash, still has it). The step cases
  are: who can write the entry (`ManagersChange`, `RedisChange`), and that each
  such writer is either the connection itself or a rival of its tab, which the
  property excepts.

and, in its second part, from one more invariant, `ListsInv`:

- `UserListTheorem`: `Spec => []UserListExact`;
  `MisroutedTheorem`: `Spec => []MisroutedOnlyAfterRelogin`.
- `DocListTheorem`: `Spec => []DocListExact`; `LeftTheorem`: `Spec => []LeftForgotten`;
  `RedisSessionTheorem`: `Spec => []RedisSessionCurrent`.

`ListsInv` adds to `IInv` what is held between the Load and the Store of a list, which
is where each of these properties stops being inductive. `UserHeld`: a cleanup about
to store a user's list still has an entry of its connection to leave out, for otherwise it
would leave out nothing and be counted as done. `AllTidy`, for one connection at a time
(`Tidy`): the document and session its goroutines hold are the connection's (`DocHeld`);
where goroutines never overlapped there is at most one at a time, and none beside the late part of the
cleanup (`OneAtATime`), so that what it holds is still so when it stores (`FileHeld`); a tab that
has closed its editor has left the file of its connection or is leaving it (`NoJoin`,
`FileLeft`). `DocsExact` and `RedisFile` are `DocListExact` and `RedisSessionCurrent`
carried through the goroutines that are under way. An occurrence in a list is then
traded for a connection in a set: each step changes both by one, or neither.
`MisroutedOnlyAfterRelogin` follows from the lists alone: a session that is in the list
is owned by a registered connection that was not cleaned up; `LeftForgotten` from `DocsExact` and `FileLeft`. The three exceptions of the
properties, a lost update (`hist.lost`), a late authentication (`hist.late`) and overlapping
goroutines (`hist.tangled`), are where the proof uses them; section 3 says of each why the
code needs it.

`EventRoutingProofs`, for any number of connections, tabs, users, documents, goroutines and events:

- `RoutingTypeTheorem`: `RSpec => []RTypeOK`; `ListedTheorem`: `RSpec => []RoutedAsListed`.
- `OnceTheorem`: `RSpec => []OnceToItsTarget`; `GotOrMissedTheorem`: `RSpec => []GotOrMissed`.

The invariant `RIInv` contains `ListsInv`, which every step of the registry keeps by `ListsStep`, and says of each event
how far it has come and what that leaves to happen. `Flow`: it is routed here and then published, or waits
in the channel once (`ChannelOnce`), so that the second way cannot repeat the first. `Counted`: what was written to
a connection, its pump, the goroutines started for it and the entries of its tab still to be gone
through add up to the entries of the list that was loaded at most; `RoutedAsListed` follows. This needs that a session never
comes to lead to a connection of another tab, and that nothing leads to one that was not opened (`Unled`).
`LoadedOnce`: for a tab with one authenticated connection, and a list that
is exact for it, the list that was loaded had the tab once at most, and only if the connection was of the target. It is
established by `LoadIndex` from the registry's `Users` and `DocsExact` (`ListIsExact`) and stays, because the exceptions only grow
(`SoundBefore`). `OwedOK`: a connection that is owed an event is still connected, and has got it, has missed
it, or it is still to come (`Coming`). That `RouteEvent` finds the manager of such a connection is `ManagerKept` of the registry
(`LeadsHome`).

`LseqProofs`:

- `LseqTypeTheorem`: `Spec => []TypeOK`.
- `AllocBetween`: what `alloc` draws lies strictly between the two paths, for
  any depth its loop can stop at and any outcome of the random draw.
- `OrderTheorem`: `Spec => []AtomsOrdered`. The order of paths alone is not
  inductive: between `<<1>>` and `<<1, 0>>`, which are in order, `alloc` would
  draw `<<1, 0, 1>>` or the like, which is not between them. The invariant `AtomsPadded` says
  more: the lesser path, continued with zeros, has a lesser digit somewhere
  inside the greater one. No path that ends in a zero can then appear beside
  its own prefix.
- `TextTheorem`: `Spec => RefinesTextBuffer`, from the invariant: the place where
  `addAtom` puts an identifier drawn between two neighbours is the place
  between them, and `delete` finds the one atom that has the identifier.

`EditorProofs`, under the hypothesis `DeletableLeaves <= 2` (deletions come while the tree has at most two
leaves; insertions at any time) and for any length of a leaf, end digit, boundary and number of insertions:

- `TreeTheorem`: `EditorSpec => []TreeHoldsAtoms`.
- `EditorTheorem`: `EditorSpec => EditsAsLseq`, the refinement step by step.
- `EditorTextTheorem`: `EditorSpec => []TypeOK /\ []AtomsOrdered /\ RefinesTextBuffer`, which follows from
  `EditorTheorem` and the theorems of `LseqProofs`: what is proved of the sequence holds of the component.
- `SearchUsable`, on trees alone: a search in a usable tree ends at the identifier of its position, and the
  position before the first of a leaf is the last of the leaf before.

The hypothesis is not for the prover's convenience: `EditorDeleting` and `EditorOrder` show with a tree of three
leaves that the theorems fail without it. The inductive invariant `EInv` is that of the sequence
(`IInv`) with `TreeHoldsAtoms`, a height that the insertions made so far bound, and `Usable(root)`: the *subtrees* of the root
have the lengths they say (`Sound`), and the left one is not empty. Of the root itself it cannot say so, because a
deletion in a tree of two leaves leaves the root's length stale; what saves the editor is that a search reads the length
of left subtrees only, that a leaf counts its own identifiers, and that an insertion recomputes the root's
length before the root can become a subtree. The left leaf is never empty because it keeps the start sentinel, which
no caret is before. From there the proof has three parts. On trees: `InsertIdsFound`, which treats the edges of
leaves, where the neighbours are in two of them; `InsertTree` (an insertion between two neighbours puts the identifier
there, through every split) and `DeleteTree`. On the two structures: the identifier that `alloc` draws is between the
neighbours also in the order of the tree (`TreePaths`, `AllocBetween`). On a step: the choices of `Editor` are
choices of `Lseq` (`InsertsAsLseq`, `DeletesAsLseq`). That the recursive functions of `RopeTree` satisfy their equations is
proved too (`TreeOfIs`, `IdsOfIs`, `insertIs`, ...), by induction on the height stated for sets (`Upwards`), as is induction on
trees (`TreeInduction`).

`SessionsProofs`, in which handlers, users, agents, the clock and the number of rows are any:

- `TypeCorrect`: `Spec => []TypeOK`. That the identifier of a session is a key is part of it,
  because the update by identifier rests on it.
- `RegistrationsKept`: `Spec => []RegistrationKept`. The invariant adds `Registering`: a handler that
  still has to answer a registration has its own password in the account, because the index let it
  create the row, and no account that is there is written again.
- `OneSession`: `Spec => []OneSessionEach`. The invariant adds `Inserting`: while a handler is between
  look-up and insertion, the pair has no session and no other such handler, or has raced. This is where
  the history earns its place: without it nothing says that a row cannot appear between the two
  statements.
- `SessionsKept`: `Spec => []SessionKept`. The invariant adds `Updating`: the row a handler has found is
  still the pair's, or is gone, so that the update extends it or loses it and is remembered as `lost`.

`WsClientProofs`, in which users, sockets, attempts and timers are any number:

- `TypeCorrect`, `NoStrayTheorem`, `RightUserTheorem`: `Spec => []TypeOK`, `[]NoStray`, `[]RightUser`.

In the model as in the code a handler calls services that call services, so the proof follows the calls:
a lemma on each service says what it makes of any record of what the services keep (`Connects`,
`Disconnects`, `Replaces`, ...), and a step is proved from the services it calls. The
invariant is `IInv`, which has to speak of what is still under way: of the sockets no other than the
current one is connecting, and any other open one that is known to the server, or has asked to be, is
stray (`Behind`); what the current socket has asked for, and not only what it was granted, is for the
user of the tab (`Mine`). That `connect`
finds nothing to leave behind is shown for each caller (`Leavable`): the current socket has ended, or has
just been marked stray.

`HomeFilesProofs`, in which requests, files and users are any number and every
step may fail. Part 1, of the store:

- `StoreTypeTheorem`: `Spec => []TypeOK`.
- `OneOwnerTheorem`: `Spec => []OneOwner`.
- `DeletionTheorem`: `Spec => OnlyItsOwnerDeletes`. Neither property is inductive: a
  request reads in one statement and relies on it in the next. The invariant
  adds `Rows` (rows are about files that exist), and for each request that what
  it has read is still so: a file that is being made is nobody's and no other
  request is about it (`Made`), a request about to delete a file is its owner's
  or the file is gone, and one about to delete a row is about the row of
  somebody who is not the owner (`Entitled`). `OwnersKept` is the lemma most steps
  rest on: a step that makes and unmakes no owner, and adds rows only where
  there are some, keeps all of it. The theorems rest on what the client sends
  (section 2): that nobody asks to revoke an owner, above all.

Part 2, of the home pages on this store, which may lose notifications and answers:

- `HomeTypeTheorem`: `HomeSpec => []HomeTypeOK`.
- `ListTheorem`: `HomeSpec => []ListExact`. `ListExact` says nothing while something is on its
  way, and is then far from inductive. The invariant `HInv` says it of every pair of a user and a file
  whatever is on its way (`Synced`): that a departure still to be told is of a row that has gone
  (`ToldOut`); that an arrival still to be told is of a row that is there, that there is one such at most,
  and no list is being read meanwhile (`ToldIn`); that a file whose arrival is to be notified is not on the list
  yet, because the notification will add one (`NotYet`); that a list under way has read what the
  rows still say (`HasRead`); and that the list is exact otherwise (`Shown`). Every pair of a `broken` page is in `unsynced` until a list is
  being read (`Repaired`). Of a pair in `unsynced` it
  says nothing: the history gives up on a pair exactly when a change meets another that is still
  to be told or a list that is being read (`Crossed`), or when nobody is left to tell of it
  (`Lapsed`), and on all pairs of a page whose list could not be read or was cleared by a logout, and the next `SelectLinks` takes it back (`ReadSynced`). Most steps are `Quiet` for a pair, and the
  handlers are proved from what they do to their request (`Moves`) and what this tells the tab
  (`Fits`), with `ArrivalSynced` and `DepartureSynced` for a row that changes.
- `HomeStoreTheorem`: `HomeSpec => [](TypeOK /\ OneOwner)`, `HomeDeletionTheorem`:
  `HomeSpec => OnlyItsOwnerDeletes`. The tabs are one more client of the store, but for a deletion that goes
  on as a request for the list, which is no step of `FileStore` and keeps its invariant nonetheless.

The assumptions are those of the modules: the null values are none of the
values they stand beside (`PoolAssumption`, `StoreAssumption`, `SessionsAssumption`, which also has a
positive life time, and `ClientAssumption`, which also has a socket and an attempt), the end digit is at least 2
(`EndAssumption`; 10000000 in the code), the boundary is positive
(`LseqAssumption`; 1000 in the code), a leaf holds two identifiers at least (`LeafAssumption`; 256 in the
code).

Only model-checked: liveness (`DeadConnectionForgotten`, `Reconnects`, `LoggedOutQuiet`), which is out of the
prover's reach. Every safety property of a passing run is stated by a theorem. The exact way in which the three runs with an
expected violation fail is TLC's to show, too.

## 5. Not modelled

- Text contents, styles, layout, wording, logging, JSON.
- Torn reads of Go strings, and crashes of the process.
- The signature and the encoding of a JWT, the hash of a password: a token is who it is for and when it
  expires, and a token that nobody issued is refused before anything else.
- The varint conversion: nothing calls it but its unit tests, which cover the boundaries of its groups.
- The keyboard, the caret and the div of the editor. The browser applies a key to the div by itself, and
  the handlers of a key are one synchronous step; what the div then shows is no state of the code.
- What a tab does with a `file_event` (it goes to the home page, whatever file it shows) and which page a tab shows; that a tab
  does not repeat `joinFile` after a reconnection.
- Another user who logs in to a tab while its home page stays, and the search field of that page.
- The share popover's own lists (the names to share with, the users who have access) and its messages.
  What its requests do to the rows and to the lists of files is in `FileStore` and `HomeFiles`, where a
  share may name any users and a revocation any collaborator.
- The dialogs of login and register and the validation of their forms.
- `UpdateTimeFileController` and `DisconnectFromFile`, which no route reaches, and
  `GetSharedUserController` and the look-ups of `CreateUsernameController`, which only read.
- The order in which the server starts its parts, and its routes.
- Several replicas of a text: the code has no exchange of operations yet.

## 6. Plan

In this order; each extends what is there.

1. `SharePopover`: the verification of a name against a share under way, the answer 206 that closes the
   popover, on the rows of `FileStore`.
2. `HomeFiles` on `EventRouting`, in place of its own `mail`.
3. `WsClient` on `Sessions` and `ConnectionPool`: the verdicts that `WsClient` leaves open, the documents of a tab, several tabs.

Nothing that the runs check and the prover can reach is left to prove; a new module of this plan brings
its own theorems. Liveness stays with TLC (section 4).
