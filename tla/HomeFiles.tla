------------------------------ MODULE HomeFiles ------------------------------
(***************************************************************************)
(* The list of files on a user's home page                                 *)
(* (src/frontEnd/src/app/features/components/home/home.component.ts)       *)
(* against the rows of the server: FileStore with one tab per user.  The   *)
(* list is replaced by the answers of getFiles, which ngOnInit, a deletion *)
(* and every later login ask for, and patched by the notifications, which  *)
(* arrive in any order and may be lost.  The search field is left empty,   *)
(* and nobody else logs in to the tab.                                     *)
(***************************************************************************)
EXTENDS FileStore

CONSTANTS
    Unloaded,      \* filteredFiles is undefined: no list is shown
    MayDrop        \* whether notifications and answers may be lost

ASSUME HomeAssumption == Unloaded \notin [File -> Nat] /\ MayDrop \in BOOLEAN

VARIABLES
    home,          \* the users whose tab shows the home page
    out,           \* those of them who are logged out
    list,          \* filteredFiles: how many times it shows each file
    broken,        \* where userfiles is undefined: the last answer was an error
    orphans,       \* requests of components that are destroyed since
    unsynced       \* history: pairs <<u, f>> on which the list may be wrong

tabs == <<home, out, list, broken, orphans>>
vars == <<storeVars, tabs, unsynced>>

HomeInit ==
    /\ Init
    /\ home = {}
    /\ out = {}
    /\ list = [u \in User |-> Unloaded]
    /\ broken = {}
    /\ orphans = {}
    /\ unsynced = {}

-----------------------------------------------------------------------------
(* What the list cannot know: a row has changed and the tab is still to be *)
(* told, by a notification or by the answer to its own request; or the     *)
(* rows were read for a list that has not arrived.                         *)

OfTab(u, r) == req[r].user = u /\ r \notin orphans
Untold(u, f) ==
    \/ \E kind \in Kind : mail[u][f][kind] > 0
    \/ \E r \in Request : req[r].file = f /\
         \/ u \in req[r].owed
         \/ OfTab(u, r) /\ req[r].pc = "publishDeleted"
         \/ OfTab(u, r) /\ req[r].pc \in {"created", "deleted"} /\ req[r].ok
Reading(u, r) == OfTab(u, r) /\ req[r].pc \in {"selectFiles", "listed"}
Loading(u, r) ==
    Reading(u, r) \/ (OfTab(u, r) /\ req[r].pc = "selectLinks")
Changed(u, f) == Linked(u, f) # (role'[f][u] # "None")

\* The row changes while an earlier change is still to be told or a list is
\* on its way; or nobody is left to tell of it.
Crossed == {p \in User \X File :
    /\ Changed(p[1], p[2])
    /\ Untold(p[1], p[2]) \/ \E r \in Request : Reading(p[1], r)}
Lapsed == {p \in User \X File :
    /\ Untold(p[1], p[2]) \/ Changed(p[1], p[2])
    /\ ~Untold(p[1], p[2])'}

\* The rows read for a list are the truth, except on what is still to be
\* told, unless an older list of the same tab is on its way.
Resynced(u, r) ==
    IF OfTab(u, r) /\ ~\E q \in Request \ {r} : Reading(u, q)
    THEN {u} \X {f \in File : ~Untold(u, f)}
    ELSE {}
Muddled(u) == {u} \X {f \in File : Untold(u, f)}

-----------------------------------------------------------------------------
(* The server.                                                             *)

ServerStep(r) ==
    /\ \/ Create(r) \/ Delete(r) \/ Share(r) \/ Remove(r) \/ SelectFiles(r)
    /\ UNCHANGED tabs
    /\ unsynced' = unsynced \cup Crossed \cup Lapsed

ReadLinks(r) ==
    LET u == req[r].user
    IN  /\ SelectLinks(r)
        /\ UNCHANGED tabs
        /\ unsynced' = (unsynced \ Resynced(u, r)) \cup Muddled(u)

-----------------------------------------------------------------------------
(* The buttons.                                                            *)

\* ngOnInit, after any other route.  The last notification, replayed by the
\* BehaviorSubject, finds no list to patch.
Arrive(u, r) ==
    /\ u \notin home
    /\ GetFiles(r, u)
    /\ home' = home \cup {u}
    /\ UNCHANGED <<out, list, broken, orphans, unsynced>>

\* isLoggedIn() emits again, after another login or with a renewed token.
\* The components that were destroyed ask as well, for lists nobody sees.
LoggedIn(u, r) ==
    /\ u \in home
    /\ GetFiles(r, u)
    /\ out' = out \ {u}
    /\ UNCHANGED <<home, list, broken, orphans, unsynced>>

\* The button of the page, and clearClass.
Logout(u) ==
    /\ u \in home \ out
    /\ out' = out \cup {u}
    /\ list' = [list EXCEPT ![u] = [f \in File |-> 0]]
    /\ broken' = broken \ {u}
    /\ unsynced' = unsynced \cup ({u} \X File)
    /\ UNCHANGED <<storeVars, home, orphans>>

\* The session has ended, or the websocket has been given up: the page and
\* its list stay, under the modal that asks to log in.
LoggedOut(u) ==
    /\ u \in home \ out
    /\ out' = out \cup {u}
    /\ UNCHANGED <<storeVars, home, list, broken, orphans, unsynced>>

\* The component's list outlives it.
LeaveKeepsList(u) ==
    /\ home' = home \ {u}
    /\ broken' = broken \ {u}
    /\ orphans' = orphans \cup {r \in Request : req[r].user = u}
    /\ UNCHANGED <<out, list>>

\* editFile: the component is destroyed with its list and its subscriptions.
Leave(u) ==
    /\ home' = home \ {u}
    /\ list' = [list EXCEPT ![u] = Unloaded]
    /\ broken' = broken \ {u}
    /\ UNCHANGED out
    /\ orphans' = orphans \cup {r \in Request : req[r].user = u}

EditFile(u) ==
    /\ u \in home \ out
    /\ list[u] # Unloaded /\ \E f \in File : list[u][f] > 0
    /\ Leave(u)
    /\ UNCHANGED storeVars
    /\ unsynced' = unsynced \cup Lapsed

\* createFile and deleteFile; and the popover, which may be older than the
\* list.  What a page sends that is logged out is refused by the server.
Click(u, r) ==
    /\ u \in home \ out
    /\ \E f \in File :
         \/ CreateFile(r, u, f)
         \/ list[u] # Unloaded /\ list[u][f] > 0 /\ DeleteFile(r, u, f)
         \/ \E vs \in SUBSET User : ShareFile(r, u, f, vs)
         \/ \E v \in User : RemoveAccess(r, u, f, v)
    /\ UNCHANGED <<tabs, unsynced>>

-----------------------------------------------------------------------------
(* Answers and notifications.                                              *)

\* handleError: a verdict of 401 or 409 logs out, any other error does not.
MayLogOut(r) ==
    \/ UNCHANGED out
    \/ ~req[r].ok /\ out' = out \cup ({req[r].user} \cap home)

\* files(): the answer becomes the list.
TakeList(r) ==
    LET u == req[r].user
    IN  /\ req[r].pc = "listed" /\ req[r].ok
        /\ TakeAnswer(r)
        /\ IF r \in orphans THEN UNCHANGED <<list, broken>> ELSE
             /\ list' = [list EXCEPT ![u] =
                   [f \in File |-> IF f \in req[r].found THEN 1 ELSE 0]]
             /\ broken' = broken \ {u}
        /\ orphans' = orphans \ {r}
        /\ UNCHANGED <<home, out, unsynced>>

\* An error, or no answer: userfiles is undefined from now on, but the page
\* goes on showing the list it had.
MissList(r) ==
    LET u == req[r].user
    IN  /\ req[r].pc = "listed" /\ (~req[r].ok \/ MayDrop)
        /\ TakeAnswer(r)
        /\ IF r \in orphans THEN UNCHANGED <<broken, unsynced>> ELSE
             /\ broken' = broken \cup {u}
             /\ unsynced' = unsynced \cup ({u} \X File)
        /\ orphans' = orphans \ {r}
        /\ MayLogOut(r)
        /\ UNCHANGED <<home, list>>

\* createFile: navigateToFile, wherever the tab is by now.
TakeCreated(r) ==
    LET u == req[r].user
    IN  /\ req[r].pc = "created" /\ req[r].ok /\ u \notin out
        /\ TakeAnswer(r)
        /\ home' = home \ {u}
        /\ list' = [list EXCEPT ![u] = Unloaded]
        /\ broken' = broken \ {u}
        /\ orphans' = (orphans \cup {q \in Request : req[q].user = u}) \ {r}
        /\ UNCHANGED out
        /\ unsynced' = unsynced \cup Lapsed

\* The list is left as it is.
TakeDeletedOnly(r) ==
    /\ req[r].pc = "deleted" /\ req[r].ok /\ r \notin orphans
    /\ TakeAnswer(r)
    /\ UNCHANGED <<tabs, unsynced>>

\* deleteFile: the list is asked for again, by the component that deleted;
\* without a token the server refuses it.
TakeDeleted(r) ==
    LET u == req[r].user
    IN  /\ req[r].pc = "deleted" /\ req[r].ok /\ r \notin orphans
        /\ req' = [req EXCEPT ![r] = [Idle EXCEPT
                     !.pc = IF u \in out THEN "listed" ELSE "selectLinks",
                     !.user = u]]
        /\ unsynced' = IF u \in out THEN unsynced \cup ({u} \X File)
                       ELSE unsynced
        /\ UNCHANGED <<files, role, mail, met, issued, tabs>>

\* Errors, the answers to the popover, answers that got lost, and a created
\* file that AuthGuard keeps a logged out tab from opening.
TakeOther(r) ==
    /\ \/ req[r].pc = "done"
       \/ req[r].pc \in {"created", "deleted"} /\ ~req[r].ok
       \/ req[r].pc = "created" /\ req[r].user \in out
       \/ req[r].pc = "deleted" /\ r \in orphans
       \/ MayDrop /\ req[r].pc \in {"created", "deleted"}
    /\ TakeAnswer(r)
    /\ orphans' = orphans \ {r}
    /\ unsynced' = unsynced \cup Lapsed
    /\ MayLogOut(r)
    /\ UNCHANGED <<home, list, broken>>

\* handleFileNotification patches userfiles when it is there; a home page
\* that is not shown has no subscription.
HandleFileNotification(u, f, kind) ==
    /\ Deliver(u, f, kind)
    /\ list' = IF list[u] = Unloaded \/ u \in broken THEN list ELSE
               [list EXCEPT ![u][f] = IF kind = "file_shared" THEN @ + 1
                                      ELSE 0]
    /\ UNCHANGED <<home, out, broken, orphans, unsynced>>

\* A connection that is down or busy, or closed by the logout: nobody sends
\* the notification again.
LoseNotification(u, f, kind) ==
    /\ MayDrop \/ u \in out
    /\ Deliver(u, f, kind)
    /\ unsynced' = unsynced \cup {<<u, f>>}
    /\ UNCHANGED tabs

HomeNext ==
    \/ \E r \in Request :
         \/ ServerStep(r) \/ ReadLinks(r)
         \/ TakeList(r) \/ MissList(r)
         \/ TakeCreated(r) \/ TakeDeleted(r) \/ TakeOther(r)
    \/ \E u \in User :
         \/ EditFile(u) \/ Logout(u) \/ LoggedOut(u)
         \/ \E r \in Request : Arrive(u, r) \/ LoggedIn(u, r) \/ Click(u, r)
         \/ \E f \in File, kind \in Kind :
              \/ HandleFileNotification(u, f, kind)
              \/ LoseNotification(u, f, kind)

HomeSpec == HomeInit /\ [][HomeNext]_vars

-----------------------------------------------------------------------------
(* Properties.                                                             *)

\* Every variable of the tabs has its type; TypeOK is of the store.
HomeTypeOK ==
    /\ home \subseteq User
    /\ out \subseteq home /\ broken \subseteq home
    /\ list \in [User -> [File -> Nat] \cup {Unloaded}]
    /\ \A u \in User : list[u] # Unloaded => u \in home
    /\ orphans \subseteq {r \in Request : req[r].pc # "idle"}
    /\ unsynced \subseteq User \X File

(* The list a page shows has every file of the user once and no other      *)
(* file, when nothing about the file is on its way, except after one of    *)
(* these: two changes of his access, or one and the reading of his list,   *)
(* overlapped; nobody told him (a share that failed for a later user, a    *)
(* file deleted by its owner, a failed delete that had taken effect); what *)
(* should have told him was lost; he logged out; or the list could not be  *)
(* read, when the page keeps the old one for good.  Any list read          *)
(* afterwards repairs it (home.component.ts:36-49, 100-112, 138-173).      *)
ListExact == \A u \in User, f \in File :
    \/ list[u] = Unloaded
    \/ Untold(u, f) \/ \E r \in Request : Loading(u, r)
    \/ <<u, f>> \in unsynced
    \/ list[u][f] = IF Linked(u, f) THEN 1 ELSE 0
=============================================================================
