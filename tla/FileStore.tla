------------------------------ MODULE FileStore ------------------------------
(***************************************************************************)
(* Files and who has them: the handlers of                                 *)
(* src/backEnd/internal/app/File/controller.go over the tables files and   *)
(* users_files.  A request is a process; one SQL statement is one atomic   *)
(* step (no handler opens a transaction around two of them), and between   *)
(* two steps the other requests run.  A statement or a publication may     *)
(* fail, for instance because the client has gone and the request's        *)
(* context is cancelled.                                                   *)
(*                                                                         *)
(* The verdict on the token comes first in every handler and changes no    *)
(* row: a request that it ends is one that was never begun here.  The      *)
(* requests are those the client application sends: about a file that was  *)
(* on the requester's list at some time (lists may be stale), and never to *)
(* revoke an owner, for whom the share popover has no button.              *)
(***************************************************************************)
EXTENDS Naturals

CONSTANTS
    User,          \* user identifiers (accounts are never deleted)
    File,          \* file UUIDs
    Request,       \* requests being served at a time: bounds their number
    NoUser, NoFile,
    MayFail,       \* whether statements and publications may fail
    MaxRequests    \* bound on the requests of a behaviour

ASSUME StoreAssumption ==
    /\ NoUser \notin User /\ NoFile \notin File
    /\ MayFail \in BOOLEAN
    /\ MaxRequests \in Nat

VARIABLES
    files,         \* the rows of files
    role,          \* the rows of users_files: role[f][u], "None" without one
    req,           \* the requests
    mail,          \* notifications on their way: mail[u][f][kind] of them
    met,           \* the pairs that had a row at some time
    issued         \* the number of requests so far (for MaxRequests)

storeVars == <<files, role, req, mail, met, issued>>

Role == {"None", "Owner", "Collaborator"}
Kind == {"file_shared", "file_revoke"}
Linked(u, f) == role[f][u] # "None"

\* A request: its program counter, the requester, the file, the users whose
\* rows are still to be created or who are still to be told (todo), those
\* whose rows it changed and whom it has not told (owed), what it selected
\* (found), and whether its answer is a success (ok).
Idle == [pc |-> "idle", user |-> NoUser, file |-> NoFile, todo |-> {},
         owed |-> {}, found |-> {}, ok |-> FALSE]
PC == {"idle", "insertFile", "insertOwner", "findLink", "deleteFile",
       "publishDeleted", "deleteLink", "findFile", "addLinks", "notify",
       "removeLink", "revoke", "selectLinks", "selectFiles",
       "created", "deleted", "done", "listed"}
Answered == {"created", "deleted", "done", "listed"}

Init ==
    /\ files = {}
    /\ role = [f \in File |-> [u \in User |-> "None"]]
    /\ req = [r \in Request |-> Idle]
    /\ mail = [u \in User |-> [f \in File |-> [k \in Kind |-> 0]]]
    /\ met = {}
    /\ issued = 0

-----------------------------------------------------------------------------
(* Requests and their steps.                                               *)

Begin(r, pc, u, f, vs) ==
    /\ req[r].pc = "idle" /\ issued < MaxRequests
    /\ issued' = issued + 1
    /\ req' = [req EXCEPT ![r] = [Idle EXCEPT !.pc = pc, !.user = u,
                                              !.file = f, !.todo = vs]]
    /\ UNCHANGED <<files, role, mail, met>>

Goto(r, pc) == req' = [req EXCEPT ![r].pc = pc]
\* c.JSON: the handler has answered; `end` names what the client asked for.
AnswerOK(r, end) ==
    req' = [req EXCEPT ![r].pc = end, ![r].ok = TRUE, ![r].owed = {}]
AnswerError(r, end) ==
    req' = [req EXCEPT ![r].pc = end, ![r].owed = {}]

\* The error branch of a statement: it changed nothing.
StatementFails(r, end) ==
    /\ MayFail
    /\ AnswerError(r, end)
    /\ UNCHANGED <<files, role, mail, met, issued>>

\* routeToUser hands the notification to the local connections before PubRedis
\* may fail; how it reaches a tab is left to the network.
Routed(u, f, kind) == mail' = [mail EXCEPT ![u][f][kind] = @ + 1]

\* A uuidv4 of createFile that nobody has ever seen.
Fresh(f) ==
    /\ f \notin files
    /\ \A r \in Request : req[r].file # f
    /\ \A u \in User : <<u, f>> \notin met

-----------------------------------------------------------------------------
(* CreateFileController.                                                   *)

CreateFile(r, u, f) == Fresh(f) /\ Begin(r, "insertFile", u, f, {})

InsertFile(r) ==
    /\ req[r].pc = "insertFile"
    /\ \/ /\ req[r].file \notin files
          /\ files' = files \cup {req[r].file}
          /\ Goto(r, "insertOwner")
          /\ UNCHANGED <<role, mail, met, issued>>
       \/ StatementFails(r, "created")

\* The row's role left empty.
InsertWithoutRole(r) ==
    LET u == req[r].user
        f == req[r].file
    IN  /\ req[r].pc = "insertOwner"
        /\ role' = [role EXCEPT ![f][u] = ""]
        /\ met' = met \cup {<<u, f>>}
        /\ AnswerOK(r, "created")
        /\ UNCHANGED <<files, mail, issued>>

\* The file and the user that were just selected are saved with the row
\* (ON CONFLICT DO NOTHING).  The selects themselves may fail as well.
InsertOwner(r) ==
    LET u == req[r].user
        f == req[r].file
    IN  /\ req[r].pc = "insertOwner"
        /\ \/ /\ f \in files /\ ~Linked(u, f)
              /\ role' = [role EXCEPT ![f][u] = "Owner"]
              /\ met' = met \cup {<<u, f>>}
              /\ AnswerOK(r, "created")
              /\ UNCHANGED <<files, mail, issued>>
           \/ /\ f \notin files \/ Linked(u, f) \/ MayFail
              /\ AnswerError(r, "created")
              /\ UNCHANGED <<files, role, mail, met, issued>>

-----------------------------------------------------------------------------
(* DeleteFileController.                                                   *)

DeleteFile(r, u, f) == <<u, f>> \in met /\ Begin(r, "findLink", u, f, {})

\* Any row will do.
FindLinkOfAnyRole(r) ==
    /\ req[r].pc = "findLink"
    /\ Linked(req[r].user, req[r].file)
    /\ Goto(r, "deleteFile")
    /\ UNCHANGED <<files, role, mail, met, issued>>

FindLink(r) ==
    LET found == role[req[r].file][req[r].user]
    IN  /\ req[r].pc = "findLink"
        /\ \/ found = "Owner" /\ Goto(r, "deleteFile")
           \/ found = "Collaborator" /\ Goto(r, "deleteLink")
           \/ found = "None" /\ AnswerError(r, "deleted")
           \/ MayFail /\ AnswerError(r, "deleted")
        /\ UNCHANGED <<files, role, mail, met, issued>>

\* The rows of users_files go with the row of files (ON DELETE CASCADE); no
\* row to delete is not an error.
DeleteFileRow(r) ==
    LET f == req[r].file
    IN  /\ req[r].pc = "deleteFile"
        /\ \/ /\ files' = files \ {f}
              /\ role' = [role EXCEPT ![f] = [u \in User |-> "None"]]
              /\ Goto(r, "publishDeleted")
              /\ UNCHANGED <<mail, met, issued>>
           \/ StatementFails(r, "deleted")

\* file_deleted goes to the tabs that have the document open, which are not
\* the lists of files.  When it cannot be published, the answer is 403.
PublishFileDeleted(r) ==
    /\ req[r].pc = "publishDeleted"
    /\ AnswerOK(r, "deleted") \/ (MayFail /\ AnswerError(r, "deleted"))
    /\ UNCHANGED <<files, role, mail, met, issued>>

\* The row is deleted whatever has become of it since FindLink.
DeleteLink(r) ==
    /\ req[r].pc = "deleteLink"
    /\ \/ /\ role' = [role EXCEPT ![req[r].file][req[r].user] = "None"]
          /\ AnswerOK(r, "deleted")
          /\ UNCHANGED <<files, mail, met, issued>>
       \/ StatementFails(r, "deleted")

-----------------------------------------------------------------------------
(* ShareFileController.                                                    *)

ShareFile(r, u, f, vs) ==
    /\ <<u, f>> \in met /\ vs # {} /\ u \notin vs
    /\ Begin(r, "findFile", u, f, vs)

FindFile(r) ==
    /\ req[r].pc = "findFile"
    /\ \/ req[r].file \in files /\ Goto(r, "addLinks")
       \/ /\ req[r].file \notin files \/ MayFail
          /\ AnswerError(r, "done")
    /\ UNCHANGED <<files, role, mail, met, issued>>

\* One row after the other.  The first that cannot be created, because it is
\* there (primary key), the file is gone (foreign key) or the database fails,
\* ends the request: the rows created before it stay and nobody is told.
AddLink(r) ==
    LET f == req[r].file
    IN  /\ req[r].pc = "addLinks"
        /\ \E u \in req[r].todo :
             \/ /\ f \in files /\ ~Linked(u, f)
                /\ role' = [role EXCEPT ![f][u] = "Collaborator"]
                /\ met' = met \cup {<<u, f>>}
                /\ req' = [req EXCEPT ![r].todo = @ \ {u},
                                      ![r].owed = @ \cup {u}]
                /\ UNCHANGED <<files, mail, issued>>
             \/ /\ f \notin files \/ Linked(u, f) \/ MayFail
                /\ AnswerError(r, "done")
                /\ UNCHANGED <<files, role, mail, met, issued>>

\* The rows are all there: userIDs is gone through once more.
AllLinked(r) ==
    /\ req[r].pc = "addLinks" /\ req[r].todo = {}
    /\ req' = [req EXCEPT ![r].pc = "notify", ![r].todo = req[r].owed]
    /\ UNCHANGED <<files, role, mail, met, issued>>

\* PublishUserSharedNotification: a user is routed the notification even when
\* publishing it fails, but then the users after him get none.
NotifyShared(r) ==
    /\ req[r].pc = "notify"
    /\ \E u \in req[r].todo :
         /\ Routed(u, req[r].file, "file_shared")
         /\ \/ req' = [req EXCEPT ![r].todo = @ \ {u}, ![r].owed = @ \ {u}]
            \/ MayFail /\ AnswerError(r, "done")
    /\ UNCHANGED <<files, role, met, issued>>

AllNotified(r) ==
    /\ req[r].pc = "notify" /\ req[r].todo = {}
    /\ AnswerOK(r, "done")
    /\ UNCHANGED <<files, role, mail, met, issued>>

-----------------------------------------------------------------------------
(* RemovedUserController.                                                  *)

RemoveAccess(r, u, f, v) ==
    /\ <<u, f>> \in met /\ <<v, f>> \in met
    /\ v # u /\ role[f][v] # "Owner"
    /\ Begin(r, "removeLink", u, f, {v})

RemoveLink(r) ==
    LET f == req[r].file
    IN  /\ req[r].pc = "removeLink"
        /\ \E v \in req[r].todo :
             \/ /\ Linked(v, f)
                /\ role' = [role EXCEPT ![f][v] = "None"]
                /\ req' = [req EXCEPT ![r].pc = "revoke", ![r].owed = {v}]
                /\ UNCHANGED <<files, mail, met, issued>>
             \/ /\ ~Linked(v, f) \/ MayFail
                /\ AnswerError(r, "done")
                /\ UNCHANGED <<files, role, mail, met, issued>>

\* The user is selected again before he is told: when that fails he is not,
\* when the publication does he is.
NotifyRevoked(r) ==
    /\ req[r].pc = "revoke"
    /\ \/ /\ \E v \in req[r].owed : Routed(v, req[r].file, "file_revoke")
          /\ AnswerOK(r, "done") \/ (MayFail /\ AnswerError(r, "done"))
          /\ UNCHANGED <<files, role, met, issued>>
       \/ StatementFails(r, "done")

-----------------------------------------------------------------------------
(* GetFileController: the rows of users_files, then those of files.        *)

GetFiles(r, u) == Begin(r, "selectLinks", u, NoFile, {})

SelectLinks(r) ==
    /\ req[r].pc = "selectLinks"
    /\ \/ req' = [req EXCEPT
                    ![r].pc = "selectFiles",
                    ![r].found = {f \in File : Linked(req[r].user, f)}]
       \/ MayFail /\ AnswerError(r, "listed")
    /\ UNCHANGED <<files, role, mail, met, issued>>

SelectFiles(r) ==
    /\ req[r].pc = "selectFiles"
    /\ \/ req' = [req EXCEPT ![r].pc = "listed", ![r].ok = TRUE,
                             ![r].found = @ \cap files]
       \/ MayFail /\ AnswerError(r, "listed")
    /\ UNCHANGED <<files, role, mail, met, issued>>

-----------------------------------------------------------------------------
(* The client's end: an answer, a notification.                            *)

TakeAnswer(r) ==
    /\ req[r].pc \in Answered
    /\ req' = [req EXCEPT ![r] = Idle]
    /\ UNCHANGED <<files, role, mail, met, issued>>

\* A notification leaves the network, delivered or lost, in any order.
Deliver(u, f, kind) ==
    /\ mail[u][f][kind] > 0
    /\ mail' = [mail EXCEPT ![u][f][kind] = @ - 1]
    /\ UNCHANGED <<files, role, req, met, issued>>

Create(r) == InsertFile(r) \/ InsertOwner(r)
Delete(r) == FindLink(r) \/ DeleteFileRow(r) \/ PublishFileDeleted(r)
             \/ DeleteLink(r)
Share(r) == FindFile(r) \/ AddLink(r) \/ AllLinked(r) \/ NotifyShared(r)
            \/ AllNotified(r)
Remove(r) == RemoveLink(r) \/ NotifyRevoked(r)
Get(r) == SelectLinks(r) \/ SelectFiles(r)
Serve(r) == Create(r) \/ Delete(r) \/ Share(r) \/ Remove(r) \/ Get(r)

Next ==
    \/ \E r \in Request :
         \/ Serve(r) \/ TakeAnswer(r)
         \/ \E u \in User :
              \/ GetFiles(r, u)
              \/ \E f \in File :
                   \/ CreateFile(r, u, f) \/ DeleteFile(r, u, f)
                   \/ \E vs \in SUBSET User : ShareFile(r, u, f, vs)
                   \/ \E v \in User : RemoveAccess(r, u, f, v)
    \/ \E u \in User, f \in File, kind \in Kind : Deliver(u, f, kind)

Spec == Init /\ [][Next]_storeVars

-----------------------------------------------------------------------------
(* Properties.                                                             *)

TypeOK ==
    /\ files \subseteq File
    /\ role \in [File -> [User -> Role]]
    /\ req \in [Request -> [pc : PC, user : User \cup {NoUser},
                            file : File \cup {NoFile}, todo : SUBSET User,
                            owed : SUBSET User, found : SUBSET File,
                            ok : BOOLEAN]]
    /\ mail \in [User -> [File -> [Kind -> Nat]]]
    /\ met \subseteq User \X File
    /\ issued \in 0..MaxRequests

(* Once its creation has succeeded, a file has exactly one owner for as    *)
(* long as it exists, and a file that does not exist has no rows, whatever *)
(* requests share it, revoke it, delete it or fail in between              *)
(* (CreateFileController:83-90, ShareFileController:223-234).              *)
Owners(f) == {u \in User : role[f][u] = "Owner"}
OneOwner == \A f \in File :
    IF f \in files
    THEN (\E u \in User : <<u, f>> \in met) =>
             \E owner \in User : Owners(f) = {owner}
    ELSE \A u \in User : ~Linked(u, f)

(* DeleteFileController reads the requester's role in one statement and    *)
(* deletes the file in another: still, a file is only ever deleted while   *)
(* the requester is its owner (controller.go:138-146).                     *)
OnlyItsOwnerDeletes ==
    [][\A f \in files \ files' : \E r \in Request :
          /\ req[r].pc = "deleteFile" /\ req[r].file = f
          /\ role[f][req[r].user] = "Owner"]_storeVars
=============================================================================
