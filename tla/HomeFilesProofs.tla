-------------------------- MODULE HomeFilesProofs ---------------------------
(***************************************************************************)
(* Theorems about FileStore and HomeFiles, for any sets of users, files    *)
(* and requests.  Part 1: the rows and the requests keep their types, a    *)
(* file has exactly one owner, and only this owner deletes it.  Part 2:    *)
(* all this, with the home pages as the clients; and a list of files is    *)
(* exact when nothing is on its way, but for what its history says.        *)
(***************************************************************************)
EXTENDS HomeFiles, TLAPS

(***************************************************************************)
(* Part 1: the store, under the specification of FileStore.                *)
(*                                                                         *)
(* The invariant.  OneOwner alone is not inductive: a request reads a role *)
(* in one statement and relies on it in the next.                          *)
(***************************************************************************)
Making == {"insertFile", "insertOwner"}
Using  == {"findLink", "deleteFile", "publishDeleted", "deleteLink",
           "findFile", "addLinks", "notify", "removeLink", "revoke"}

\* Rows are about files that exist, and met remembers them.
Rows == \A u \in User, f \in File :
    Linked(u, f) => f \in files /\ <<u, f>> \in met

\* A file that is being made is nobody's yet, and no other request is about it.
Made(r) == req[r].pc \in Making =>
    /\ req[r].user \in User /\ req[r].file \in File
    /\ \A u \in User : <<u, req[r].file>> \notin met
    /\ \A q \in Request : req[q].file = req[r].file => q = r

\* The other requests are about files their requesters have had.
Used(r) == req[r].pc \in Using => <<req[r].user, req[r].file>> \in met

\* What a request found out about roles when it read them stays true.
Entitled(r) ==
    LET f == req[r].file
        u == req[r].user
    IN  /\ req[r].pc = "deleteFile" /\ f \in files => role[f][u] = "Owner"
        /\ req[r].pc = "deleteLink" => role[f][u] # "Owner"
        /\ req[r].pc = "removeLink" =>
              \A v \in req[r].todo : <<v, f>> \in met /\ role[f][v] # "Owner"

Sound(r) == Made(r) /\ Used(r) /\ Entitled(r)
IInv == TypeOK /\ Rows /\ OneOwner /\ \A r \in Request : Sound(r)

-----------------------------------------------------------------------------
(***************************************************************************)
(* Type correctness.                                                       *)
(***************************************************************************)
ReqState == [pc : PC, user : User \cup {NoUser}, file : File \cup {NoFile},
             todo : SUBSET User, owed : SUBSET User, found : SUBSET File,
             ok : BOOLEAN]

\* One step of a request: it is about the same file for the same user.
Advances(r, pc) ==
    /\ req' \in [Request -> ReqState]
    /\ \A q \in Request \ {r} : req'[q] = req[q]
    /\ req'[r].pc = pc
    /\ req'[r].user = req[r].user
    /\ req'[r].file = req[r].file

\* A slot that is free has the type of a request.
LEMMA IdleType == Idle \in ReqState
  BY DEF Idle, ReqState, PC

\* Replacing what a request keeps by values of the same types is such a step.
LEMMA UpdateAdvances ==
    ASSUME req \in [Request -> ReqState],
           NEW r \in Request, NEW q \in ReqState,
           req' = [req EXCEPT ![r] = q],
           q.user = req[r].user, q.file = req[r].file
    PROVE  Advances(r, q.pc)
  BY DEF Advances

\* Going on to the next statement is such a step.
LEMMA GotoAdvances ==
    ASSUME TypeOK, NEW r \in Request, NEW pc \in PC, Goto(r, pc)
    PROVE  Advances(r, pc)
<1> DEFINE q == [req[r] EXCEPT !.pc = pc]
<1>1. req \in [Request -> ReqState]
  BY DEF TypeOK, ReqState
<1>2. /\ q \in ReqState /\ q.pc = pc
      /\ q.user = req[r].user /\ q.file = req[r].file
  BY <1>1 DEF ReqState
<1>3. req' = [req EXCEPT ![r] = q]
  BY DEF Goto
<1> HIDE DEF q
<1> QED BY <1>1, <1>2, <1>3, UpdateAdvances

\* So is an answer.
LEMMA AnswerAdvances ==
    ASSUME TypeOK, NEW r \in Request, NEW pc \in PC,
           AnswerOK(r, pc) \/ AnswerError(r, pc)
    PROVE  Advances(r, pc)
<1>1. req \in [Request -> ReqState]
  BY DEF TypeOK, ReqState
<1>2. CASE AnswerOK(r, pc)
  <2> DEFINE q == [req[r] EXCEPT !.pc = pc, !.ok = TRUE, !.owed = {}]
  <2>1. q \in ReqState /\ q.user = req[r].user /\ q.file = req[r].file
        /\ q.pc = pc
    BY <1>1 DEF ReqState
  <2>2. req' = [req EXCEPT ![r] = q]
    BY <1>1, <1>2 DEF AnswerOK
  <2> HIDE DEF q
  <2> QED BY <1>1, <2>1, <2>2, UpdateAdvances
<1>3. CASE AnswerError(r, pc)
  <2> DEFINE q == [req[r] EXCEPT !.pc = pc, !.owed = {}]
  <2>1. q \in ReqState /\ q.user = req[r].user /\ q.file = req[r].file
        /\ q.pc = pc
    BY <1>1 DEF ReqState
  <2>2. req' = [req EXCEPT ![r] = q]
    BY <1>1, <1>3 DEF AnswerError
  <2> HIDE DEF q
  <2> QED BY <1>1, <2>1, <2>2, UpdateAdvances
<1> QED BY <1>2, <1>3

\* The steps that change what the request keeps, besides its program counter.
LEMMA NotesAdvance ==
    ASSUME TypeOK, NEW r \in Request, NEW todo \in SUBSET User,
           NEW owed \in SUBSET User, NEW found \in SUBSET File
    PROVE  /\ req' = [req EXCEPT ![r].todo = todo, ![r].owed = owed]
                => Advances(r, req[r].pc)
           /\ \A pc \in PC :
                 req' = [req EXCEPT ![r].pc = pc, ![r].todo = todo]
                   => Advances(r, pc)
           /\ \A pc \in PC :
                 req' = [req EXCEPT ![r].pc = pc, ![r].owed = owed]
                   => Advances(r, pc)
           /\ \A pc \in PC :
                 req' = [req EXCEPT ![r].pc = pc, ![r].found = found]
                   => Advances(r, pc)
           /\ \A pc \in PC :
                 req' = [req EXCEPT ![r].pc = pc, ![r].ok = TRUE,
                                    ![r].found = found]
                   => Advances(r, pc)
<1>0. req \in [Request -> ReqState]
  BY DEF TypeOK, ReqState
<1>1. ASSUME req' = [req EXCEPT ![r].todo = todo, ![r].owed = owed]
      PROVE  Advances(r, req[r].pc)
  <2> DEFINE q == [req[r] EXCEPT !.todo = todo, !.owed = owed]
  <2>1. q \in ReqState /\ q.user = req[r].user /\ q.file = req[r].file
        /\ q.pc = req[r].pc
    BY <1>0 DEF ReqState
  <2>2. req' = [req EXCEPT ![r] = q]
    BY <1>0, <1>1
  <2> HIDE DEF q
  <2> QED BY <1>0, <2>1, <2>2, UpdateAdvances
<1>2. ASSUME NEW pc \in PC,
             req' = [req EXCEPT ![r].pc = pc, ![r].todo = todo]
      PROVE  Advances(r, pc)
  <2> DEFINE q == [req[r] EXCEPT !.pc = pc, !.todo = todo]
  <2>1. q \in ReqState /\ q.user = req[r].user /\ q.file = req[r].file
        /\ q.pc = pc
    BY <1>0 DEF ReqState
  <2>2. req' = [req EXCEPT ![r] = q]
    BY <1>0, <1>2
  <2> HIDE DEF q
  <2> QED BY <1>0, <2>1, <2>2, UpdateAdvances
<1>3. ASSUME NEW pc \in PC,
             req' = [req EXCEPT ![r].pc = pc, ![r].owed = owed]
      PROVE  Advances(r, pc)
  <2> DEFINE q == [req[r] EXCEPT !.pc = pc, !.owed = owed]
  <2>1. q \in ReqState /\ q.user = req[r].user /\ q.file = req[r].file
        /\ q.pc = pc
    BY <1>0 DEF ReqState
  <2>2. req' = [req EXCEPT ![r] = q]
    BY <1>0, <1>3
  <2> HIDE DEF q
  <2> QED BY <1>0, <2>1, <2>2, UpdateAdvances
<1>4. ASSUME NEW pc \in PC,
             req' = [req EXCEPT ![r].pc = pc, ![r].found = found]
      PROVE  Advances(r, pc)
  <2> DEFINE q == [req[r] EXCEPT !.pc = pc, !.found = found]
  <2>1. q \in ReqState /\ q.user = req[r].user /\ q.file = req[r].file
        /\ q.pc = pc
    BY <1>0 DEF ReqState
  <2>2. req' = [req EXCEPT ![r] = q]
    BY <1>0, <1>4
  <2> HIDE DEF q
  <2> QED BY <1>0, <2>1, <2>2, UpdateAdvances
<1>5. ASSUME NEW pc \in PC,
             req' = [req EXCEPT ![r].pc = pc, ![r].ok = TRUE,
                                ![r].found = found]
      PROVE  Advances(r, pc)
  <2> DEFINE q == [req[r] EXCEPT !.pc = pc, !.ok = TRUE, !.found = found]
  <2>1. q \in ReqState /\ q.user = req[r].user /\ q.file = req[r].file
        /\ q.pc = pc
    BY <1>0 DEF ReqState
  <2>2. req' = [req EXCEPT ![r] = q]
    BY <1>0, <1>5
  <2> HIDE DEF q
  <2> QED BY <1>0, <2>1, <2>2, UpdateAdvances
<1> QED BY <1>1, <1>2, <1>3, <1>4, <1>5

-----------------------------------------------------------------------------
(***************************************************************************)
(* The requests before and after.                                          *)
(***************************************************************************)

\* What was found out about roles when a request reaches a step.
Found(r, pc) ==
    LET owner == role[req[r].file][req[r].user] = "Owner"
    IN  /\ pc = "deleteFile" /\ req[r].file \in files => owner
        /\ pc = "deleteLink" => ~owner
        /\ pc # "removeLink"

\* A step that changes no owner, and no row but of files that have some.
LEMMA OwnersKept ==
    ASSUME IInv, NEW r \in Request, NEW pc, Advances(r, pc),
           UNCHANGED <<files, issued>>,
           mail' \in [User -> [File -> [Kind -> Nat]]],
           role' \in [File -> [User -> Role]],
           \A f \in File, u \in User :
              role'[f][u] = "Owner" <=> role[f][u] = "Owner",
           met' \subseteq User \X File, met \subseteq met',
           \A f \in File, u \in User :
              <<u, f>> \in met' => \E v \in User : <<v, f>> \in met,
           Rows',
           pc \in Making => req[r].pc \in Making,
           pc \in Using => req[r].pc \in Using,
           Found(r, pc)
    PROVE  IInv'
<1>1. TypeOK'
  BY DEF IInv, TypeOK, Advances, ReqState
<1>2. OneOwner'
  <2>1. \A f \in File : Owners(f)' = Owners(f)
    BY DEF Owners
  <2> QED BY <2>1 DEF IInv, OneOwner, Rows, Linked
<1>3. \A q \in Request :
         req'[q].file = req[q].file /\ req'[q].user = req[q].user
  BY DEF Advances
<1>4. ASSUME NEW q \in Request, q # r PROVE Sound(q)'
  <2>1. req'[q] = req[q] /\ Sound(q)
    BY <1>4 DEF Advances, IInv
  <2>2. Made(q)' /\ Used(q)'
    BY <1>3, <2>1 DEF Sound, Made, Used
  <2>3. req[q].pc \in {"deleteFile", "deleteLink"} =>
           req[q].user \in User /\ req[q].file \in File
    BY <2>1 DEF Sound, Used, Using, IInv, TypeOK
  <2>4. req[q].pc = "removeLink" =>
           req[q].todo \subseteq User /\ req[q].file \in File
    BY <2>1 DEF Sound, Used, Using, IInv, TypeOK
  <2>5. Entitled(q)'
    <3>1. files' = files /\ \A p \in met : p \in met'
      OBVIOUS
    <3>2. Entitled(q)
      BY <2>1 DEF Sound
    <3>3. req[q].pc \in {"deleteFile", "deleteLink"} =>
             (role'[req[q].file][req[q].user] = "Owner"
                <=> role[req[q].file][req[q].user] = "Owner")
      BY <2>3
    <3>4. req[q].pc = "removeLink" =>
             \A v \in req[q].todo :
                role'[req[q].file][v] = "Owner"
                   <=> role[req[q].file][v] = "Owner"
      BY <2>4
    <3> QED BY <2>1, <3>1, <3>2, <3>3, <3>4 DEF Entitled
  <2> QED BY <2>2, <2>5 DEF Sound
<1>5. Sound(r)'
  <2>1. req'[r].pc = pc /\ Sound(r)
    BY DEF Advances, IInv
  <2>2. Made(r)' /\ Used(r)'
    BY <1>3, <2>1 DEF Sound, Made, Used
  <2>3. Entitled(r)'
    <3>1. pc \in {"deleteFile", "deleteLink"} =>
             req[r].user \in User /\ req[r].file \in File
      BY <2>1 DEF Sound, Used, Using, IInv, TypeOK
    <3> QED BY <1>3, <2>1, <3>1 DEF Entitled, Found
  <2> QED BY <2>2, <2>3 DEF Sound
<1> QED BY <1>1, <1>2, <1>4, <1>5 DEF IInv

\* A step that changes no row.
LEMMA RowsKept ==
    ASSUME IInv, NEW r \in Request, NEW pc, Advances(r, pc),
           UNCHANGED <<files, role, met, issued>>,
           mail' \in [User -> [File -> [Kind -> Nat]]],
           pc \in Making => req[r].pc \in Making,
           pc \in Using => req[r].pc \in Using,
           Found(r, pc)
    PROVE  IInv'
<1>1. /\ Rows' /\ role' \in [File -> [User -> Role]]
      /\ met' \subseteq User \X File
  BY DEF IInv, TypeOK, Rows, Linked
<1> QED BY <1>1, OwnersKept

-----------------------------------------------------------------------------
(***************************************************************************)
(* Every step of a handler keeps the invariant.                            *)
(***************************************************************************)

\* An answer changes no row, whatever it says.
LEMMA AnswerStep ==
    ASSUME IInv, NEW r \in Request, NEW pc \in Answered,
           AnswerOK(r, pc) \/ AnswerError(r, pc),
           UNCHANGED <<files, role, mail, met, issued>>
    PROVE  IInv'
<1>1. Advances(r, pc)
  BY AnswerAdvances DEF Answered, PC, IInv
<1>2. mail' \in [User -> [File -> [Kind -> Nat]]]
  BY DEF IInv, TypeOK
<1> QED BY <1>1, <1>2, RowsKept DEF Answered, Making, Using, Found

\* Nor does a statement that fails.
LEMMA FailureStep ==
    ASSUME IInv, NEW r \in Request, NEW pc \in Answered, StatementFails(r, pc)
    PROVE  IInv'
  BY AnswerStep DEF StatementFails

\* A request at one of these steps has a requester and a file.
LEMMA Subject ==
    ASSUME IInv, NEW r \in Request, req[r].pc \in Making \cup Using
    PROVE  req[r].user \in User /\ req[r].file \in File
  BY DEF IInv, TypeOK, Sound, Made, Used

\* A notification is counted.
LEMMA RoutedType ==
    ASSUME mail \in [User -> [File -> [Kind -> Nat]]],
           NEW u \in User, NEW f \in File, NEW kind \in Kind,
           Routed(u, f, kind)
    PROVE  mail' \in [User -> [File -> [Kind -> Nat]]]
  BY DEF Routed

\* CreateFileController: the file gets its one owner.
LEMMA CreateStep ==
    ASSUME IInv, NEW r \in Request, Create(r)
    PROVE  IInv'
<1>0. req[r].pc \in Making
  BY DEF Create, InsertFile, InsertOwner, Making
<1>1. PICK f \in File, u \in User :
         /\ f = req[r].file /\ u = req[r].user
         /\ \A v \in User : <<v, f>> \notin met
         /\ \A q \in Request : req[q].file = f => q = r
  BY <1>0, Subject DEF IInv, Sound, Made
<1>2. \A v \in User : role[f][v] = "None"
  BY <1>1 DEF IInv, Rows, Linked
<1>3. ASSUME files' = files \cup {f}, Goto(r, "insertOwner"),
             UNCHANGED <<role, mail, met, issued>>
      PROVE  IInv'
  <2>1. Advances(r, "insertOwner")
    BY <1>3, GotoAdvances DEF IInv, PC
  <2>2. TypeOK'
    BY <1>1, <1>3, <2>1 DEF IInv, TypeOK, Advances, ReqState
  <2>3. Rows' /\ OneOwner'
    <3>1. \A g \in File : Owners(g)' = Owners(g)
      BY <1>3 DEF Owners
    <3>2. Rows'
      BY <1>3 DEF IInv, Rows, Linked
    <3>3. OneOwner'
      BY <1>1, <1>3, <3>1 DEF IInv, OneOwner, Linked
    <3> QED BY <3>2, <3>3
  <2>4. \A q \in Request : req'[q].file = req[q].file
    BY <2>1 DEF Advances
  <2>5. ASSUME NEW q \in Request, q # r PROVE Sound(q)'
    <3>1. req'[q] = req[q] /\ Sound(q) /\ req[q].file # f
      BY <1>1, <2>1, <2>5 DEF Advances, IInv
    <3> QED BY <1>3, <2>4, <3>1 DEF Sound, Made, Used, Entitled
  <2>6. Sound(r)'
    BY <1>0, <1>1, <1>3, <2>1, <2>4
    DEF Sound, Made, Used, Entitled, Advances, Making, Using
  <2> QED BY <2>2, <2>3, <2>5, <2>6 DEF IInv
<1>4. ASSUME f \in files,
             role' = [role EXCEPT ![f][u] = "Owner"],
             met' = met \cup {<<u, f>>}, AnswerOK(r, "created"),
             UNCHANGED <<files, mail, issued>>
      PROVE  IInv'
  <2>1. Advances(r, "created")
    BY <1>4, AnswerAdvances DEF IInv, PC
  <2>2. /\ role' \in [File -> [User -> Role]]
        /\ role'[f][u] = "Owner"
        /\ \A v \in User \ {u} : role'[f][v] = "None"
        /\ \A g \in File \ {f} : role'[g] = role[g]
    BY <1>1, <1>2, <1>4 DEF IInv, TypeOK, Role
  <2>3. TypeOK'
    BY <1>1, <1>4, <2>1, <2>2 DEF IInv, TypeOK, Advances, ReqState
  <2>4. Rows'
    BY <1>1, <1>4, <2>2 DEF IInv, Rows, Linked
  <2>5. OneOwner'
    <3>1. ASSUME NEW g \in File, g # f
          PROVE  Owners(g)' = Owners(g)
                 /\ \A v \in User : /\ Linked(v, g)' <=> Linked(v, g)
                                    /\ <<v, g>> \in met' <=> <<v, g>> \in met
      BY <1>4, <2>2, <3>1 DEF Owners, Linked
    <3>2. Owners(f)' = {u}
      BY <1>1, <2>2 DEF Owners
    <3> QED BY <1>1, <1>4, <3>1, <3>2 DEF IInv, OneOwner
  <2>6. \A q \in Request : req'[q].file = req[q].file
    BY <2>1 DEF Advances
  <2>7. ASSUME NEW q \in Request, q # r PROVE Sound(q)'
    <3>1. req'[q] = req[q] /\ Sound(q) /\ req[q].file # f
      BY <1>1, <2>1, <2>7 DEF Advances, IInv
    <3>2. Made(q)' /\ Used(q)'
      BY <1>4, <2>6, <3>1 DEF Sound, Made, Used
    <3>3. req[q].pc \in Using => role'[req[q].file] = role[req[q].file]
      BY <2>2, <3>1, Subject
    <3>4. Entitled(q)'
      BY <1>4, <3>1, <3>3 DEF Sound, Entitled, Using
    <3> QED BY <3>2, <3>4 DEF Sound
  <2>8. Sound(r)'
    BY <2>1 DEF Sound, Made, Used, Entitled, Advances, Making, Using
  <2> QED BY <2>3, <2>4, <2>5, <2>7, <2>8 DEF IInv
<1>5. ASSUME AnswerError(r, "created"),
             UNCHANGED <<files, role, mail, met, issued>>
      PROVE  IInv'
  BY <1>5, AnswerStep DEF Answered
<1> QED BY <1>1, <1>3, <1>4, <1>5
        DEF Create, InsertFile, InsertOwner, StatementFails

\* DeleteFileController: the role that FindLink read is still the role.
LEMMA DeleteStep ==
    ASSUME IInv, NEW r \in Request, Delete(r)
    PROVE  IInv'
<1>1. req[r].pc \in Using
  BY DEF Delete, FindLink, DeleteFileRow, PublishFileDeleted, DeleteLink, Using
<1>2. PICK f \in File, u \in User : f = req[r].file /\ u = req[r].user
  BY <1>1, Subject
<1>3. mail \in [User -> [File -> [Kind -> Nat]]]
  BY DEF IInv, TypeOK
<1>4. CASE FindLink(r)
  <2>1. /\ AnswerError(r, "deleted") => IInv'
        /\ UNCHANGED <<files, role, mail, met, issued>>
    BY <1>4, AnswerStep DEF FindLink, Answered
  <2>2. ASSUME role[f][u] = "Owner", Goto(r, "deleteFile")
        PROVE  IInv'
    <3>1. Advances(r, "deleteFile")
      BY <2>2, GotoAdvances DEF IInv, PC
    <3>2. Found(r, "deleteFile")
      BY <1>2, <2>2 DEF Found
    <3> QED BY <1>1, <1>3, <2>1, <3>1, <3>2, RowsKept DEF Making
  <2>3. ASSUME role[f][u] = "Collaborator", Goto(r, "deleteLink")
        PROVE  IInv'
    <3>1. Advances(r, "deleteLink")
      BY <2>3, GotoAdvances DEF IInv, PC
    <3>2. Found(r, "deleteLink")
      BY <1>2, <2>3 DEF Found
    <3> QED BY <1>1, <1>3, <2>1, <3>1, <3>2, RowsKept DEF Making
  <2> QED BY <1>2, <1>4, <2>1, <2>2, <2>3 DEF FindLink
<1>5. CASE DeleteFileRow(r)
  <2>1. ASSUME files' = files \ {f},
               role' = [role EXCEPT ![f] = [v \in User |-> "None"]],
               Goto(r, "publishDeleted"), UNCHANGED <<mail, met, issued>>
        PROVE  IInv'
    <3>1. Advances(r, "publishDeleted")
      BY <2>1, GotoAdvances DEF IInv, PC
    <3>2. /\ role' \in [File -> [User -> Role]]
          /\ \A v \in User : role'[f][v] = "None"
          /\ \A g \in File \ {f} : role'[g] = role[g]
      BY <2>1 DEF IInv, TypeOK, Role
    <3>3. TypeOK'
      BY <2>1, <3>1, <3>2 DEF IInv, TypeOK, Advances, ReqState
    <3>4. Rows'
      BY <2>1, <3>2 DEF IInv, Rows, Linked
    <3>5. OneOwner'
      <4>1. \A g \in File \ {f} : Owners(g)' = Owners(g)
        BY <3>2 DEF Owners
      <4> QED BY <2>1, <3>2, <4>1 DEF IInv, OneOwner, Linked
    <3>6. \A q \in Request : req'[q].file = req[q].file
      BY <3>1 DEF Advances
    <3>7. ASSUME NEW q \in Request, q # r PROVE Sound(q)'
      <4>1. req'[q] = req[q] /\ Sound(q)
        BY <3>1, <3>7 DEF Advances, IInv
      <4>2. Made(q)' /\ Used(q)'
        BY <2>1, <3>6, <4>1 DEF Sound, Made, Used
      <4>3. req[q].pc \in Using =>
               req[q].file \in File /\ req[q].user \in User
               /\ req[q].todo \subseteq User
        BY Subject DEF IInv, TypeOK
      <4>4. CASE req[q].file = f
        BY <2>1, <3>2, <4>1, <4>2, <4>3, <4>4 DEF Sound, Entitled, Using
      <4>5. CASE req[q].file # f
        BY <2>1, <3>2, <4>1, <4>2, <4>3, <4>5 DEF Sound, Entitled, Using
      <4> QED BY <4>4, <4>5
    <3>8. Sound(r)'
      BY <1>1, <2>1, <3>1
      DEF IInv, Sound, Made, Used, Entitled, Advances, Making
    <3> QED BY <3>3, <3>4, <3>5, <3>7, <3>8 DEF IInv
  <2>2. StatementFails(r, "deleted") => IInv'
    BY FailureStep DEF Answered
  <2> QED BY <1>2, <1>5, <2>1, <2>2 DEF DeleteFileRow
<1>6. CASE PublishFileDeleted(r)
  BY <1>6, AnswerStep DEF PublishFileDeleted, Answered
<1>7. CASE DeleteLink(r)
  <2>1. ASSUME role' = [role EXCEPT ![f][u] = "None"], AnswerOK(r, "deleted"),
               UNCHANGED <<files, mail, met, issued>>
        PROVE  IInv'
    <3>1. Advances(r, "deleted")
      BY <2>1, AnswerAdvances DEF IInv, PC
    <3>2. role[f][u] # "Owner"
      BY <1>2, <1>7 DEF DeleteLink, IInv, Sound, Entitled
    <3>3. /\ role' \in [File -> [User -> Role]]
          /\ \A g \in File, v \in User :
                /\ role'[g][v] = "Owner" <=> role[g][v] = "Owner"
                /\ role'[g][v] # "None" => role[g][v] # "None"
      BY <2>1, <3>2 DEF IInv, TypeOK, Role
    <3>4. Rows'
      BY <2>1, <3>3 DEF IInv, Rows, Linked
    <3>5. /\ met' \subseteq User \X File
          /\ mail' \in [User -> [File -> [Kind -> Nat]]]
      BY <1>3, <2>1 DEF IInv, TypeOK
    <3> QED BY <2>1, <3>1, <3>3, <3>4, <3>5, OwnersKept
            DEF Making, Using, Found
  <2>2. StatementFails(r, "deleted") => IInv'
    BY FailureStep DEF Answered
  <2> QED BY <1>2, <1>7, <2>1, <2>2 DEF DeleteLink
<1> QED BY <1>4, <1>5, <1>6, <1>7 DEF Delete

\* ShareFileController: the rows it adds make nobody an owner.
LEMMA ShareStep ==
    ASSUME IInv, NEW r \in Request, Share(r)
    PROVE  IInv'
<1>1. req[r].pc \in Using
  BY DEF Share, FindFile, AddLink, AllLinked, NotifyShared, AllNotified, Using
<1>2. PICK f \in File : f = req[r].file
  BY <1>1, Subject
<1>3. /\ mail \in [User -> [File -> [Kind -> Nat]]]
      /\ req[r].todo \in SUBSET User /\ req[r].owed \in SUBSET User
  BY DEF IInv, TypeOK
<1>4. CASE FindFile(r)
  <2>1. ASSUME Goto(r, "addLinks"),
               UNCHANGED <<files, role, mail, met, issued>>
        PROVE  IInv'
    <3>1. Advances(r, "addLinks")
      BY <2>1, GotoAdvances DEF IInv, PC
    <3> QED BY <1>1, <1>3, <2>1, <3>1, RowsKept DEF Making, Found
  <2> QED BY <1>4, <2>1, AnswerStep DEF FindFile, Answered
<1>5. CASE AddLink(r)
  <2>1. ASSUME NEW u \in req[r].todo, f \in files, ~Linked(u, f),
               role' = [role EXCEPT ![f][u] = "Collaborator"],
               met' = met \cup {<<u, f>>},
               req' = [req EXCEPT ![r].todo = @ \ {u},
                                  ![r].owed = @ \cup {u}],
               UNCHANGED <<files, mail, issued>>
        PROVE  IInv'
    <3>1. u \in User /\ role[f][u] = "None"
      BY <1>3, <2>1 DEF Linked
    <3>2. req' = [req EXCEPT ![r].todo = req[r].todo \ {u},
                             ![r].owed = req[r].owed \cup {u}]
      BY <2>1 DEF IInv, TypeOK
    <3>3. Advances(r, req[r].pc)
      <4>1. /\ req[r].todo \ {u} \in SUBSET User
            /\ req[r].owed \cup {u} \in SUBSET User
        BY <1>3, <3>1
      <4> QED BY <3>2, <4>1, NotesAdvance DEF IInv
    <3>4. /\ role' \in [File -> [User -> Role]]
          /\ \A g \in File, v \in User :
                /\ role'[g][v] = "Owner" <=> role[g][v] = "Owner"
                /\ role'[g][v] # "None" =>
                      role[g][v] # "None" \/ (g = f /\ v = u)
      BY <2>1, <3>1 DEF IInv, TypeOK, Role
    <3>5. Rows'
      BY <2>1, <3>4 DEF IInv, Rows, Linked
    <3>6. /\ met' \subseteq User \X File
          /\ mail' \in [User -> [File -> [Kind -> Nat]]]
      BY <1>3, <2>1, <3>1 DEF IInv, TypeOK
    <3>7. <<req[r].user, f>> \in met /\ req[r].user \in User
      BY <1>1, <1>2, Subject DEF IInv, Sound, Used
    <3>8. \A g \in File, v \in User :
             <<v, g>> \in met' => \E w \in User : <<w, g>> \in met
      BY <2>1, <3>7
    <3>9. /\ Found(r, req[r].pc)
          /\ met \subseteq met' /\ UNCHANGED <<files, mail, issued>>
      BY <1>5, <2>1 DEF AddLink, Found
    <3> QED BY <3>3, <3>4, <3>5, <3>6, <3>8, <3>9, OwnersKept
  <2> QED BY <1>2, <1>5, <2>1, AnswerStep DEF AddLink, Answered
<1>6. CASE AllLinked(r)
  <2>1. Advances(r, "notify")
    <3>1. req' = [req EXCEPT ![r].pc = "notify", ![r].todo = req[r].owed]
      BY <1>6 DEF AllLinked
    <3> QED BY <1>3, <3>1, NotesAdvance DEF IInv, PC
  <2> QED BY <1>1, <1>3, <1>6, <2>1, RowsKept DEF AllLinked, Making, Found
<1>7. CASE NotifyShared(r)
  <2>1. mail' \in [User -> [File -> [Kind -> Nat]]]
    BY <1>2, <1>3, <1>7, RoutedType DEF NotifyShared, Kind
  <2>2. \/ Advances(r, req[r].pc) \/ Advances(r, "done")
    <3>1. PICK u \in req[r].todo :
             \/ req' = [req EXCEPT ![r].todo = @ \ {u}, ![r].owed = @ \ {u}]
             \/ AnswerError(r, "done")
      BY <1>7 DEF NotifyShared
    <3>2. CASE AnswerError(r, "done")
      BY <3>2, AnswerAdvances DEF IInv, PC
    <3>3. CASE req' = [req EXCEPT ![r].todo = @ \ {u}, ![r].owed = @ \ {u}]
      <4>1. req' = [req EXCEPT ![r].todo = req[r].todo \ {u},
                               ![r].owed = req[r].owed \ {u}]
        BY <3>3 DEF IInv, TypeOK
      <4>2. /\ req[r].todo \ {u} \in SUBSET User
            /\ req[r].owed \ {u} \in SUBSET User
        BY <1>3
      <4> QED BY <4>1, <4>2, NotesAdvance DEF IInv
    <3> QED BY <3>1, <3>2, <3>3
  <2> QED BY <1>1, <1>7, <2>1, <2>2, RowsKept
          DEF NotifyShared, Making, Using, Found
<1>8. CASE AllNotified(r)
  BY <1>8, AnswerStep DEF AllNotified, Answered
<1> QED BY <1>4, <1>5, <1>6, <1>7, <1>8 DEF Share

\* RemovedUserController: the row it deletes is not an owner's.
LEMMA RemoveStep ==
    ASSUME IInv, NEW r \in Request, Remove(r)
    PROVE  IInv'
<1>1. req[r].pc \in Using
  BY DEF Remove, RemoveLink, NotifyRevoked, Using
<1>2. PICK f \in File : f = req[r].file
  BY <1>1, Subject
<1>3. /\ mail \in [User -> [File -> [Kind -> Nat]]]
      /\ req[r].todo \in SUBSET User /\ req[r].owed \in SUBSET User
  BY DEF IInv, TypeOK
<1>4. CASE RemoveLink(r)
  <2>1. ASSUME NEW v \in req[r].todo,
               role' = [role EXCEPT ![f][v] = "None"],
               req' = [req EXCEPT ![r].pc = "revoke", ![r].owed = {v}],
               UNCHANGED <<files, mail, met, issued>>
        PROVE  IInv'
    <3>1. v \in User /\ role[f][v] # "Owner"
      BY <1>2, <1>3, <1>4 DEF RemoveLink, IInv, Sound, Entitled
    <3>2. Advances(r, "revoke")
      <4>1. {v} \in SUBSET User
        BY <3>1
      <4> QED BY <1>3, <2>1, <4>1, NotesAdvance DEF IInv, PC
    <3>3. /\ role' \in [File -> [User -> Role]]
          /\ \A g \in File, u \in User :
                /\ role'[g][u] = "Owner" <=> role[g][u] = "Owner"
                /\ role'[g][u] # "None" => role[g][u] # "None"
      BY <2>1, <3>1 DEF IInv, TypeOK, Role
    <3>4. Rows'
      BY <2>1, <3>3 DEF IInv, Rows, Linked
    <3>5. /\ met' \subseteq User \X File
          /\ mail' \in [User -> [File -> [Kind -> Nat]]]
      BY <1>3, <2>1 DEF IInv, TypeOK
    <3>6. Found(r, "revoke")
      BY DEF Found
    <3> QED BY <1>1, <2>1, <3>2, <3>3, <3>4, <3>5, <3>6, OwnersKept DEF Making
  <2> QED BY <1>2, <1>4, <2>1, AnswerStep DEF RemoveLink, Answered
<1>5. CASE NotifyRevoked(r)
  <2>1. ASSUME NEW v \in req[r].owed, Routed(v, f, "file_revoke"),
               AnswerOK(r, "done") \/ AnswerError(r, "done"),
               UNCHANGED <<files, role, met, issued>>
        PROVE  IInv'
    <3>1. mail' \in [User -> [File -> [Kind -> Nat]]]
      BY <1>3, <2>1, RoutedType DEF Kind
    <3>2. Advances(r, "done")
      BY <2>1, AnswerAdvances DEF IInv, PC
    <3> QED BY <2>1, <3>1, <3>2, RowsKept DEF Making, Using, Found
  <2>2. StatementFails(r, "done") => IInv'
    BY FailureStep DEF Answered
  <2> QED BY <1>2, <1>5, <2>1, <2>2 DEF NotifyRevoked
<1> QED BY <1>4, <1>5 DEF Remove

\* GetFileController changes nothing.
LEMMA GetStep ==
    ASSUME IInv, NEW r \in Request, Get(r)
    PROVE  IInv'
<1>1. /\ mail \in [User -> [File -> [Kind -> Nat]]]
      /\ files \subseteq File
  BY DEF IInv, TypeOK
<1>2. CASE SelectLinks(r)
  <2>1. ASSUME req' = [req EXCEPT
                         ![r].pc = "selectFiles",
                         ![r].found = {f \in File : Linked(req[r].user, f)}]
        PROVE  IInv'
    <3> DEFINE found == {f \in File : Linked(req[r].user, f)}
    <3>1. found \in SUBSET File
      OBVIOUS
    <3>2. Advances(r, "selectFiles")
      <4> HIDE DEF found
      <4> QED BY <2>1, <3>1, NotesAdvance DEF IInv, PC, found
    <3> QED BY <1>1, <1>2, <3>2, RowsKept
            DEF SelectLinks, Making, Using, Found
  <2> QED BY <1>2, <2>1, AnswerStep DEF SelectLinks, Answered
<1>3. CASE SelectFiles(r)
  <2>1. ASSUME req' = [req EXCEPT ![r].pc = "listed", ![r].ok = TRUE,
                                  ![r].found = @ \cap files]
        PROVE  IInv'
    <3>1. req' = [req EXCEPT ![r].pc = "listed", ![r].ok = TRUE,
                             ![r].found = req[r].found \cap files]
      BY <2>1 DEF IInv, TypeOK
    <3>2. Advances(r, "listed")
      <4>1. req[r].found \cap files \in SUBSET File
        BY <1>1
      <4> QED BY <3>1, <4>1, NotesAdvance DEF IInv, PC
    <3> QED BY <1>1, <1>3, <3>2, RowsKept
            DEF SelectFiles, Making, Using, Found
  <2> QED BY <1>3, <2>1, AnswerStep DEF SelectFiles, Answered
<1> QED BY <1>2, <1>3 DEF Get

-----------------------------------------------------------------------------
(***************************************************************************)
(* The client's end.                                                       *)
(***************************************************************************)

\* A request may begin at a step for which nothing has been found out yet.
LEMMA BeginStep ==
    ASSUME IInv, NEW r \in Request, NEW pc \in PC, NEW u \in User,
           NEW f \in File \cup {NoFile}, NEW vs \in SUBSET User,
           Begin(r, pc, u, f, vs),
           pc \in Making => Fresh(f) /\ f \in File,
           pc \in Using => <<u, f>> \in met,
           pc \notin Making \cup Using => f = NoFile,
           pc \notin {"deleteFile", "deleteLink"},
           pc = "removeLink" =>
              \A v \in vs : <<v, f>> \in met /\ role[f][v] # "Owner"
    PROVE  IInv'
<1> DEFINE begun == [Idle EXCEPT !.pc = pc, !.user = u, !.file = f,
                                 !.todo = vs]
<1>0. req \in [Request -> ReqState]
  BY DEF IInv, TypeOK, ReqState
<1>1. /\ begun \in ReqState
      /\ begun.pc = pc /\ begun.user = u /\ begun.file = f /\ begun.todo = vs
  BY DEF Idle, ReqState
<1>2. /\ req' \in [Request -> ReqState]
      /\ req'[r] = begun
      /\ \A q \in Request \ {r} : req'[q] = req[q]
      /\ UNCHANGED <<files, role, mail, met>>
  <2> HIDE DEF begun
  <2> QED BY <1>0, <1>1 DEF Begin, begun
<1> HIDE DEF begun
<1>3. issued' \in 0..MaxRequests
  BY StoreAssumption DEF Begin, IInv, TypeOK
<1>4. TypeOK'
  BY <1>2, <1>3 DEF IInv, TypeOK, ReqState
<1>5. Rows' /\ OneOwner'
  BY <1>2 DEF IInv, Rows, OneOwner, Owners, Linked
<1>6. ASSUME NEW q \in Request, q # r PROVE Sound(q)'
  <2>1. req'[q] = req[q] /\ Sound(q)
    BY <1>2, <1>6 DEF IInv
  <2>2. req[q].pc \in Making => req[q].file # f
    <3>1. pc \in Making => \A p \in Request : req[p].file # f
      BY DEF Fresh
    <3>2. pc \in Using /\ req[q].pc \in Making => req[q].file # f
      BY <2>1 DEF Sound, Made
    <3>3. req[q].pc \in Making => req[q].file # NoFile
      BY Subject, StoreAssumption
    <3> QED BY <3>1, <3>2, <3>3
  <2> QED BY <1>1, <1>2, <2>1, <2>2 DEF Sound, Made, Used, Entitled
<1>7. Sound(r)'
  <2>1. Made(r)'
    BY <1>1, <1>2 DEF Made, Fresh
  <2>2. Used(r)' /\ Entitled(r)'
    BY <1>1, <1>2 DEF Used, Entitled
  <2> QED BY <2>1, <2>2 DEF Sound
<1> QED BY <1>4, <1>5, <1>6, <1>7 DEF IInv

\* What the client sends and takes.
LEMMA ClientStep ==
    ASSUME IInv
    PROVE  /\ \A r \in Request, u \in User : GetFiles(r, u) => IInv'
           /\ \A r \in Request, u \in User, f \in File :
                 CreateFile(r, u, f) \/ DeleteFile(r, u, f) => IInv'
           /\ \A r \in Request, u \in User, f \in File, vs \in SUBSET User :
                 ShareFile(r, u, f, vs) => IInv'
           /\ \A r \in Request, u, v \in User, f \in File :
                 RemoveAccess(r, u, f, v) => IInv'
           /\ \A r \in Request : TakeAnswer(r) => IInv'
           /\ \A u \in User, f \in File, kind \in Kind :
                 Deliver(u, f, kind) => IInv'
<1> USE DEF PC, Making, Using
<1>1. ASSUME NEW r \in Request, NEW u \in User, GetFiles(r, u) PROVE IInv'
  BY <1>1, BeginStep DEF GetFiles
<1>2. ASSUME NEW r \in Request, NEW u \in User, NEW f \in File,
             CreateFile(r, u, f)
      PROVE  IInv'
  BY <1>2, BeginStep DEF CreateFile
<1>3. ASSUME NEW r \in Request, NEW u \in User, NEW f \in File,
             DeleteFile(r, u, f)
      PROVE  IInv'
  BY <1>3, BeginStep DEF DeleteFile
<1>4. ASSUME NEW r \in Request, NEW u \in User, NEW f \in File,
             NEW vs \in SUBSET User, ShareFile(r, u, f, vs)
      PROVE  IInv'
  BY <1>4, BeginStep DEF ShareFile
<1>5. ASSUME NEW r \in Request, NEW u \in User, NEW v \in User, NEW f \in File,
             RemoveAccess(r, u, f, v)
      PROVE  IInv'
  <2>1. {v} \in SUBSET User
    OBVIOUS
  <2> QED BY <1>5, <2>1, BeginStep DEF RemoveAccess
<1>6. ASSUME NEW r \in Request, TakeAnswer(r) PROVE IInv'
  <2>1. /\ req' \in [Request -> ReqState]
        /\ req'[r] = Idle
        /\ \A q \in Request \ {r} : req'[q] = req[q]
        /\ UNCHANGED <<files, role, mail, met, issued>>
    BY <1>6, IdleType DEF TakeAnswer, IInv, TypeOK, ReqState
  <2>2. TypeOK'
    BY <2>1 DEF IInv, TypeOK, ReqState
  <2>3. Rows' /\ OneOwner'
    BY <2>1 DEF IInv, Rows, OneOwner, Owners, Linked
  <2>4. Idle.pc = "idle" /\ Idle.file = NoFile
    BY DEF Idle
  <2>5. ASSUME NEW q \in Request, q # r PROVE Sound(q)'
    <3>1. req'[q] = req[q] /\ Sound(q)
      BY <2>1, <2>5 DEF IInv
    <3>2. req[q].pc \in Making => req[q].file # NoFile
      BY Subject, StoreAssumption
    <3> QED BY <2>1, <2>4, <3>1, <3>2 DEF Sound, Made, Used, Entitled
  <2>6. Sound(r)'
    BY <2>1, <2>4 DEF Sound, Made, Used, Entitled
  <2> QED BY <2>2, <2>3, <2>5, <2>6 DEF IInv
<1>7. ASSUME NEW u \in User, NEW f \in File, NEW kind \in Kind,
             Deliver(u, f, kind)
      PROVE  IInv'
  <2>1. mail[u][f][kind] - 1 \in Nat
    BY <1>7 DEF Deliver, IInv, TypeOK
  <2>2. mail' \in [User -> [File -> [Kind -> Nat]]]
    BY <1>7, <2>1 DEF Deliver, IInv, TypeOK
  <2>3. TypeOK'
    BY <1>7, <2>2 DEF Deliver, IInv, TypeOK
  <2> QED BY <1>7, <2>3
          DEF Deliver, IInv, Rows, OneOwner, Owners, Linked, Sound, Made, Used,
              Entitled
<1> QED BY <1>1, <1>2, <1>3, <1>4, <1>5, <1>6, <1>7

-----------------------------------------------------------------------------
(***************************************************************************)
(* The theorems.                                                           *)
(***************************************************************************)

\* The empty store, with every request idle, satisfies the invariant.
LEMMA InitInv == Init => IInv
<1> SUFFICES ASSUME Init PROVE IInv
  OBVIOUS
<1>1. TypeOK
  BY IdleType, StoreAssumption DEF Init, TypeOK, ReqState, Role
<1>2. Rows /\ OneOwner
  BY DEF Init, Rows, OneOwner, Linked
<1>3. \A r \in Request : req[r].pc = "idle"
  BY DEF Init, Idle
<1> QED BY <1>1, <1>2, <1>3
        DEF IInv, Sound, Made, Used, Entitled, Making, Using

\* Every step keeps the invariant.
LEMMA StepInv == IInv /\ [Next]_storeVars => IInv'
<1> SUFFICES ASSUME IInv, [Next]_storeVars PROVE IInv'
  OBVIOUS
<1>1. ASSUME NEW r \in Request, Serve(r) PROVE IInv'
  BY <1>1, CreateStep, DeleteStep, ShareStep, RemoveStep, GetStep DEF Serve
<1>2. CASE UNCHANGED storeVars
  <2>1. TypeOK'
    BY <1>2 DEF storeVars, IInv, TypeOK
  <2>2. Rows' /\ OneOwner'
    BY <1>2 DEF storeVars, IInv, Rows, OneOwner, Owners, Linked
  <2>3. ASSUME NEW r \in Request PROVE Sound(r)'
    BY <1>2 DEF storeVars, IInv, Sound, Made, Used, Entitled
  <2> QED BY <2>1, <2>2, <2>3 DEF IInv
<1>3. CASE Next
  BY <1>1, <1>3, ClientStep DEF Next
<1> QED BY <1>2, <1>3

\* The invariant holds in every state.
LEMMA Invariance == Spec => []IInv
  BY InitInv, StepInv, PTL DEF Spec

(* The rows, the requests and the notifications keep their types, however  *)
(* many users, files and requests there are.                               *)
THEOREM StoreTypeTheorem == Spec => []TypeOK
<1>1. IInv => TypeOK
  BY DEF IInv
<1> QED BY <1>1, Invariance, PTL

(* A file has exactly one owner from the end of CreateFileController until *)
(* DeleteFileController deletes it, and no rows afterwards.                *)
THEOREM OneOwnerTheorem == Spec => []OneOwner
<1>1. IInv => OneOwner
  BY DEF IInv
<1> QED BY <1>1, Invariance, PTL

\* Files are only deleted by DeleteFileRow, of a request whose user owns it.
LEMMA DeletedByOwner ==
    ASSUME IInv, [Next]_storeVars, NEW f \in files \ files'
    PROVE  \E r \in Request : /\ req[r].pc = "deleteFile" /\ req[r].file = f
                              /\ role[f][req[r].user] = "Owner"
<1>1. PICK r \in Request : DeleteFileRow(r)
  <2>1. ~(UNCHANGED files)
    OBVIOUS
  <2>2. ASSUME NEW r \in Request, InsertFile(r) PROVE FALSE
    BY <2>2 DEF InsertFile, StatementFails
  <2>3. ASSUME NEW r \in Request, Serve(r) PROVE DeleteFileRow(r)
    BY <2>1, <2>2, <2>3
       DEF Serve, Create, InsertOwner, Delete, FindLink, PublishFileDeleted,
           DeleteLink, StatementFails, Share, FindFile, AddLink, AllLinked,
           NotifyShared, AllNotified, Remove, RemoveLink, NotifyRevoked, Get,
           SelectLinks, SelectFiles
  <2>4. ASSUME NEW r \in Request, NEW u \in User, NEW f2 \in File
        PROVE  /\ ~CreateFile(r, u, f2) /\ ~DeleteFile(r, u, f2)
               /\ \A vs \in SUBSET User : ~ShareFile(r, u, f2, vs)
               /\ \A v \in User : ~RemoveAccess(r, u, f2, v)
    BY <2>1 DEF CreateFile, DeleteFile, ShareFile, RemoveAccess, Begin
  <2>5. ASSUME NEW r \in Request PROVE ~TakeAnswer(r)
    BY <2>1 DEF TakeAnswer
  <2>6. ASSUME NEW r \in Request, NEW u \in User PROVE ~GetFiles(r, u)
    BY <2>1 DEF GetFiles, Begin
  <2>7. \A u \in User, f2 \in File, kind \in Kind : ~Deliver(u, f2, kind)
    BY <2>1 DEF Deliver
  <2>8. Next
    BY <2>1 DEF storeVars
  <2> QED BY <2>3, <2>4, <2>5, <2>6, <2>7, <2>8 DEF Next
<1>2. req[r].pc = "deleteFile" /\ req[r].file = f
  BY <1>1 DEF DeleteFileRow, StatementFails
<1>3. role[f][req[r].user] = "Owner"
  BY <1>2 DEF IInv, Sound, Entitled
<1> QED BY <1>2, <1>3

(* A file is deleted by its owner only, although DeleteFileController      *)
(* reads the role in one statement and deletes in another, with any        *)
(* number of other requests between the two.                               *)
THEOREM DeletionTheorem == Spec => OnlyItsOwnerDeletes
<1>1. IInv /\ [Next]_storeVars =>
         [\A f \in files \ files' : \E r \in Request :
             /\ req[r].pc = "deleteFile" /\ req[r].file = f
             /\ role[f][req[r].user] = "Owner"]_storeVars
  BY DeletedByOwner
<1> QED BY <1>1, Invariance, PTL DEF Spec, OnlyItsOwnerDeletes

-----------------------------------------------------------------------------
(***************************************************************************)
(* Part 2: the home pages, under the specification of HomeFiles.           *)
(*                                                                         *)
(* The invariant.  ListExact speaks of a list that nothing is on its way   *)
(* to; the invariant says of every pair of a user and a file what is on    *)
(* its way and that it agrees with the row, so that the list is exact when *)
(* the last of it has come.  A pair in unsynced is one of which nothing is *)
(* said, until the rows are read again.                                    *)
(***************************************************************************)
Lists == {"selectLinks", "selectFiles", "listed"}
\* A request that is being served, and that lists no files.
Served(r) == req[r].pc \notin Lists \cup Answered \cup {"idle"}

\* What a request keeps, by its program counter.
Shape(r) ==
    /\ req[r].pc = "idle" => req[r] = Idle
    /\ req[r].pc # "idle" => req[r].user \in User
    /\ req[r].pc \in Lists => req[r].file = NoFile
    /\ req[r].pc \notin {"addLinks", "notify", "revoke"} => req[r].owed = {}
    /\ req[r].pc = "notify" => req[r].todo \subseteq req[r].owed
    /\ req[r].ok => req[r].pc \in Answered

\* Who is to tell a tab that a file has come, or gone.
Adding(u, f, r) == /\ req[r].file = f /\ u \in req[r].owed
                   /\ req[r].pc \in {"addLinks", "notify"}
Created(u, f, r) == /\ req[r].file = f /\ OfTab(u, r)
                    /\ req[r].pc = "created" /\ req[r].ok
Removing(u, f, r) ==
    /\ req[r].file = f
    /\ \/ u \in req[r].owed /\ req[r].pc = "revoke"
       \/ OfTab(u, r) /\ req[r].pc = "publishDeleted"
       \/ OfTab(u, r) /\ req[r].pc = "deleted" /\ req[r].ok
Shared(u, f) == mail[u][f]["file_shared"]
Revoked(u, f) == mail[u][f]["file_revoke"]

\* What is on its way for a pair agrees with the rows: a departure that is
\* to be told, or an arrival, of which there is one at most and no reading.
ToldOut(u, f) ==
    Revoked(u, f) > 0 \/ (\E r \in Request : Removing(u, f, r)) =>
        ~Linked(u, f)
ToldIn(u, f) ==
    /\ \/ Shared(u, f) > 0
       \/ \E r \in Request : Adding(u, f, r) \/ Created(u, f, r)
       => Linked(u, f) /\ \A r \in Request : ~Reading(u, r)
    /\ Shared(u, f) <= 1
    /\ \A r \in Request : Adding(u, f, r) =>
          /\ Shared(u, f) = 0
          /\ \A q \in Request : Adding(u, f, q) => q = r

\* The list is there and no other is under way.
Settled(u) == list[u] # Unloaded /\ \A r \in Request : ~Loading(u, r)

\* A file whose arrival is to be notified is not on the list yet.
NotYet(u, f) ==
    Settled(u) /\ (Shared(u, f) > 0 \/ \E r \in Request : Adding(u, f, r))
        => list[u][f] = 0

\* A list under way has read what the rows say.
HasRead(u, f, r) ==
    Reading(u, r) /\ (req[r].pc = "selectFiles" \/ req[r].ok) =>
        (f \in req[r].found <=> Linked(u, f))

\* The list is exact when nothing is on its way.
Shown(u, f) ==
    Settled(u) /\ ~Untold(u, f) =>
        list[u][f] = IF Linked(u, f) THEN 1 ELSE 0

\* What is said of a pair.
Synced(u, f) ==
    /\ ToldOut(u, f) /\ ToldIn(u, f) /\ NotYet(u, f) /\ Shown(u, f)
    /\ \A r \in Request : HasRead(u, f, r)

Shapes == \A r \in Request : Shape(r)

\* Of a pair that is not unsynced, all of this.
AllSynced == \A u \in User, f \in File :
    <<u, f>> \notin unsynced => Synced(u, f)

\* Whoever waits for an answer is still at home.
AtHome == \A r \in Request :
    req[r].pc # "idle" /\ r \notin orphans => req[r].user \in home

\* A page whose last list was an error is on the way to a better one: only
\* then has anything been said of its pairs again.
Repaired == \A u \in broken, f \in File :
    <<u, f>> \notin unsynced => \E r \in Request : Reading(u, r)

HInv == IInv /\ HomeTypeOK /\ AtHome /\ Shapes /\ AllSynced /\ Repaired

-----------------------------------------------------------------------------
(***************************************************************************)
(* The requests before and after.                                          *)
(***************************************************************************)

\* One request changes; in the tab of u, the others are as they were.
Alone(u, r) == \A q \in Request \ {r} :
    req'[q] = req[q] /\ (OfTab(u, q)' <=> OfTab(u, q))

\* A pair is untold if and only if something is on its way.
LEMMA UntoldIs ==
    ASSUME IInv, Shapes, NEW u \in User, NEW f \in File
    PROVE  Untold(u, f) <=>
             \/ Shared(u, f) > 0 \/ Revoked(u, f) > 0
             \/ \E r \in Request :
                  Adding(u, f, r) \/ Created(u, f, r) \/ Removing(u, f, r)
  BY DEF Untold, Kind, Shared, Revoked, Adding, Created, Removing, Shapes,
     Shape

\* What is said of the other requests stays so.
LEMMA OthersAlike ==
    ASSUME NEW u \in User, NEW f \in File, NEW r \in Request, Alone(u, r),
           NEW q \in Request, q # r
    PROVE  /\ Adding(u, f, q)' <=> Adding(u, f, q)
           /\ Created(u, f, q)' <=> Created(u, f, q)
           /\ Removing(u, f, q)' <=> Removing(u, f, q)
           /\ Reading(u, q)' <=> Reading(u, q)
           /\ Loading(u, q)' <=> Loading(u, q)
           /\ req'[q] = req[q]
<1>1. req'[q] = req[q] /\ (OfTab(u, q)' <=> OfTab(u, q))
  BY DEF Alone
<1>. QED BY <1>1 DEF Adding, Created, Removing, Reading, Loading

\* A step of one request that changes no row of the pair, tells nothing new
\* and forgets nothing.
Quiet(u, f, r) ==
    /\ Linked(u, f)' <=> Linked(u, f)
    /\ mail'[u][f] = mail[u][f] /\ list'[u] = list[u]
    /\ Adding(u, f, r)' => Adding(u, f, r)
    /\ Created(u, f, r)' => Created(u, f, r)
    /\ Removing(u, f, r)' => Removing(u, f, r) \/ ~Linked(u, f)
    /\ Untold(u, f) => Untold(u, f)' \/ Loading(u, r)'
    /\ Loading(u, r) => Loading(u, r)'
    /\ Reading(u, r)' => Reading(u, r)
    /\ HasRead(u, f, r) => HasRead(u, f, r)'

\* Such a step keeps what is said of the pair.
LEMMA QuietKeeps ==
    ASSUME NEW u \in User, NEW f \in File, NEW r \in Request, Synced(u, f),
           Alone(u, r), Quiet(u, f, r)
    PROVE  Synced(u, f)'
<1>1. /\ Shared(u, f)' = Shared(u, f) /\ Revoked(u, f)' = Revoked(u, f)
      /\ list'[u][f] = list[u][f] /\ (Linked(u, f)' <=> Linked(u, f))
  BY DEF Quiet, Shared, Revoked
<1>2. \A q \in Request :
        /\ Adding(u, f, q)' => Adding(u, f, q)
        /\ Created(u, f, q)' => Created(u, f, q)
        /\ Removing(u, f, q)' => Removing(u, f, q) \/ ~Linked(u, f)
        /\ Reading(u, q)' => Reading(u, q)
        /\ Loading(u, q) => Loading(u, q)'
  BY OthersAlike DEF Quiet
<1>3. Settled(u)' => /\ Settled(u) /\ \A q \in Request : ~Loading(u, q)'
  BY <1>2 DEF Settled, Quiet
<1>4. ToldOut(u, f)' /\ ToldIn(u, f)'
  BY <1>1, <1>2 DEF ToldOut, ToldIn, Synced
<1>5. NotYet(u, f)'
  BY <1>1, <1>2, <1>3 DEF NotYet, Synced
<1>6. Shown(u, f)'
  BY <1>1, <1>3 DEF Shown, Synced, Quiet
<1>7. ASSUME NEW q \in Request PROVE HasRead(u, f, q)'
  <2>1. CASE q = r
    BY <2>1 DEF Synced, Quiet
  <2>2. CASE q # r
    BY <1>1, <2>2, OthersAlike DEF HasRead, Synced
  <2>. QED BY <2>1, <2>2
<1>. QED BY <1>4, <1>5, <1>6, <1>7 DEF Synced

\* A row comes, and the request that made it is about to tell.
LEMMA ArrivalSynced ==
    ASSUME IInv, Shapes, IInv', Shapes',
           NEW u \in User, NEW f \in File, NEW r \in Request, Synced(u, f),
           Alone(u, r), ~Linked(u, f), Linked(u, f)',
           ~Untold(u, f), \A q \in Request : ~Reading(u, q),
           mail'[u][f] = mail[u][f], list'[u] = list[u],
           ~Removing(u, f, r)', ~Reading(u, r)',
           Loading(u, r) => Loading(u, r)', Untold(u, f)'
    PROVE  Synced(u, f)'
<1>1. /\ Shared(u, f)' = Shared(u, f) /\ Revoked(u, f)' = Revoked(u, f)
      /\ Shared(u, f) \in Nat /\ Revoked(u, f) \in Nat
      /\ list'[u][f] = list[u][f]
  BY DEF Shared, Revoked, IInv, TypeOK, Kind
<1>2. /\ Shared(u, f) = 0 /\ Revoked(u, f) = 0
      /\ \A q \in Request : ~Adding(u, f, q) /\ ~Created(u, f, q)
                            /\ ~Removing(u, f, q)
  BY <1>1, UntoldIs
<1>3. \A q \in Request : /\ Adding(u, f, q)' => q = r
                         /\ ~Removing(u, f, q)' /\ ~Reading(u, q)'
                         /\ Loading(u, q) => Loading(u, q)'
  BY <1>2, OthersAlike
<1>4. ToldOut(u, f)' /\ ToldIn(u, f)'
  BY <1>1, <1>2, <1>3 DEF ToldOut, ToldIn
<1>5. NotYet(u, f)'
  BY <1>1, <1>3 DEF NotYet, Settled, Shown, Synced
<1>6. Shown(u, f)' /\ \A q \in Request : HasRead(u, f, q)'
  BY <1>3 DEF Shown, HasRead
<1>. QED BY <1>4, <1>5, <1>6 DEF Synced

\* A row goes, and the request that deleted it is about to tell.
LEMMA DepartureSynced ==
    ASSUME IInv, Shapes, IInv', Shapes',
           NEW u \in User, NEW f \in File, NEW r \in Request, Synced(u, f),
           Alone(u, r), Linked(u, f), ~Linked(u, f)',
           ~Untold(u, f), \A q \in Request : ~Reading(u, q),
           mail'[u][f] = mail[u][f], list'[u] = list[u],
           ~Adding(u, f, r)', ~Created(u, f, r)', ~Reading(u, r)',
           Loading(u, r) => Loading(u, r)', Untold(u, f)'
    PROVE  Synced(u, f)'
<1>1. /\ Shared(u, f)' = Shared(u, f) /\ Shared(u, f) \in Nat
      /\ Revoked(u, f) \in Nat
  BY DEF Shared, Revoked, IInv, TypeOK, Kind
<1>2. /\ Shared(u, f) = 0
      /\ \A q \in Request : ~Adding(u, f, q) /\ ~Created(u, f, q)
  BY <1>1, UntoldIs
<1>3. \A q \in Request : ~Adding(u, f, q)' /\ ~Created(u, f, q)'
                         /\ ~Reading(u, q)'
  BY <1>2, OthersAlike
<1>4. ToldOut(u, f)' /\ ToldIn(u, f)'
  BY <1>1, <1>2, <1>3 DEF ToldOut, ToldIn
<1>5. NotYet(u, f)'
  BY <1>1, <1>2, <1>3 DEF NotYet
<1>6. Shown(u, f)' /\ \A q \in Request : HasRead(u, f, q)'
  BY <1>3 DEF Shown, HasRead
<1>. QED BY <1>4, <1>5, <1>6 DEF Synced

-----------------------------------------------------------------------------
(***************************************************************************)
(* The handlers.                                                           *)
(***************************************************************************)

\* What a step of a handler makes of its request.
Moves(r, pc, todo, owed, found, ok) ==
    /\ \A q \in Request \ {r} : req'[q] = req[q]
    /\ req'[r] = [pc |-> pc, user |-> req[r].user, file |-> req[r].file,
                  todo |-> todo, owed |-> owed, found |-> found, ok |-> ok]

\* A step that goes on keeps all the rest.
LEMMA GotoMoves ==
    ASSUME TypeOK, NEW r \in Request, NEW pc, Goto(r, pc)
    PROVE  Moves(r, pc, req[r].todo, req[r].owed, req[r].found, req[r].ok)
  BY DEF TypeOK, Goto, Moves

\* An answer forgets whom it owed a notification.
LEMMA AnswerMoves ==
    ASSUME TypeOK, NEW r \in Request, NEW pc
    PROVE  /\ AnswerOK(r, pc) =>
                Moves(r, pc, req[r].todo, {}, req[r].found, TRUE)
           /\ AnswerError(r, pc) =>
                Moves(r, pc, req[r].todo, {}, req[r].found, req[r].ok)
  BY DEF TypeOK, AnswerOK, AnswerError, Moves

\* A request that moves keeps its shape if what it holds fits where it goes.
LEMMA MovesShape ==
    ASSUME TypeOK, Shapes, NEW r \in Request, NEW pc, NEW todo, NEW owed,
           NEW found, NEW ok, Moves(r, pc, todo, owed, found, ok),
           req[r].pc # "idle", pc # "idle", pc \in Lists => req[r].file = NoFile,
           pc \notin {"addLinks", "notify", "revoke"} => owed = {},
           pc = "notify" => todo \subseteq owed,
           ok => pc \in Answered
    PROVE  Shapes'
<1>1. Shape(r)'
  BY DEF Moves, Shapes, Shape
<1>2. ASSUME NEW q \in Request, q # r PROVE Shape(q)'
  BY <1>2 DEF Moves, Shapes, Shape
<1>. QED BY <1>1, <1>2 DEF Shapes

\* A step of the server for the tab of u, and for one file: a row that comes
\* is not told as one that goes, and the other way round.
Tells(u, f, r) ==
    /\ (Linked(u, f)' <=> Linked(u, f)) =>
         /\ Adding(u, f, r)' => Adding(u, f, r)
         /\ Created(u, f, r)' => Created(u, f, r)
         /\ Removing(u, f, r)' => Removing(u, f, r) \/ ~Linked(u, f)
         /\ HasRead(u, f, r) => HasRead(u, f, r)'
    /\ ~Linked(u, f) /\ Linked(u, f)' => ~Removing(u, f, r)'
    /\ Linked(u, f) /\ ~Linked(u, f)' =>
         ~Adding(u, f, r)' /\ ~Created(u, f, r)'
    /\ Loading(u, r) => Loading(u, r)'
    /\ Reading(u, r)' => Reading(u, r)

\* What the history says of a pair that is not unsynced afterwards.
LEMMA NotUnsynced ==
    ASSUME NEW u \in User, NEW f \in File,
           unsynced' = unsynced \cup Crossed \cup Lapsed,
           <<u, f>> \notin unsynced'
    PROVE  /\ <<u, f>> \notin unsynced
           /\ \/ Linked(u, f)' <=> Linked(u, f)
              \/ /\ ~Untold(u, f) /\ \A r \in Request : ~Reading(u, r)
                 /\ Untold(u, f)'
           /\ Untold(u, f) => Untold(u, f)'
<1>1. <<u, f>> \notin unsynced /\ <<u, f>> \notin Crossed
      /\ <<u, f>> \notin Lapsed
  OBVIOUS
<1>2. <<u, f>> \in User \X File
  OBVIOUS
<1>3. Changed(u, f) => ~Untold(u, f) /\ \A r \in Request : ~Reading(u, r)
  BY <1>1, <1>2 DEF Crossed
<1>4. Untold(u, f) \/ Changed(u, f) => Untold(u, f)'
  <2>1. (Untold(u, f) \/ Changed(u, f)) /\ ~Untold(u, f)' => <<u, f>> \in Lapsed
    BY <1>2 DEF Lapsed
  <2>. QED BY <1>1, <2>1
<1>5. ~Changed(u, f) => (Linked(u, f)' <=> Linked(u, f))
  BY DEF Changed, Linked
<1>. QED BY <1>1, <1>3, <1>4, <1>5

\* Such a step keeps what is said of the pair.
LEMMA TellsSynced ==
    ASSUME HInv, IInv', Shapes', NEW r \in Request,
           \A q \in Request \ {r} : req'[q] = req[q], UNCHANGED tabs,
           unsynced' = unsynced \cup Crossed \cup Lapsed,
           NEW u \in User, NEW f \in File, <<u, f>> \notin unsynced',
           mail'[u][f] = mail[u][f], Tells(u, f, r)
    PROVE  Synced(u, f)'
<1>1. /\ IInv /\ Shapes /\ Synced(u, f) /\ list'[u] = list[u]
      /\ \/ Linked(u, f)' <=> Linked(u, f)
         \/ /\ ~Untold(u, f) /\ \A q \in Request : ~Reading(u, q)
            /\ Untold(u, f)'
      /\ Untold(u, f) => Untold(u, f)'
  BY NotUnsynced DEF HInv, AllSynced, tabs
<1>2. Alone(u, r)
  BY DEF Alone, OfTab, tabs
<1>3. CASE Linked(u, f)' <=> Linked(u, f)
  <2>1. Quiet(u, f, r)
    BY <1>1, <1>3 DEF Quiet, Tells
  <2>. QED BY <1>1, <1>2, <2>1, QuietKeeps
<1>4. CASE ~Linked(u, f) /\ Linked(u, f)'
  <2>1. ~Removing(u, f, r)' /\ ~Reading(u, r)'
        /\ (Loading(u, r) => Loading(u, r)')
    BY <1>1, <1>4 DEF Tells
  <2>. QED BY <1>1, <1>2, <1>4, <2>1, ArrivalSynced
<1>5. CASE Linked(u, f) /\ ~Linked(u, f)'
  <2>1. ~Adding(u, f, r)' /\ ~Created(u, f, r)' /\ ~Reading(u, r)'
        /\ (Loading(u, r) => Loading(u, r)')
    BY <1>1, <1>5 DEF Tells
  <2>. QED BY <1>1, <1>2, <1>5, <2>1, DepartureSynced
<1>. QED BY <1>3, <1>4, <1>5

\* The step of a handler that lists no files.
Handled(r, pc, todo, owed, ok) ==
    /\ Moves(r, pc, todo, owed, req[r].found, ok)
    /\ Served(r)
    /\ pc # "idle" /\ pc \notin Lists
    /\ pc \notin {"addLinks", "notify", "revoke"} => owed = {}
    /\ pc = "notify" => todo \subseteq owed
    /\ ok => pc \in Answered
    /\ UNCHANGED tabs
    /\ unsynced' = unsynced \cup Crossed \cup Lapsed

\* It leaves its request in shape.
LEMMA HandledShapes ==
    ASSUME HInv, NEW r \in Request, NEW pc, NEW todo, NEW owed, NEW ok,
           Handled(r, pc, todo, owed, ok)
    PROVE  Shapes'
  BY MovesShape DEF HInv, IInv, Handled, Served

\* What it tells the tab of u about f agrees with what it does to the row.
Fits(u, f, r, pc, owed, ok) ==
    /\ (Linked(u, f)' <=> Linked(u, f)) /\ req[r].file = f =>
         /\ u \in owed /\ pc \in {"addLinks", "notify"} => Adding(u, f, r)
         /\ ~(req[r].user = u /\ pc = "created" /\ ok)
         /\ \/ u \in owed /\ pc = "revoke"
            \/ req[r].user = u /\ pc = "publishDeleted"
            \/ req[r].user = u /\ pc = "deleted" /\ ok
            => ~Linked(u, f) \/ Removing(u, f, r)
    /\ ~Linked(u, f) /\ Linked(u, f)' =>
         pc \notin {"revoke", "publishDeleted", "deleted"}
    /\ Linked(u, f) /\ ~Linked(u, f)' =>
         pc \notin {"addLinks", "notify", "created"}

\* Then it keeps what is said of the pair.
LEMMA HandledSynced ==
    ASSUME HInv, IInv', NEW r \in Request, NEW pc, NEW todo, NEW owed, NEW ok,
           Handled(r, pc, todo, owed, ok),
           NEW u \in User, NEW f \in File, <<u, f>> \notin unsynced',
           mail'[u][f] = mail[u][f], Fits(u, f, r, pc, owed, ok)
    PROVE  Synced(u, f)'
<1>1. /\ req'[r].pc = pc /\ req'[r].owed = owed /\ req'[r].ok = ok
      /\ req'[r].user = req[r].user /\ req'[r].file = req[r].file
      /\ \A q \in Request \ {r} : req'[q] = req[q]
      /\ UNCHANGED tabs /\ orphans' = orphans
  BY DEF Handled, Moves, tabs
<1>2. ~Loading(u, r) /\ ~Reading(u, r)'
  BY <1>1 DEF Handled, Served, Lists, Answered, Loading, Reading
<1>3. HasRead(u, f, r)'
  BY <1>2 DEF HasRead
<1>4. Tells(u, f, r)
  <2>1. (Linked(u, f)' <=> Linked(u, f)) =>
          /\ Adding(u, f, r)' => Adding(u, f, r)
          /\ ~Created(u, f, r)'
          /\ Removing(u, f, r)' => Removing(u, f, r) \/ ~Linked(u, f)
    BY <1>1 DEF Fits, Adding, Created, Removing, OfTab
  <2>2. ~Linked(u, f) /\ Linked(u, f)' => ~Removing(u, f, r)'
    BY <1>1 DEF Fits, Removing
  <2>3. Linked(u, f) /\ ~Linked(u, f)' =>
          ~Adding(u, f, r)' /\ ~Created(u, f, r)'
    BY <1>1 DEF Fits, Adding, Created
  <2>. QED BY <1>2, <1>3, <2>1, <2>2, <2>3 DEF Tells
<1>5. Shapes' /\ unsynced' = unsynced \cup Crossed \cup Lapsed
  BY HandledShapes DEF Handled
<1>. QED BY <1>1, <1>4, <1>5, TellsSynced

\* A step that changes the row of one user at most, and tells no one.
LEMMA RowSynced ==
    ASSUME HInv, IInv', NEW r \in Request, NEW pc, NEW todo, NEW owed, NEW ok,
           Handled(r, pc, todo, owed, ok), mail' = mail,
           \A u \in User, f \in File : Fits(u, f, r, pc, owed, ok)
    PROVE  Shapes' /\ AllSynced'
<1>1. ASSUME NEW u \in User, NEW f \in File, <<u, f>> \notin unsynced'
      PROVE  Synced(u, f)'
  <2>1. Fits(u, f, r, pc, owed, ok) /\ mail'[u][f] = mail[u][f]
    OBVIOUS
  <2>. QED BY <1>1, <2>1, HandledSynced
<1>. QED BY <1>1, HandledShapes DEF AllSynced

\* A statement that fails, or an answer that says no.
LEMMA ErrorSynced ==
    ASSUME HInv, IInv', NEW r \in Request, NEW pc \in Answered \ {"listed"},
           AnswerError(r, pc), Served(r),
           UNCHANGED <<role, mail>>, UNCHANGED tabs,
           unsynced' = unsynced \cup Crossed \cup Lapsed
    PROVE  Shapes' /\ AllSynced'
<1>1. Handled(r, pc, req[r].todo, {}, FALSE)
  <2>1. Moves(r, pc, req[r].todo, {}, req[r].found, req[r].ok)
    BY AnswerMoves DEF HInv, IInv
  <2>2. req[r].ok = FALSE
    BY DEF HInv, IInv, TypeOK, Shapes, Shape, Served
  <2>. QED BY <2>1, <2>2 DEF Handled, Answered, Lists
<1>2. ASSUME NEW u \in User, NEW f \in File
      PROVE  Fits(u, f, r, pc, {}, FALSE)
  <2>1. Linked(u, f)' <=> Linked(u, f)
    BY DEF Linked
  <2>. QED BY <2>1 DEF Fits, Answered
<1>. QED BY <1>1, <1>2, RowSynced

\* A statement that reads, or creates a row of files, and goes on.
LEMMA GoesSynced ==
    ASSUME HInv, IInv', NEW r \in Request,
           NEW pc \in Making \cup (Using \ {"publishDeleted", "notify"}),
           Goto(r, pc), Served(r),
           req[r].pc \notin {"addLinks", "notify", "revoke"},
           UNCHANGED <<role, mail>>, UNCHANGED tabs,
           unsynced' = unsynced \cup Crossed \cup Lapsed
    PROVE  Shapes' /\ AllSynced'
<1>1. Handled(r, pc, req[r].todo, {}, FALSE)
  <2>1. Moves(r, pc, req[r].todo, req[r].owed, req[r].found, req[r].ok)
    BY GotoMoves DEF HInv, IInv
  <2>2. req[r].ok = FALSE /\ req[r].owed = {}
    BY DEF HInv, IInv, TypeOK, Shapes, Shape, Served
  <2>. QED BY <2>1, <2>2 DEF Handled, Making, Using, Lists
<1>2. ASSUME NEW u \in User, NEW f \in File
      PROVE  Fits(u, f, r, pc, {}, FALSE)
  <2>1. Linked(u, f)' <=> Linked(u, f)
    BY DEF Linked
  <2>. QED BY <2>1 DEF Fits, Making, Using
<1>. QED BY <1>1, <1>2, RowSynced

\* CreateFileController.
LEMMA CreateSynced ==
    ASSUME HInv, IInv', NEW r \in Request, Create(r), UNCHANGED tabs,
           unsynced' = unsynced \cup Crossed \cup Lapsed
    PROVE  Shapes' /\ AllSynced'
<1>0. /\ req[r].pc \in Making /\ Served(r)
      /\ req[r].pc \notin {"addLinks", "notify", "revoke"}
  BY DEF Create, InsertFile, InsertOwner, Making, Served, Lists, Answered
<1>1. CASE AnswerError(r, "created") /\ UNCHANGED <<role, mail>>
  BY <1>0, <1>1, ErrorSynced DEF Answered
<1>2. CASE Goto(r, "insertOwner") /\ UNCHANGED <<role, mail>>
  BY <1>0, <1>2, GoesSynced DEF Making
<1>3. CASE /\ role' = [role EXCEPT ![req[r].file][req[r].user] = "Owner"]
           /\ ~Linked(req[r].user, req[r].file)
           /\ AnswerOK(r, "created") /\ mail' = mail
  <2>1. Handled(r, "created", req[r].todo, {}, TRUE)
    <3>1. Moves(r, "created", req[r].todo, {}, req[r].found, TRUE)
      BY <1>3, AnswerMoves DEF HInv, IInv
    <3>. QED BY <1>0, <3>1 DEF Handled, Answered, Lists
  <2>2. ASSUME NEW u \in User, NEW f \in File
        PROVE  Fits(u, f, r, "created", {}, TRUE)
    <3>1. /\ req[r].file = f /\ req[r].user = u =>
                ~Linked(u, f) /\ Linked(u, f)'
          /\ req[r].file # f \/ req[r].user # u =>
                (Linked(u, f)' <=> Linked(u, f))
      BY <1>3 DEF Linked, HInv, IInv, TypeOK
    <3>. QED BY <3>1 DEF Fits
  <2>. QED BY <1>3, <2>1, <2>2, RowSynced
<1>. QED BY <1>1, <1>2, <1>3
         DEF Create, InsertFile, InsertOwner, StatementFails

\* DeleteFileController.
LEMMA DeleteSynced ==
    ASSUME HInv, IInv', NEW r \in Request, Delete(r), UNCHANGED tabs,
           unsynced' = unsynced \cup Crossed \cup Lapsed
    PROVE  Shapes' /\ AllSynced'
<1>0. /\ req[r].pc \in Using /\ Served(r)
      /\ req[r].pc \notin {"addLinks", "notify", "revoke"}
  BY DEF Delete, FindLink, DeleteFileRow, PublishFileDeleted, DeleteLink,
     Using, Served, Lists, Answered
<1>1. CASE AnswerError(r, "deleted") /\ UNCHANGED <<role, mail>>
  BY <1>0, <1>1, ErrorSynced DEF Answered
<1>2. CASE /\ Goto(r, "deleteFile") \/ Goto(r, "deleteLink")
           /\ UNCHANGED <<role, mail>>
  BY <1>0, <1>2, GoesSynced DEF Using
<1>3. CASE /\ role' = [role EXCEPT ![req[r].file] = [v \in User |-> "None"]]
           /\ Goto(r, "publishDeleted") /\ mail' = mail
  <2>1. Handled(r, "publishDeleted", req[r].todo, {}, FALSE)
    <3>1. Moves(r, "publishDeleted", req[r].todo, req[r].owed, req[r].found,
                req[r].ok)
      BY <1>3, GotoMoves DEF HInv, IInv
    <3>2. req[r].ok = FALSE /\ req[r].owed = {}
      BY <1>0 DEF HInv, IInv, TypeOK, Shapes, Shape, Served
    <3>. QED BY <1>0, <3>1, <3>2 DEF Handled, Answered, Lists
  <2>2. ASSUME NEW u \in User, NEW f \in File
        PROVE  Fits(u, f, r, "publishDeleted", {}, FALSE)
    <3>1. /\ req[r].file = f => ~Linked(u, f)'
          /\ req[r].file # f => (Linked(u, f)' <=> Linked(u, f))
      BY <1>3 DEF Linked, HInv, IInv, TypeOK
    <3>. QED BY <3>1 DEF Fits
  <2>. QED BY <1>3, <2>1, <2>2, RowSynced
<1>4. CASE /\ req[r].pc = "publishDeleted"
           /\ AnswerOK(r, "deleted") /\ UNCHANGED <<role, mail>>
  <2>1. Handled(r, "deleted", req[r].todo, {}, TRUE)
    <3>1. Moves(r, "deleted", req[r].todo, {}, req[r].found, TRUE)
      BY <1>4, AnswerMoves DEF HInv, IInv
    <3>. QED BY <1>0, <3>1 DEF Handled, Answered, Lists
  <2>2. ASSUME NEW u \in User, NEW f \in File, <<u, f>> \notin unsynced'
        PROVE  Synced(u, f)'
    <3>1. (Linked(u, f)' <=> Linked(u, f)) /\ mail'[u][f] = mail[u][f]
      BY <1>4 DEF Linked
    <3>2. CASE u = req[r].user /\ f = req[r].file /\ r \notin orphans
      <4>1. Removing(u, f, r)
        BY <1>4, <3>2 DEF Removing, OfTab
      <4>2. Fits(u, f, r, "deleted", {}, TRUE)
        BY <3>1, <4>1 DEF Fits
      <4>. QED BY <2>1, <2>2, <3>1, <4>2, HandledSynced
    <3>3. CASE u = req[r].user /\ f = req[r].file /\ r \in orphans
      <4>1. /\ req'[r].pc = "deleted" /\ req'[r].owed = {}
            /\ orphans' = orphans
            /\ \A q \in Request \ {r} : req'[q] = req[q]
        BY <2>1 DEF Handled, Moves, tabs
      <4>2. /\ ~Adding(u, f, r)' /\ ~Created(u, f, r)' /\ ~Removing(u, f, r)'
            /\ ~Reading(u, r)' /\ ~Loading(u, r)
        BY <3>3, <4>1 DEF Adding, Created, Removing, Reading, Loading, OfTab
      <4>3. Tells(u, f, r)
        BY <3>1, <4>2 DEF Tells, HasRead
      <4>. QED BY <2>1, <2>2, <3>1, <4>1, <4>3, HandledShapes, TellsSynced
    <3>4. CASE u # req[r].user \/ f # req[r].file
      <4>1. Fits(u, f, r, "deleted", {}, TRUE)
        BY <3>1, <3>4 DEF Fits
      <4>. QED BY <2>1, <2>2, <3>1, <4>1, HandledSynced
    <3>. QED BY <3>2, <3>3, <3>4
  <2>. QED BY <2>1, <2>2, HandledShapes DEF AllSynced
<1>5. CASE /\ role' = [role EXCEPT ![req[r].file][req[r].user] = "None"]
           /\ AnswerOK(r, "deleted") /\ mail' = mail
  <2>1. Handled(r, "deleted", req[r].todo, {}, TRUE)
    <3>1. Moves(r, "deleted", req[r].todo, {}, req[r].found, TRUE)
      BY <1>5, AnswerMoves DEF HInv, IInv
    <3>. QED BY <1>0, <3>1 DEF Handled, Answered, Lists
  <2>2. ASSUME NEW u \in User, NEW f \in File
        PROVE  Fits(u, f, r, "deleted", {}, TRUE)
    <3>1. /\ req[r].file = f /\ req[r].user = u => ~Linked(u, f)'
          /\ req[r].file # f \/ req[r].user # u =>
                (Linked(u, f)' <=> Linked(u, f))
      BY <1>5 DEF Linked, HInv, IInv, TypeOK
    <3>. QED BY <3>1 DEF Fits
  <2>. QED BY <1>5, <2>1, <2>2, RowSynced
<1>. QED BY <1>1, <1>2, <1>3, <1>4, <1>5
         DEF Delete, FindLink, DeleteFileRow, PublishFileDeleted, DeleteLink,
             StatementFails


\* Telling a user that a file has come.
LEMMA ToldShared ==
    ASSUME HInv, IInv', NEW r \in Request, req[r].pc = "notify",
           NEW u \in req[r].todo, NEW f, f = req[r].file,
           Routed(u, f, "file_shared"),
           NEW pc \in {"notify", "done"}, NEW todo, NEW owed \in SUBSET User,
           u \notin owed, Handled(r, pc, todo, owed, FALSE), role' = role,
           <<u, f>> \notin unsynced'
    PROVE  Synced(u, f)'
<1>1. f \in File /\ u \in User /\ Adding(u, f, r)
  <2>1. f \in File
    BY Subject DEF HInv, Using
  <2>. QED BY <2>1 DEF HInv, IInv, TypeOK, Shapes, Shape, Adding
<1>2. Synced(u, f)
  <2>1. <<u, f>> \notin unsynced
    BY DEF Handled
  <2>. QED BY <1>1, <2>1 DEF HInv, AllSynced
<1>3. /\ Linked(u, f) /\ Shared(u, f) = 0
      /\ \A q \in Request : ~Reading(u, q) /\ (Adding(u, f, q) => q = r)
  BY <1>1, <1>2 DEF Synced, ToldIn
<1>4. Revoked(u, f) = 0 /\ \A q \in Request : ~Removing(u, f, q)
  <2>1. Revoked(u, f) \in Nat
    BY <1>1 DEF HInv, IInv, TypeOK, Revoked, Kind
  <2>. QED BY <1>2, <1>3, <2>1 DEF Synced, ToldOut
<1>5. /\ Shared(u, f)' = 1 /\ Revoked(u, f)' = 0 /\ Linked(u, f)'
      /\ mail'[u][f]["file_shared"] > 0
  <2>1. mail \in [User -> [File -> [Kind -> Nat]]] /\ "file_shared" \in Kind
        /\ "file_revoke" \in Kind
    BY DEF HInv, IInv, TypeOK, Kind
  <2>2. /\ mail'[u][f]["file_shared"] = mail[u][f]["file_shared"] + 1
        /\ mail'[u][f]["file_revoke"] = mail[u][f]["file_revoke"]
    BY <1>1, <2>1 DEF Routed
  <2>3. req'[r].file = f
    BY DEF Handled, Moves
  <2>. QED BY <1>3, <1>4, <2>2, <2>3 DEF Shared, Revoked, Linked
<1>6. /\ req'[r].pc = pc /\ req'[r].owed = owed /\ req'[r].file = f
      /\ \A q \in Request \ {r} : req'[q] = req[q]
      /\ list' = list /\ orphans' = orphans
  BY DEF Handled, Moves, tabs
<1>7. /\ ~Adding(u, f, r)' /\ ~Removing(u, f, r)' /\ ~Reading(u, r)'
      /\ ~Loading(u, r)
  BY <1>6 DEF Adding, Removing, Reading, Loading
<1>8. Alone(u, r)
  BY <1>6 DEF Alone, OfTab
<1>9. \A q \in Request : /\ ~Adding(u, f, q)' /\ ~Removing(u, f, q)'
                         /\ ~Reading(u, q)'
                         /\ Loading(u, q) => Loading(u, q)'
  BY <1>1, <1>3, <1>4, <1>7, <1>8, OthersAlike
<1>10. ToldOut(u, f)' /\ ToldIn(u, f)'
  BY <1>5, <1>9 DEF ToldOut, ToldIn
<1>11. NotYet(u, f)'
  BY <1>1, <1>2, <1>6, <1>9 DEF NotYet, Synced, Settled
<1>12. Untold(u, f)'
  BY <1>5 DEF Untold, Kind
<1>13. Shown(u, f)' /\ \A q \in Request : HasRead(u, f, q)'
  BY <1>9, <1>12 DEF Shown, HasRead
<1>. QED BY <1>6, <1>10, <1>11, <1>13 DEF Synced

\* Telling a user that a file has gone.
LEMMA ToldRevoked ==
    ASSUME HInv, IInv', NEW r \in Request, req[r].pc = "revoke",
           NEW u \in req[r].owed, NEW f, f = req[r].file,
           Routed(u, f, "file_revoke"),
           NEW ok \in BOOLEAN, Handled(r, "done", req[r].todo, {}, ok),
           role' = role, <<u, f>> \notin unsynced'
    PROVE  Synced(u, f)'
<1>1. f \in File /\ u \in User /\ Removing(u, f, r)
  <2>1. f \in File
    BY Subject DEF HInv, Using
  <2>. QED BY <2>1 DEF HInv, IInv, TypeOK, Removing
<1>2. Synced(u, f)
  <2>1. <<u, f>> \notin unsynced
    BY DEF Handled
  <2>. QED BY <1>1, <2>1 DEF HInv, AllSynced
<1>3. ~Linked(u, f)
  BY <1>1, <1>2 DEF Synced, ToldOut
<1>4. /\ Shared(u, f) = 0
      /\ \A q \in Request : ~Adding(u, f, q) /\ ~Created(u, f, q)
  <2>1. Shared(u, f) \in Nat
    BY <1>1 DEF HInv, IInv, TypeOK, Shared, Kind
  <2>. QED BY <1>2, <1>3, <2>1 DEF Synced, ToldIn
<1>5. /\ Shared(u, f)' = 0 /\ ~Linked(u, f)'
      /\ mail'[u][f]["file_revoke"] > 0
  <2>1. mail \in [User -> [File -> [Kind -> Nat]]] /\ "file_shared" \in Kind
        /\ "file_revoke" \in Kind
    BY DEF HInv, IInv, TypeOK, Kind
  <2>2. /\ mail'[u][f]["file_revoke"] = mail[u][f]["file_revoke"] + 1
        /\ mail[u][f]["file_revoke"] \in Nat
        /\ mail'[u][f]["file_shared"] = mail[u][f]["file_shared"]
    BY <1>1, <2>1 DEF Routed
  <2>3. req'[r].file = f
    BY DEF Handled, Moves
  <2>. QED BY <1>3, <1>4, <2>2, <2>3 DEF Shared, Linked
<1>6. /\ req'[r].pc = "done" /\ req'[r].owed = {} /\ req'[r].file = f
      /\ \A q \in Request \ {r} : req'[q] = req[q]
      /\ list' = list /\ orphans' = orphans
  BY DEF Handled, Moves, tabs
<1>7. /\ ~Adding(u, f, r)' /\ ~Created(u, f, r)' /\ ~Reading(u, r)'
      /\ ~Loading(u, r)
  BY <1>6 DEF Adding, Created, Reading, Loading
<1>8. Alone(u, r)
  BY <1>6 DEF Alone, OfTab
<1>9. \A q \in Request : ~Adding(u, f, q)' /\ ~Created(u, f, q)'
  BY <1>1, <1>4, <1>7, <1>8, OthersAlike
<1>10. ToldOut(u, f)' /\ ToldIn(u, f)' /\ NotYet(u, f)'
  BY <1>5, <1>9 DEF ToldOut, ToldIn, NotYet
<1>11. Untold(u, f)'
  BY <1>5 DEF Untold, Kind
<1>12. Shown(u, f)'
  BY <1>11 DEF Shown
<1>13. ASSUME NEW q \in Request PROVE HasRead(u, f, q)'
  <2>1. CASE q = r
    BY <1>7, <2>1 DEF HasRead
  <2>2. CASE q # r
    <3>1. /\ Reading(u, q)' <=> Reading(u, q)
          /\ req'[q] = req[q]
      BY <1>1, <1>8, <2>2, OthersAlike
    <3>. QED BY <1>2, <1>3, <1>5, <3>1 DEF HasRead, Synced
  <2>. QED BY <2>1, <2>2
<1>. QED BY <1>6, <1>10, <1>12, <1>13 DEF Synced


\* ShareFileController.
LEMMA ShareSynced ==
    ASSUME HInv, IInv', NEW r \in Request, Share(r), UNCHANGED tabs,
           unsynced' = unsynced \cup Crossed \cup Lapsed
    PROVE  Shapes' /\ AllSynced'
<1>0. /\ req[r].pc \in Using /\ Served(r) /\ req[r].ok = FALSE
      /\ req[r].file \in File /\ req \in [Request -> ReqState]
  <2>1. req[r].pc \in Using /\ Served(r)
    BY DEF Share, FindFile, AddLink, AllLinked, NotifyShared, AllNotified,
       Using, Served, Lists, Answered
  <2>2. req[r].ok = FALSE /\ req \in [Request -> ReqState]
    BY <2>1 DEF HInv, IInv, TypeOK, ReqState, Shapes, Shape, Served
  <2>. QED BY <2>1, <2>2, Subject DEF HInv
<1>1. CASE AnswerError(r, "done") /\ UNCHANGED <<role, mail>>
  BY <1>0, <1>1, ErrorSynced DEF Answered
<1>2. CASE /\ req[r].pc = "findFile" /\ Goto(r, "addLinks")
           /\ UNCHANGED <<role, mail>>
  BY <1>0, <1>2, GoesSynced DEF Using
<1>3. ASSUME req[r].pc = "addLinks", NEW v \in req[r].todo,
             ~Linked(v, req[r].file),
             role' = [role EXCEPT ![req[r].file][v] = "Collaborator"],
             req' = [req EXCEPT ![r].todo = @ \ {v}, ![r].owed = @ \cup {v}],
             mail' = mail
      PROVE  Shapes' /\ AllSynced'
  <2> DEFINE owed == req[r].owed \cup {v}
  <2>1. Handled(r, "addLinks", req[r].todo \ {v}, owed, FALSE)
    <3>1. Moves(r, "addLinks", req[r].todo \ {v}, owed, req[r].found, FALSE)
      <4>1. /\ req'[r] = [req[r] EXCEPT !.todo = req[r].todo \ {v},
                                       !.owed = req[r].owed \cup {v}]
            /\ \A q \in Request \ {r} : req'[q] = req[q]
        BY <1>0, <1>3 DEF ReqState
      <4>2. req[r] \in ReqState
        BY <1>0
      <4>. QED BY <1>0, <1>3, <4>1, <4>2 DEF Moves, ReqState
    <3>. QED BY <1>0, <3>1 DEF Handled, Lists
  <2>2. ASSUME NEW u \in User, NEW f \in File
        PROVE  Fits(u, f, r, "addLinks", owed, FALSE)
    <3>1. CASE u = v /\ f = req[r].file
      <4>1. ~Linked(u, f) /\ Linked(u, f)'
        BY <1>0, <1>3, <3>1 DEF Linked, HInv, IInv, TypeOK
      <4>. QED BY <4>1 DEF Fits
    <3>2. CASE u # v \/ f # req[r].file
      <4>1. Linked(u, f)' <=> Linked(u, f)
        BY <1>0, <1>3, <3>2 DEF Linked, HInv, IInv, TypeOK
      <4>. QED BY <1>3, <3>2, <4>1 DEF Fits, Adding
    <3>. QED BY <3>1, <3>2
  <2> HIDE DEF owed
  <2>. QED BY <1>3, <2>1, <2>2, RowSynced
<1>4. CASE /\ req[r].pc = "addLinks" /\ UNCHANGED <<role, mail>>
           /\ req' = [req EXCEPT ![r].pc = "notify", ![r].todo = req[r].owed]
  <2>1. Handled(r, "notify", req[r].owed, req[r].owed, FALSE)
    <3>1. Moves(r, "notify", req[r].owed, req[r].owed, req[r].found, FALSE)
      BY <1>0, <1>4 DEF Moves, ReqState
    <3>. QED BY <1>0, <3>1 DEF Handled, Lists
  <2>2. ASSUME NEW u \in User, NEW f \in File
        PROVE  Fits(u, f, r, "notify", req[r].owed, FALSE)
    <3>1. Linked(u, f)' <=> Linked(u, f)
      BY <1>4 DEF Linked
    <3>. QED BY <1>4, <3>1 DEF Fits, Adding
  <2>. QED BY <1>4, <2>1, <2>2, RowSynced
<1>5. ASSUME req[r].pc = "notify", NEW v \in req[r].todo,
             Routed(v, req[r].file, "file_shared"), role' = role,
             NEW pc \in {"notify", "done"}, NEW todo,
             NEW owed \in SUBSET req[r].owed, v \notin owed,
             Handled(r, pc, todo, owed, FALSE)
      PROVE  Shapes' /\ AllSynced'
  <2>1. ASSUME NEW u \in User, NEW f \in File, <<u, f>> \notin unsynced'
        PROVE  Synced(u, f)'
    <3>1. CASE u = v /\ f = req[r].file
      <4>1. owed \in SUBSET User
        BY <1>0 DEF ReqState
      <4>. QED BY <1>5, <2>1, <3>1, <4>1, ToldShared
    <3>2. CASE u # v \/ f # req[r].file
      <4>1. mail'[u][f] = mail[u][f] /\ (Linked(u, f)' <=> Linked(u, f))
        BY <1>0, <1>5, <3>2 DEF Routed, Linked, HInv, IInv, TypeOK
      <4>2. Fits(u, f, r, pc, owed, FALSE)
        BY <1>5, <4>1 DEF Fits, Adding
      <4>. QED BY <1>5, <2>1, <4>1, <4>2, HandledSynced
    <3>. QED BY <3>1, <3>2
  <2>. QED BY <1>5, <2>1, HandledShapes DEF AllSynced
<1>6. CASE NotifyShared(r)
  <2>1. PICK v \in req[r].todo :
          /\ Routed(v, req[r].file, "file_shared")
          /\ \/ req' = [req EXCEPT ![r].todo = @ \ {v}, ![r].owed = @ \ {v}]
             \/ AnswerError(r, "done")
    BY <1>6 DEF NotifyShared
  <2>2. req[r].pc = "notify" /\ role' = role /\ req[r].todo \subseteq req[r].owed
    BY <1>6 DEF NotifyShared, HInv, Shapes, Shape
  <2>3. CASE AnswerError(r, "done")
    <3>1. Moves(r, "done", req[r].todo, {}, req[r].found, FALSE)
      BY <1>0, <2>3, AnswerMoves DEF HInv, IInv
    <3>2. Handled(r, "done", req[r].todo, {}, FALSE)
      BY <1>0, <2>2, <3>1 DEF Handled, Lists, Answered
    <3>3. {} \in SUBSET req[r].owed /\ v \notin {}
      OBVIOUS
    <3>. QED BY <2>1, <2>2, <3>2, <3>3, <1>5
  <2>4. CASE req' = [req EXCEPT ![r].todo = @ \ {v}, ![r].owed = @ \ {v}]
    <3> DEFINE owed == req[r].owed \ {v}
    <3>1. Moves(r, "notify", req[r].todo \ {v}, owed, req[r].found, FALSE)
      BY <1>0, <2>2, <2>4 DEF Moves, ReqState
    <3>2. Handled(r, "notify", req[r].todo \ {v}, owed, FALSE)
      BY <1>0, <2>2, <3>1 DEF Handled, Lists
    <3>3. owed \in SUBSET req[r].owed /\ v \notin owed
      OBVIOUS
    <3> HIDE DEF owed
    <3>. QED BY <2>1, <2>2, <3>2, <3>3, <1>5
  <2>. QED BY <2>1, <2>3, <2>4
<1>7. CASE AllNotified(r)
  <2>1. Handled(r, "done", req[r].todo, {}, TRUE)
    <3>1. Moves(r, "done", req[r].todo, {}, req[r].found, TRUE)
      BY <1>7, AnswerMoves DEF HInv, IInv, AllNotified
    <3>. QED BY <1>0, <3>1 DEF Handled, Lists, Answered
  <2>2. ASSUME NEW u \in User, NEW f \in File
        PROVE  Fits(u, f, r, "done", {}, TRUE)
    <3>1. Linked(u, f)' <=> Linked(u, f)
      BY <1>7 DEF Linked, AllNotified
    <3>. QED BY <3>1 DEF Fits
  <2>. QED BY <1>7, <2>1, <2>2, RowSynced DEF AllNotified
<1>. QED BY <1>1, <1>2, <1>3, <1>4, <1>6, <1>7
         DEF Share, FindFile, AddLink, AllLinked

\* RemovedUserController.
LEMMA RemoveSynced ==
    ASSUME HInv, IInv', NEW r \in Request, Remove(r), UNCHANGED tabs,
           unsynced' = unsynced \cup Crossed \cup Lapsed
    PROVE  Shapes' /\ AllSynced'
<1>0. /\ req[r].pc \in Using /\ Served(r) /\ req[r].ok = FALSE
      /\ req[r].file \in File /\ req \in [Request -> ReqState]
  <2>1. req[r].pc \in Using /\ Served(r)
    BY DEF Remove, RemoveLink, NotifyRevoked, Using, Served, Lists, Answered
  <2>2. req[r].ok = FALSE /\ req \in [Request -> ReqState]
    BY <2>1 DEF HInv, IInv, TypeOK, ReqState, Shapes, Shape, Served
  <2>. QED BY <2>1, <2>2, Subject DEF HInv
<1>1. CASE AnswerError(r, "done") /\ UNCHANGED <<role, mail>>
  BY <1>0, <1>1, ErrorSynced DEF Answered
<1>2. ASSUME req[r].pc = "removeLink", NEW v \in req[r].todo,
             Linked(v, req[r].file),
             role' = [role EXCEPT ![req[r].file][v] = "None"],
             req' = [req EXCEPT ![r].pc = "revoke", ![r].owed = {v}],
             mail' = mail
      PROVE  Shapes' /\ AllSynced'
  <2>1. Handled(r, "revoke", req[r].todo, {v}, FALSE)
    <3>1. Moves(r, "revoke", req[r].todo, {v}, req[r].found, FALSE)
      <4>1. /\ req'[r] = [req[r] EXCEPT !.pc = "revoke", !.owed = {v}]
            /\ \A q \in Request \ {r} : req'[q] = req[q]
        BY <1>0, <1>2 DEF ReqState
      <4>2. req[r] \in ReqState
        BY <1>0
      <4>. QED BY <1>0, <1>2, <4>1, <4>2 DEF Moves, ReqState
    <3>. QED BY <1>0, <3>1 DEF Handled, Lists
  <2>2. ASSUME NEW u \in User, NEW f \in File
        PROVE  Fits(u, f, r, "revoke", {v}, FALSE)
    <3>1. CASE u = v /\ f = req[r].file
      <4>1. Linked(u, f) /\ ~Linked(u, f)'
        BY <1>0, <1>2, <3>1 DEF Linked, HInv, IInv, TypeOK
      <4>. QED BY <4>1 DEF Fits
    <3>2. CASE u # v \/ f # req[r].file
      <4>1. Linked(u, f)' <=> Linked(u, f)
        BY <1>0, <1>2, <3>2 DEF Linked, HInv, IInv, TypeOK
      <4>. QED BY <3>2, <4>1 DEF Fits
    <3>. QED BY <3>1, <3>2
  <2>. QED BY <1>2, <2>1, <2>2, RowSynced
<1>3. ASSUME req[r].pc = "revoke", NEW v \in req[r].owed,
             Routed(v, req[r].file, "file_revoke"), role' = role,
             AnswerOK(r, "done") \/ AnswerError(r, "done")
      PROVE  Shapes' /\ AllSynced'
  <2>1. PICK ok \in BOOLEAN : Handled(r, "done", req[r].todo, {}, ok)
    <3>1. PICK ok \in BOOLEAN :
            Moves(r, "done", req[r].todo, {}, req[r].found, ok)
      BY <1>0, <1>3, AnswerMoves DEF HInv, IInv
    <3>. QED BY <1>0, <3>1 DEF Handled, Lists, Answered
  <2>2. ASSUME NEW u \in User, NEW f \in File, <<u, f>> \notin unsynced'
        PROVE  Synced(u, f)'
    <3>1. CASE u = v /\ f = req[r].file
      BY <1>3, <2>1, <2>2, <3>1, ToldRevoked
    <3>2. CASE u # v \/ f # req[r].file
      <4>1. mail'[u][f] = mail[u][f] /\ (Linked(u, f)' <=> Linked(u, f))
        BY <1>0, <1>3, <3>2 DEF Routed, Linked, HInv, IInv, TypeOK
      <4>2. Fits(u, f, r, "done", {}, ok)
        BY <4>1 DEF Fits
      <4>. QED BY <2>1, <2>2, <4>1, <4>2, HandledSynced
    <3>. QED BY <3>1, <3>2
  <2>. QED BY <2>1, <2>2, HandledShapes DEF AllSynced
<1>. QED BY <1>1, <1>2, <1>3
         DEF Remove, RemoveLink, NotifyRevoked, StatementFails

\* GetFileController, the second statement: the rows of files hide no file
\* that has a row of users_files.
LEMMA SelectSynced ==
    ASSUME HInv, IInv', NEW r \in Request, SelectFiles(r), UNCHANGED tabs,
           unsynced' = unsynced \cup Crossed \cup Lapsed
    PROVE  Shapes' /\ AllSynced'
<1>0. /\ req[r].pc = "selectFiles" /\ req[r].file = NoFile
      /\ req[r].ok = FALSE /\ req \in [Request -> ReqState]
      /\ UNCHANGED <<role, mail>>
  BY DEF SelectFiles, HInv, IInv, TypeOK, ReqState, Shapes, Shape, Lists,
     Answered
<1>1. PICK found \in SUBSET File, ok \in BOOLEAN :
        /\ Moves(r, "listed", req[r].todo, {}, found, ok)
        /\ ok => found = req[r].found \cap files
  <2>1. CASE AnswerError(r, "listed")
    <3>1. Moves(r, "listed", req[r].todo, {}, req[r].found, FALSE)
      BY <1>0, <2>1, AnswerMoves DEF HInv, IInv
    <3>. QED BY <1>0, <3>1 DEF ReqState
  <2>2. CASE req' = [req EXCEPT ![r].pc = "listed", ![r].ok = TRUE,
                                ![r].found = @ \cap files]
    <3>1. req[r].owed = {}
      BY <1>0 DEF HInv, Shapes, Shape
    <3>2. Moves(r, "listed", req[r].todo, {}, req[r].found \cap files, TRUE)
      BY <1>0, <2>2, <3>1 DEF Moves, ReqState
    <3>3. req[r].found \cap files \in SUBSET File
      BY <1>0 DEF ReqState
    <3>. QED BY <3>2, <3>3
  <2>. QED BY <2>1, <2>2 DEF SelectFiles
<1>2. Shapes'
  BY <1>0, <1>1, MovesShape DEF HInv, IInv, Answered
<1>3. /\ req'[r].pc = "listed" /\ req'[r].user = req[r].user
      /\ req'[r].ok = ok /\ req'[r].found = found
      /\ \A q \in Request \ {r} : req'[q] = req[q]
      /\ orphans' = orphans
  BY <1>1 DEF Moves, tabs
<1>4. ASSUME NEW u \in User, NEW f \in File, <<u, f>> \notin unsynced'
      PROVE  Synced(u, f)'
  <2>1. /\ Reading(u, r)' <=> Reading(u, r)
        /\ Loading(u, r) => Loading(u, r)'
    BY <1>0, <1>3 DEF Reading, Loading, OfTab
  <2>2. ~Adding(u, f, r)' /\ ~Created(u, f, r)' /\ ~Removing(u, f, r)'
    BY <1>2, <1>3, StoreAssumption
       DEF Adding, Created, Removing, Shapes, Shape, Lists
  <2>3. Linked(u, f)' <=> Linked(u, f)
    BY <1>0 DEF Linked
  <2>4. HasRead(u, f, r) => HasRead(u, f, r)'
    <3>1. Linked(u, f) => f \in files
      BY DEF HInv, IInv, Rows
    <3>. QED BY <1>0, <1>1, <1>3, <2>1, <2>3, <3>1 DEF HasRead
  <2>5. Tells(u, f, r) /\ mail'[u][f] = mail[u][f]
    BY <1>0, <2>1, <2>2, <2>3, <2>4 DEF Tells
  <2>. QED BY <1>2, <1>3, <1>4, <2>5, TellsSynced
<1>. QED BY <1>2, <1>4 DEF AllSynced


\* GetFileController, the first statement: what it reads is the truth, also
\* for a pair on which the list was wrong until then.
LEMMA ReadSynced ==
    ASSUME HInv, IInv', NEW r \in Request, ReadLinks(r)
    PROVE  Shapes' /\ AllSynced'
<1>0. /\ req[r].pc = "selectLinks" /\ req[r].file = NoFile
      /\ req[r].owed = {} /\ req[r].ok = FALSE
      /\ req \in [Request -> ReqState]
      /\ UNCHANGED <<role, mail>> /\ UNCHANGED tabs
  BY DEF ReadLinks, SelectLinks, HInv, IInv, TypeOK, ReqState, Shapes, Shape,
         Lists, Answered
<1>1. PICK pc \in {"selectFiles", "listed"}, found \in SUBSET File :
        /\ Moves(r, pc, req[r].todo, {}, found, FALSE)
        /\ pc = "selectFiles" =>
              found = {f \in File : Linked(req[r].user, f)}
  <2>1. CASE AnswerError(r, "listed")
    <3>1. Moves(r, "listed", req[r].todo, {}, req[r].found, FALSE)
      BY <1>0, <2>1, AnswerMoves DEF HInv, IInv
    <3>. QED BY <1>0, <3>1 DEF ReqState
  <2> DEFINE found == {f \in File : Linked(req[r].user, f)}
  <2>2. CASE req' = [req EXCEPT ![r].pc = "selectFiles", ![r].found = found]
    <3> HIDE DEF found
    <3>1. Moves(r, "selectFiles", req[r].todo, {}, found, FALSE)
      BY <1>0, <2>2 DEF Moves, ReqState
    <3>2. found \in SUBSET File
      BY DEF found
    <3>. QED BY <3>1, <3>2 DEF found
  <2>. QED BY <2>1, <2>2 DEF ReadLinks, SelectLinks
<1>2. Shapes'
  BY <1>0, <1>1, MovesShape DEF HInv, IInv
<1>3. /\ req'[r].pc = pc /\ req'[r].user = req[r].user
      /\ req'[r].file = NoFile /\ req'[r].owed = {}
      /\ req'[r].ok = FALSE /\ req'[r].found = found
      /\ \A q \in Request \ {r} : req'[q] = req[q]
      /\ orphans' = orphans /\ list' = list
  BY <1>0, <1>1 DEF Moves, tabs
<1>4. ASSUME NEW u \in User, NEW f \in File, <<u, f>> \notin unsynced'
      PROVE  Synced(u, f)'
  <2>1. /\ Linked(u, f)' <=> Linked(u, f)
        /\ Shared(u, f)' = Shared(u, f) /\ Revoked(u, f)' = Revoked(u, f)
    BY <1>0 DEF Linked, Shared, Revoked
  <2>2. /\ ~Adding(u, f, r)' /\ ~Created(u, f, r)' /\ ~Removing(u, f, r)'
        /\ ~Reading(u, r)
    BY <1>0, <1>3, StoreAssumption DEF Adding, Created, Removing, Reading
  <2>3. Alone(u, r)
    BY <1>3 DEF Alone, OfTab
  <2>4. Untold(u, f) => Untold(u, f)'
    <3>1. \A q \in Request : req[q].file = f => q # r
      BY <1>0, StoreAssumption
    <3>. QED BY <1>0, <2>3, <3>1 DEF Untold, Alone
  <2>5. CASE req[r].user # u
    <3>1. ~OfTab(u, r) /\ ~OfTab(u, r)'
      BY <1>3, <2>5 DEF OfTab
    <3>2. <<u, f>> \notin unsynced
      BY <1>4, <2>5 DEF ReadLinks, Resynced
    <3>3. Quiet(u, f, r)
      BY <1>0, <1>3, <2>1, <2>2, <2>4, <3>1
         DEF Quiet, Loading, Reading, HasRead
    <3>4. Synced(u, f)
      BY <3>2 DEF HInv, AllSynced
    <3>. QED BY <2>3, <3>3, <3>4, QuietKeeps
  <2>6. CASE req[r].user = u
    <3>1. ~Untold(u, f) /\ ~Untold(u, f)'
      <4>1. ~Untold(u, f)
        BY <1>4, <2>6 DEF ReadLinks, Muddled
      <4>2. \A q \in Request \ {r} : req'[q].file = f => req[q].file = f
        BY <1>3
      <4>. QED BY <1>0, <1>3, <2>3, <4>1, <4>2, StoreAssumption
               DEF Untold, Alone
    <3>2. /\ Shared(u, f) = 0 /\ Revoked(u, f) = 0
          /\ \A q \in Request : ~Adding(u, f, q) /\ ~Created(u, f, q)
                                /\ ~Removing(u, f, q)
      <4>1. Shared(u, f) \in Nat /\ Revoked(u, f) \in Nat
        BY DEF HInv, IInv, TypeOK, Shared, Revoked, Kind
      <4>. QED BY <3>1, <4>1, UntoldIs DEF HInv
    <3>3. \A q \in Request : ~Adding(u, f, q)' /\ ~Created(u, f, q)'
                             /\ ~Removing(u, f, q)'
      BY <2>2, <2>3, <3>2, OthersAlike
    <3>4. ToldOut(u, f)' /\ ToldIn(u, f)' /\ NotYet(u, f)'
      BY <2>1, <3>2, <3>3 DEF ToldOut, ToldIn, NotYet
    <3>5. HasRead(u, f, r)'
      BY <1>1, <1>3, <2>1, <2>6 DEF HasRead
    <3>6. CASE <<u, f>> \notin unsynced
      <4>1. Synced(u, f)
        BY <3>6 DEF HInv, AllSynced
      <4>2. Shown(u, f)'
        <5>1. \A q \in Request : Loading(u, q) => Loading(u, q)'
          <6>1. Loading(u, r) => Loading(u, r)'
            BY <1>3 DEF Loading, Reading, OfTab
          <6>. QED BY <2>3, <6>1, OthersAlike
        <5>. QED BY <1>3, <2>1, <3>1, <4>1, <5>1 DEF Shown, Settled, Synced
      <4>3. \A q \in Request : q # r => HasRead(u, f, q)'
        BY <2>1, <2>3, <4>1, OthersAlike DEF HasRead, Synced
      <4>. QED BY <3>4, <3>5, <4>2, <4>3 DEF Synced
    <3>7. CASE <<u, f>> \in unsynced
      <4>1. <<u, f>> \in Resynced(u, r)
        BY <1>4, <2>6, <3>7 DEF ReadLinks
      <4>2. OfTab(u, r) /\ \A q \in Request \ {r} : ~Reading(u, q)
        BY <4>1 DEF Resynced
      <4>3. Loading(u, r)'
        BY <1>3, <4>2 DEF Loading, Reading, OfTab
      <4>4. Shown(u, f)'
        BY <4>3 DEF Shown, Settled
      <4>5. \A q \in Request : q # r => HasRead(u, f, q)'
        BY <2>3, <4>2, OthersAlike DEF HasRead
      <4>. QED BY <3>4, <3>5, <4>4, <4>5 DEF Synced
    <3>. QED BY <3>6, <3>7
  <2>. QED BY <2>5, <2>6
<1>. QED BY <1>2, <1>4 DEF AllSynced

-----------------------------------------------------------------------------
(***************************************************************************)
(* The tabs.                                                               *)
(***************************************************************************)

\* A new request has nothing to tell and lists nothing yet.
LEMMA BeginSynced ==
    ASSUME HInv, NEW r \in Request, NEW u \in User,
           NEW pc \in Making \cup Using \cup {"selectLinks"},
           NEW f \in File \cup {NoFile}, NEW vs, Begin(r, pc, u, f, vs),
           pc = "selectLinks" => f = NoFile,
           pc \notin {"publishDeleted", "notify"},
           UNCHANGED <<list, orphans, unsynced>>
    PROVE  Shapes' /\ AllSynced'
<1>0. req[r].pc = "idle" /\ req[r] = Idle /\ r \notin orphans
  BY DEF Begin, HInv, Shapes, Shape, HomeTypeOK
<1>1. /\ req'[r] = [Idle EXCEPT !.pc = pc, !.user = u, !.file = f, !.todo = vs]
      /\ \A q \in Request \ {r} : req'[q] = req[q]
      /\ UNCHANGED <<role, mail>>
  BY DEF Begin, HInv, IInv, TypeOK
<1>2. /\ req'[r].pc = pc /\ req'[r].user = u /\ req'[r].file = f
      /\ req'[r].owed = {} /\ req'[r].ok = FALSE
      /\ req[r].pc = "idle" /\ req[r].file = NoFile
  BY <1>0, <1>1 DEF Idle
<1>3. Shapes'
  <2>1. Shape(r)'
    BY <1>2 DEF Shape, Lists, Making, Using
  <2>2. ASSUME NEW q \in Request, q # r PROVE Shape(q)'
    <3>1. req'[q] = req[q] /\ Shape(q)
      BY <1>1, <2>2 DEF HInv, Shapes
    <3>. QED BY <3>1 DEF Shape
  <2>. QED BY <2>1, <2>2 DEF Shapes
<1>4. ASSUME NEW v \in User, NEW g \in File, <<v, g>> \notin unsynced'
      PROVE  Synced(v, g)'
  <2>1. Alone(v, r)
    BY <1>1 DEF Alone, OfTab
  <2>2. Untold(v, g) => Untold(v, g)'
    <3>1. \A q \in Request : req[q].file = g => q # r
      BY <1>2, StoreAssumption
    <3>. QED BY <1>1, <2>1, <3>1 DEF Untold, Alone
  <2>3. /\ ~Adding(v, g, r)' /\ ~Created(v, g, r)' /\ ~Removing(v, g, r)'
        /\ ~Reading(v, r)' /\ ~Loading(v, r)
    BY <1>2 DEF Adding, Created, Removing, Reading, Loading, Making, Using
  <2>4. Quiet(v, g, r)
    <3>1. (Linked(v, g)' <=> Linked(v, g)) /\ mail'[v][g] = mail[v][g]
      BY <1>1 DEF Linked
    <3>. QED BY <2>2, <2>3, <3>1 DEF Quiet, HasRead
  <2>. QED BY <1>4, <2>1, <2>4, QuietKeeps DEF HInv, AllSynced
<1>. QED BY <1>3, <1>4 DEF AllSynced

\* ngOnInit.
LEMMA ArriveSynced ==
    ASSUME HInv, NEW u \in User, NEW r \in Request, Arrive(u, r)
    PROVE  Shapes' /\ AllSynced'
  BY BeginSynced DEF Arrive, GetFiles, Making, Using

\* Another login.
LEMMA LoggedInSynced ==
    ASSUME HInv, NEW u \in User, NEW r \in Request, LoggedIn(u, r)
    PROVE  Shapes' /\ AllSynced'
  BY BeginSynced DEF LoggedIn, GetFiles, Making, Using

\* Every button begins a request.
LEMMA ClickBegins ==
    ASSUME NEW u \in User, NEW r \in Request, Click(u, r)
    PROVE  \E f \in File, vs \in SUBSET User,
              pc \in {"insertFile", "findLink", "findFile", "removeLink"} :
                 Begin(r, pc, u, f, vs)
<1>1. \A v \in User : {v} \in SUBSET User
  OBVIOUS
<1>. QED BY <1>1 DEF Click, CreateFile, DeleteFile, ShareFile, RemoveAccess

\* The buttons.
LEMMA ClickSynced ==
    ASSUME HInv, NEW u \in User, NEW r \in Request, Click(u, r)
    PROVE  Shapes' /\ AllSynced'
<1>1. UNCHANGED <<list, orphans, unsynced>>
  BY DEF Click, tabs
<1>2. PICK f \in File, vs \in SUBSET User,
             pc \in {"insertFile", "findLink", "findFile", "removeLink"} :
        Begin(r, pc, u, f, vs)
  BY ClickBegins
<1>. QED BY <1>1, <1>2, BeginSynced DEF Making, Using

\* What a tab leaves behind: no list to keep, no answer to wait for.
LEMMA LeaverSynced ==
    ASSUME HInv, NEW u \in User, NEW f \in File, Synced(u, f),
           list'[u] = Unloaded, \A r \in Request : ~OfTab(u, r)',
           \A r \in Request : req'[r] = req[r] \/ req'[r] = Idle,
           UNCHANGED <<role, mail>>
    PROVE  Synced(u, f)'
<1>1. /\ Linked(u, f)' <=> Linked(u, f)
      /\ Shared(u, f)' = Shared(u, f) /\ Revoked(u, f)' = Revoked(u, f)
  BY DEF Linked, Shared, Revoked
<1>2. ASSUME NEW r \in Request
      PROVE  /\ Adding(u, f, r)' => Adding(u, f, r)
             /\ Removing(u, f, r)' => Removing(u, f, r)
             /\ ~Created(u, f, r)' /\ ~Reading(u, r)'
  <2>1. CASE req'[r] = req[r]
    BY <2>1 DEF Adding, Removing, Created, Reading
  <2>2. CASE req'[r] = Idle
    <3>1. req'[r].pc = "idle"
      BY <2>2 DEF Idle
    <3>. QED BY <3>1 DEF Adding, Removing, Created, Reading
  <2>. QED BY <2>1, <2>2
<1>3. ToldOut(u, f)' /\ ToldIn(u, f)'
  BY <1>1, <1>2 DEF ToldOut, ToldIn, Synced
<1>4. NotYet(u, f)' /\ Shown(u, f)'
  BY DEF NotYet, Shown, Settled
<1>5. \A r \in Request : HasRead(u, f, r)'
  BY <1>2 DEF HasRead
<1>. QED BY <1>3, <1>4, <1>5 DEF Synced

\* A step that the pair takes no part in.
LEMMA SameSynced ==
    ASSUME NEW u \in User, NEW f \in File, Synced(u, f),
           req' = req, role' = role, mail'[u][f] = mail[u][f],
           list'[u] = Unloaded <=> list[u] = Unloaded,
           list'[u][f] = list[u][f],
           \A r \in Request : OfTab(u, r)' <=> OfTab(u, r)
    PROVE  Synced(u, f)'
<1>1. /\ Linked(u, f)' <=> Linked(u, f)
      /\ Shared(u, f)' = Shared(u, f) /\ Revoked(u, f)' = Revoked(u, f)
  BY DEF Linked, Shared, Revoked
<1>2. \A r \in Request :
        /\ Adding(u, f, r)' <=> Adding(u, f, r)
        /\ Created(u, f, r)' <=> Created(u, f, r)
        /\ Removing(u, f, r)' <=> Removing(u, f, r)
        /\ Reading(u, r)' <=> Reading(u, r)
        /\ Loading(u, r)' <=> Loading(u, r)
  BY DEF Adding, Created, Removing, Reading, Loading
<1>3. Untold(u, f)' <=> Untold(u, f)
  BY DEF Untold
<1>4. Settled(u)' <=> Settled(u)
  BY <1>2 DEF Settled
<1>5. ToldOut(u, f)' /\ ToldIn(u, f)' /\ NotYet(u, f)'
  BY <1>1, <1>2, <1>4 DEF ToldOut, ToldIn, NotYet, Synced
<1>6. Shown(u, f)' /\ \A r \in Request : HasRead(u, f, r)'
  BY <1>1, <1>2, <1>3, <1>4 DEF Shown, HasRead, Synced
<1>. QED BY <1>5, <1>6 DEF Synced


\* A request whose answer is taken is free, and the others are as they were.
LEMMA TakenShapes ==
    ASSUME HInv, NEW r \in Request, TakeAnswer(r)
    PROVE  /\ Shapes' /\ req'[r] = Idle /\ req'[r].pc = "idle"
           /\ req'[r].file = NoFile /\ req'[r].user = NoUser
           /\ req'[r].owed = {}
           /\ \A q \in Request \ {r} : req'[q] = req[q]
           /\ UNCHANGED <<role, mail>>
<1>1. /\ req'[r] = Idle /\ UNCHANGED <<role, mail>>
      /\ \A q \in Request \ {r} : req'[q] = req[q]
  BY DEF TakeAnswer, HInv, IInv, TypeOK
<1>2. /\ req'[r].pc = "idle" /\ req'[r].file = NoFile
      /\ req'[r].user = NoUser /\ req'[r].owed = {} /\ req'[r].ok = FALSE
  BY <1>1 DEF Idle
<1>3. ASSUME NEW q \in Request PROVE Shape(q)'
  <2>1. CASE q = r
    BY <1>1, <1>2, <2>1 DEF Shape, Lists
  <2>2. CASE q # r
    <3>1. req'[q] = req[q] /\ Shape(q)
      BY <1>1, <2>2 DEF HInv, Shapes
    <3>. QED BY <3>1 DEF Shape
  <2>. QED BY <2>1, <2>2
<1>. QED BY <1>1, <1>2, <1>3 DEF Shapes

\* An answer that makes no list, and that the tab of u is not told of or has
\* been told of before.
LEMMA TakenSynced ==
    ASSUME HInv, NEW r \in Request, TakeAnswer(r),
           NEW u \in User, NEW f \in File, Synced(u, f), Alone(u, r), list'[u] = list[u],
           ~Loading(u, r), Untold(u, f) => Untold(u, f)'
    PROVE  Synced(u, f)'
<1>1. req'[r].pc = "idle" /\ UNCHANGED <<role, mail>>
  BY TakenShapes
<1>2. Quiet(u, f, r)
  BY <1>1 DEF Quiet, Linked, Adding, Created, Removing, Reading, HasRead
<1>. QED BY <1>2, QuietKeeps

\* files(): the list that was read is shown.
LEMMA TakeListSynced ==
    ASSUME HInv, IInv', NEW r \in Request, TakeList(r)
    PROVE  Shapes' /\ AllSynced'
<1>0. /\ req[r].pc = "listed" /\ TakeAnswer(r) /\ unsynced' = unsynced
      /\ orphans' = orphans \ {r}
  BY DEF TakeList
<1>1. /\ Shapes' /\ req'[r].pc = "idle" /\ req'[r].user = NoUser
      /\ req'[r].owed = {}
      /\ \A q \in Request \ {r} : req'[q] = req[q]
      /\ UNCHANGED <<role, mail>>
  BY <1>0, TakenShapes
<1>2. ASSUME NEW u \in User, NEW f \in File, <<u, f>> \notin unsynced'
      PROVE  Synced(u, f)'
  <2>1. Alone(u, r)
    BY <1>0, <1>1 DEF Alone, OfTab
  <2>2. Synced(u, f)
    BY <1>0, <1>2 DEF HInv, AllSynced
  <2>3. req[r].file # f
    BY <1>0, StoreAssumption DEF HInv, Shapes, Shape, Lists
  <2>4. Untold(u, f) <=> Untold(u, f)'
    <3>1. \A q \in Request : /\ req[q].file = f => q # r
                             /\ u \in req'[q].owed => q # r
                             /\ req'[q].pc # "idle" => q # r
      BY <1>1, <2>3
    <3>. QED BY <1>1, <2>1, <3>1 DEF Untold, Alone
  <2>5. CASE ~OfTab(u, r)
    <3>0. ~Loading(u, r) /\ (r \in orphans \/ req[r].user # u)
      BY <2>5 DEF OfTab, Loading, Reading
    <3>1. list'[u] = list[u] /\ ~Loading(u, r)
      BY <3>0 DEF TakeList, HInv, HomeTypeOK
    <3>. QED BY <1>0, <2>1, <2>2, <2>4, <3>1, TakenSynced
  <2>6. CASE OfTab(u, r)
    <3>1. Reading(u, r)
      BY <1>0, <2>6 DEF Reading
    <3>2. /\ Shared(u, f) = 0
          /\ \A q \in Request : ~Adding(u, f, q) /\ ~Created(u, f, q)
      <4>1. Shared(u, f) \in Nat
        BY DEF HInv, IInv, TypeOK, Shared, Kind
      <4>. QED BY <2>2, <3>1, <4>1 DEF Synced, ToldIn
    <3>3. /\ Shared(u, f)' = Shared(u, f) /\ Revoked(u, f)' = Revoked(u, f)
          /\ Linked(u, f)' <=> Linked(u, f)
      BY <1>1 DEF Shared, Revoked, Linked
    <3>4. /\ ~Adding(u, f, r)' /\ ~Created(u, f, r)' /\ ~Removing(u, f, r)'
          /\ ~Reading(u, r)'
      BY <1>1 DEF Adding, Created, Removing, Reading
    <3>5. \A q \in Request : /\ ~Adding(u, f, q)' /\ ~Created(u, f, q)'
                             /\ Removing(u, f, q)' => Removing(u, f, q)
      BY <2>1, <3>2, <3>4, OthersAlike
    <3>6. ToldOut(u, f)' /\ ToldIn(u, f)' /\ NotYet(u, f)'
      BY <2>2, <3>2, <3>3, <3>5 DEF ToldOut, ToldIn, NotYet, Synced
    <3>7. Shown(u, f)'
      <4>1. list'[u] # Unloaded =>
              /\ req[r].ok
              /\ list'[u][f] = IF f \in req[r].found THEN 1 ELSE 0
        BY <2>6 DEF TakeList, OfTab, HInv, HomeTypeOK
      <4>2. req[r].ok => (f \in req[r].found <=> Linked(u, f))
        BY <2>2, <3>1 DEF Synced, HasRead
      <4>. QED BY <3>3, <4>1, <4>2 DEF Shown, Settled
    <3>8. ASSUME NEW q \in Request PROVE HasRead(u, f, q)'
      <4>1. CASE q = r
        BY <3>4, <4>1 DEF HasRead
      <4>2. CASE q # r
        <5>1. (Reading(u, q)' <=> Reading(u, q)) /\ req'[q] = req[q]
          BY <2>1, <4>2, OthersAlike
        <5>. QED BY <2>2, <3>3, <5>1 DEF HasRead, Synced
      <4>. QED BY <4>1, <4>2
    <3>. QED BY <3>6, <3>7, <3>8 DEF Synced
  <2>. QED BY <2>5, <2>6
<1>. QED BY <1>1, <1>2 DEF AllSynced

\* files(): an error.  Nothing is said of the pairs of the tab any more.
LEMMA MissListSynced ==
    ASSUME HInv, NEW r \in Request, MissList(r)
    PROVE  Shapes' /\ AllSynced'
<1>0. /\ req[r].pc = "listed" /\ TakeAnswer(r) /\ list' = list
      /\ orphans' = orphans \ {r} /\ unsynced \subseteq unsynced'
      /\ r \notin orphans => {req[r].user} \X File \subseteq unsynced'
  BY DEF MissList
<1>1. /\ Shapes' /\ req'[r].pc = "idle" /\ req'[r].owed = {}
      /\ \A q \in Request \ {r} : req'[q] = req[q]
  BY <1>0, TakenShapes
<1>2. ASSUME NEW u \in User, NEW f \in File, <<u, f>> \notin unsynced'
      PROVE  Synced(u, f)'
  <2>1. Alone(u, r)
    BY <1>0, <1>1 DEF Alone, OfTab
  <2>2. Synced(u, f)
    BY <1>0, <1>2 DEF HInv, AllSynced
  <2>3. ~OfTab(u, r)
    BY <1>0, <1>2 DEF OfTab
  <2>4. ~Loading(u, r)
    BY <2>3 DEF Loading, Reading
  <2>5. req[r].file # f
    BY <1>0, StoreAssumption DEF HInv, Shapes, Shape, Lists
  <2>6. Untold(u, f) => Untold(u, f)'
    <3>1. \A q \in Request : req[q].file = f => q # r
      BY <2>5
    <3>2. mail' = mail
      BY <1>0 DEF TakeAnswer
    <3>. QED BY <1>1, <2>1, <3>1, <3>2 DEF Untold, Alone
  <2>7. list'[u] = list[u]
    BY <1>0
  <2>. QED BY <1>0, <2>1, <2>2, <2>4, <2>6, <2>7, TakenSynced
<1>. QED BY <1>1, <1>2 DEF AllSynced

\* What the history says of a pair after a step of a tab.
LEMMA NotLapsed ==
    ASSUME NEW u \in User, NEW f \in File, unsynced' = unsynced \cup Lapsed,
           <<u, f>> \notin unsynced'
    PROVE  <<u, f>> \notin unsynced /\ (Untold(u, f) => Untold(u, f)')
<1>1. <<u, f>> \in User \X File
  OBVIOUS
<1>2. Untold(u, f) /\ ~Untold(u, f)' => <<u, f>> \in Lapsed
  BY <1>1 DEF Lapsed
<1>. QED BY <1>2

\* createFile: the tab goes to the new file.
LEMMA TakeCreatedSynced ==
    ASSUME HInv, NEW r \in Request, TakeCreated(r)
    PROVE  Shapes' /\ AllSynced'
<1>0. /\ req[r].pc = "created" /\ TakeAnswer(r)
      /\ list' = [list EXCEPT ![req[r].user] = Unloaded]
      /\ orphans' =
           (orphans \cup {q \in Request : req[q].user = req[r].user}) \ {r}
      /\ unsynced' = unsynced \cup Lapsed
  BY DEF TakeCreated
<1>1. /\ Shapes' /\ req'[r] = Idle /\ req'[r].user = NoUser
      /\ \A q \in Request \ {r} : req'[q] = req[q]
      /\ UNCHANGED <<role, mail>>
  BY <1>0, TakenShapes
<1>2. ASSUME NEW u \in User, NEW f \in File, <<u, f>> \notin unsynced'
      PROVE  Synced(u, f)'
  <2>1. Synced(u, f) /\ (Untold(u, f) => Untold(u, f)')
    BY <1>0, <1>2, NotLapsed DEF HInv, AllSynced
  <2>2. CASE u = req[r].user
    <3>1. list'[u] = Unloaded
      BY <1>0, <2>2 DEF HInv, HomeTypeOK
    <3>2. \A q \in Request : ~OfTab(u, q)'
      BY <1>0, <1>1, <2>2, StoreAssumption DEF OfTab
    <3>. QED BY <1>1, <2>1, <3>1, <3>2, LeaverSynced
  <2>3. CASE u # req[r].user
    <3>1. list'[u] = list[u]
      BY <1>0, <2>3 DEF HInv, HomeTypeOK
    <3>2. Alone(u, r)
      BY <1>0, <1>1, <2>3 DEF Alone, OfTab
    <3>3. ~Loading(u, r)
      BY <2>3 DEF Loading, Reading, OfTab
    <3>. QED BY <1>0, <2>1, <3>1, <3>2, <3>3, TakenSynced
  <2>. QED BY <2>2, <2>3
<1>. QED BY <1>1, <1>2 DEF AllSynced

\* deleteFile: the request goes on as the one that asks for the list.
LEMMA TakeDeletedSynced ==
    ASSUME HInv, NEW r \in Request, TakeDeleted(r)
    PROVE  Shapes' /\ AllSynced'
<1>0. /\ req[r].pc = "deleted" /\ r \notin orphans
      /\ req[r].owed = {} /\ req[r].user \in User
      /\ UNCHANGED tabs /\ unsynced \subseteq unsynced'
      /\ UNCHANGED <<role, mail>>
  BY DEF TakeDeleted, HInv, Shapes, Shape
<1>1. PICK pc \in {"selectLinks", "listed"} :
        /\ req'[r] = [Idle EXCEPT !.pc = pc, !.user = req[r].user]
        /\ pc = "listed" => {req[r].user} \X File \subseteq unsynced'
  BY DEF TakeDeleted, HInv, IInv, TypeOK
<1>a. \A q \in Request \ {r} : req'[q] = req[q]
  BY DEF TakeDeleted, HInv, IInv, TypeOK
<1>2. /\ req'[r].pc = pc /\ req'[r].user = req[r].user
      /\ req'[r].file = NoFile /\ req'[r].owed = {} /\ req'[r].ok = FALSE
  BY <1>1 DEF Idle
<1>3. Shapes'
  <2>1. Shape(r)'
    BY <1>0, <1>2 DEF Shape, Lists
  <2>2. ASSUME NEW q \in Request, q # r PROVE Shape(q)'
    <3>1. req'[q] = req[q] /\ Shape(q)
      BY <1>a, <2>2 DEF HInv, Shapes
    <3>. QED BY <3>1 DEF Shape
  <2>. QED BY <2>1, <2>2 DEF Shapes
<1>4. ASSUME NEW u \in User, NEW f \in File, <<u, f>> \notin unsynced'
      PROVE  Synced(u, f)'
  <2>1. Alone(u, r)
    BY <1>0, <1>a, <1>1 DEF Alone, OfTab, tabs
  <2>0. req[r].user = u => pc = "selectLinks"
    BY <1>1, <1>4
  <2>2. /\ ~Adding(u, f, r)' /\ ~Created(u, f, r)' /\ ~Removing(u, f, r)'
        /\ ~Reading(u, r)' /\ ~Loading(u, r)
    BY <1>0, <1>2, <2>0
       DEF Adding, Created, Removing, Reading, Loading, OfTab
  <2>3. Untold(u, f) => Untold(u, f)' \/ Loading(u, r)'
    <3>1. OfTab(u, r) => Loading(u, r)'
      BY <1>0, <1>2, <2>0 DEF OfTab, Loading, tabs
    <3>. QED BY <1>0, <1>a, <2>1, <3>1 DEF Untold, Alone
  <2>4. Quiet(u, f, r)
    BY <1>0, <2>2, <2>3 DEF Quiet, Linked, HasRead, tabs
  <2>5. Synced(u, f)
    BY <1>0, <1>4 DEF HInv, AllSynced
  <2>. QED BY <2>1, <2>4, <2>5, QuietKeeps
<1>. QED BY <1>3, <1>4 DEF AllSynced

\* The other answers leave the list as it is.
LEMMA TakeOtherSynced ==
    ASSUME HInv, NEW r \in Request, TakeOther(r)
    PROVE  Shapes' /\ AllSynced'
<1>0. /\ req[r].pc \in {"created", "deleted", "done"} /\ TakeAnswer(r)
      /\ list' = list /\ orphans' = orphans \ {r}
      /\ unsynced' = unsynced \cup Lapsed
  BY DEF TakeOther
<1>1. /\ Shapes' /\ \A q \in Request \ {r} : req'[q] = req[q]
  BY <1>0, TakenShapes
<1>2. ASSUME NEW u \in User, NEW f \in File, <<u, f>> \notin unsynced'
      PROVE  Synced(u, f)'
  <2>1. Synced(u, f) /\ (Untold(u, f) => Untold(u, f)')
    BY <1>0, <1>2, NotLapsed DEF HInv, AllSynced
  <2>2. Alone(u, r) /\ ~Loading(u, r)
    BY <1>0, <1>1 DEF Alone, OfTab, Loading, Reading
  <2>. QED BY <1>0, <2>1, <2>2, TakenSynced
<1>. QED BY <1>1, <1>2 DEF AllSynced


\* editFile: the tab goes to another route.
LEMMA EditSynced ==
    ASSUME HInv, NEW v \in User, EditFile(v)
    PROVE  Shapes' /\ AllSynced'
<1>0. /\ UNCHANGED storeVars /\ list' = [list EXCEPT ![v] = Unloaded]
      /\ orphans' = orphans \cup {q \in Request : req[q].user = v}
      /\ unsynced' = unsynced \cup Lapsed
  BY DEF EditFile, Leave
<1>1. Shapes'
  BY <1>0 DEF HInv, Shapes, Shape, storeVars
<1>2. ASSUME NEW u \in User, NEW f \in File, <<u, f>> \notin unsynced'
      PROVE  Synced(u, f)'
  <2>1. Synced(u, f)
    BY <1>0, <1>2 DEF HInv, AllSynced
  <2>2. CASE u = v
    <3>1. list'[u] = Unloaded
      BY <1>0, <2>2 DEF HInv, HomeTypeOK
    <3>2. \A q \in Request : ~OfTab(u, q)'
      BY <1>0, <2>2 DEF OfTab, storeVars
    <3>. QED BY <1>0, <2>1, <3>1, <3>2, LeaverSynced DEF storeVars
  <2>3. CASE u # v
    <3>1. list'[u] = list[u]
      BY <1>0, <2>3 DEF HInv, HomeTypeOK
    <3>2. \A q \in Request : OfTab(u, q)' <=> OfTab(u, q)
      BY <1>0, <2>3 DEF OfTab, storeVars
    <3>. QED BY <1>0, <2>1, <3>1, <3>2, SameSynced DEF storeVars
  <2>. QED BY <2>2, <2>3
<1>. QED BY <1>1, <1>2 DEF AllSynced

\* A logout: nothing is said any more of the pairs of a list it cleared.
LEMMA LogoutSynced ==
    ASSUME HInv, NEW v \in User, Logout(v) \/ LoggedOut(v)
    PROVE  Shapes' /\ AllSynced'
<1>0. /\ UNCHANGED storeVars /\ UNCHANGED orphans /\ unsynced \subseteq unsynced'
      /\ \A u \in User : list'[u] = list[u] \/ {u} \X File \subseteq unsynced'
  BY DEF Logout, LoggedOut, HInv, HomeTypeOK
<1>1. Shapes'
  BY <1>0 DEF HInv, Shapes, Shape, storeVars
<1>2. ASSUME NEW u \in User, NEW f \in File, <<u, f>> \notin unsynced'
      PROVE  Synced(u, f)'
  <2>1. Synced(u, f)
    BY <1>0, <1>2 DEF HInv, AllSynced
  <2>2. list'[u] = list[u]
    BY <1>0, <1>2
  <2>3. \A q \in Request : OfTab(u, q)' <=> OfTab(u, q)
    BY <1>0 DEF OfTab, storeVars
  <2>. QED BY <1>0, <2>1, <2>2, <2>3, SameSynced DEF storeVars
<1>. QED BY <1>1, <1>2 DEF AllSynced

\* A notification that leaves the network is one less of its pair and kind.
LEMMA Delivered ==
    ASSUME TypeOK, NEW v \in User, NEW g \in File, NEW kind \in Kind,
           Deliver(v, g, kind)
    PROVE  /\ \A u \in User, f \in File :
                 <<u, f>> # <<v, g>> => mail'[u][f] = mail[u][f]
           /\ mail[v][g][kind] > 0
           /\ mail'[v][g][kind] = mail[v][g][kind] - 1
           /\ \A k \in Kind \ {kind} : mail'[v][g][k] = mail[v][g][k]
           /\ \A k \in Kind : mail[v][g][k] \in Nat
           /\ UNCHANGED <<req, role>>
  BY DEF TypeOK, Deliver

\* handleFileNotification: the notification says what the rows say.
LEMMA HandleSynced ==
    ASSUME HInv, NEW v \in User, NEW g \in File, NEW kind \in Kind,
           HandleFileNotification(v, g, kind)
    PROVE  Shapes' /\ AllSynced'
<1>0. /\ Deliver(v, g, kind) /\ UNCHANGED <<orphans, unsynced>>
      /\ TypeOK /\ list \in [User -> [File -> Nat] \cup {Unloaded}]
  BY DEF HandleFileNotification, HInv, IInv, HomeTypeOK
<1>1. /\ \A u \in User, f \in File :
            <<u, f>> # <<v, g>> => mail'[u][f] = mail[u][f]
      /\ mail[v][g][kind] > 0
      /\ mail'[v][g][kind] = mail[v][g][kind] - 1
      /\ \A k \in Kind \ {kind} : mail'[v][g][k] = mail[v][g][k]
      /\ \A k \in Kind : mail[v][g][k] \in Nat
      /\ req' = req /\ role' = role
  BY <1>0, Delivered
<1>2. /\ \A u \in User : list'[u] = Unloaded <=> list[u] = Unloaded
      /\ \A u \in User, f \in File :
            <<u, f>> # <<v, g>> => list'[u][f] = list[u][f]
      /\ list[v] # Unloaded /\ v \notin broken =>
            list'[v][g] = IF kind = "file_shared" THEN list[v][g] + 1 ELSE 0
  <2>1. CASE list[v] = Unloaded \/ v \in broken
    <3>1. list' = list
      BY <2>1 DEF HandleFileNotification
    <3>. QED BY <2>1, <3>1
  <2>2. CASE list[v] # Unloaded /\ v \notin broken
    <3> DEFINE n == IF kind = "file_shared" THEN list[v][g] + 1 ELSE 0
    <3>1. list' = [list EXCEPT ![v][g] = n]
      BY <1>0, <2>2 DEF HandleFileNotification
    <3>2. list[v] \in [File -> Nat] /\ n \in Nat
      BY <1>0, <2>2
    <3> HIDE DEF n
    <3>3. /\ list'[v] = [list[v] EXCEPT ![g] = n]
          /\ \A u \in User : u # v => list'[u] = list[u]
      BY <1>0, <3>1
    <3>4. list'[v] \in [File -> Nat] /\ list'[v][g] = n
          /\ \A f \in File : f # g => list'[v][f] = list[v][f]
      BY <3>2, <3>3
    <3>5. list'[v] # Unloaded
      BY <3>4, HomeAssumption
    <3>. QED BY <2>2, <3>3, <3>4, <3>5 DEF n
  <2>. QED BY <2>1, <2>2
<1>3. \A u \in User, r \in Request : OfTab(u, r)' <=> OfTab(u, r)
  BY <1>0, <1>1 DEF OfTab
<1>4. Shapes'
  BY <1>1 DEF HInv, Shapes, Shape
<1>5. ASSUME NEW u \in User, NEW f \in File, <<u, f>> \notin unsynced'
      PROVE  Synced(u, f)'
  <2>1. Synced(u, f)
    BY <1>0, <1>5 DEF HInv, AllSynced
  <2>2. CASE <<u, f>> # <<v, g>>
    BY <1>1, <1>2, <1>3, <2>1, <2>2, SameSynced
  <2>3. CASE u = v /\ f = g
    <3>1. /\ Linked(u, f)' <=> Linked(u, f)
          /\ Shared(u, f) \in Nat /\ Revoked(u, f) \in Nat
      BY <1>1, <2>3 DEF Linked, Shared, Revoked, Kind
    <3>2. \A r \in Request :
            /\ Adding(u, f, r)' <=> Adding(u, f, r)
            /\ Created(u, f, r)' <=> Created(u, f, r)
            /\ Removing(u, f, r)' <=> Removing(u, f, r)
            /\ Reading(u, r)' <=> Reading(u, r)
            /\ Loading(u, r)' <=> Loading(u, r)
      BY <1>1, <1>3 DEF Adding, Created, Removing, Reading, Loading
    <3>3. Settled(u)' <=> Settled(u)
      BY <1>2, <3>2 DEF Settled
    <3>0. Settled(u) => u \notin broken
      BY <1>0, <1>5 DEF HInv, Repaired, Settled, Loading
    <3>4. \A r \in Request : HasRead(u, f, r)'
      BY <1>1, <2>1, <3>1, <3>2 DEF Synced, HasRead
    <3>5. CASE kind = "file_shared"
      <4>1. /\ Shared(u, f) > 0 /\ Shared(u, f)' = Shared(u, f) - 1
            /\ Revoked(u, f)' = Revoked(u, f)
        BY <1>1, <2>3, <3>5 DEF Shared, Revoked, Kind
      <4>2. /\ Linked(u, f) /\ Shared(u, f) = 1
            /\ \A r \in Request : ~Reading(u, r) /\ ~Adding(u, f, r)
        BY <2>1, <3>1, <4>1 DEF Synced, ToldIn
      <4>3. ToldOut(u, f)' /\ ToldIn(u, f)' /\ NotYet(u, f)'
        BY <2>1, <3>1, <3>2, <4>1, <4>2 DEF Synced, ToldOut, ToldIn, NotYet
      <4>4. Shown(u, f)'
        <5>1. Settled(u) => list[u] # Unloaded /\ list[u][f] = 0
          BY <2>1, <4>1 DEF Synced, NotYet, Settled
        <5>. QED BY <1>2, <2>3, <3>0, <3>1, <3>3, <3>5, <4>2, <5>1 DEF Shown
      <4>. QED BY <3>4, <4>3, <4>4 DEF Synced
    <3>6. CASE kind = "file_revoke"
      <4>1. /\ Revoked(u, f) > 0 /\ Shared(u, f)' = Shared(u, f)
        BY <1>1, <2>3, <3>6 DEF Shared, Revoked, Kind
      <4>2. ~Linked(u, f)
        BY <2>1, <4>1 DEF Synced, ToldOut
      <4>3. ToldOut(u, f)' /\ ToldIn(u, f)' /\ NotYet(u, f)'
        BY <2>1, <3>1, <3>2, <4>1, <4>2 DEF Synced, ToldOut, ToldIn, NotYet
      <4>4. Shown(u, f)'
        <5>1. Settled(u) => list[u] # Unloaded
          BY DEF Settled
        <5>. QED BY <1>2, <2>3, <3>0, <3>1, <3>3, <3>6, <4>2, <5>1 DEF Shown
      <4>. QED BY <3>4, <4>3, <4>4 DEF Synced
    <3>. QED BY <3>5, <3>6 DEF Kind
  <2>. QED BY <2>2, <2>3
<1>. QED BY <1>4, <1>5 DEF AllSynced

\* A lost notification: nothing is said of its pair any more.
LEMMA LoseSynced ==
    ASSUME HInv, NEW v \in User, NEW g \in File, NEW kind \in Kind,
           LoseNotification(v, g, kind)
    PROVE  Shapes' /\ AllSynced'
<1>1. /\ \A u \in User, f \in File :
            <<u, f>> # <<v, g>> => mail'[u][f] = mail[u][f]
      /\ req' = req /\ role' = role /\ UNCHANGED tabs
      /\ unsynced' = unsynced \cup {<<v, g>>}
  BY Delivered DEF LoseNotification, HInv, IInv
<1>2. Shapes'
  BY <1>1 DEF HInv, Shapes, Shape
<1>3. ASSUME NEW u \in User, NEW f \in File, <<u, f>> \notin unsynced'
      PROVE  Synced(u, f)'
  <2>1. Synced(u, f) /\ <<u, f>> # <<v, g>>
    BY <1>1, <1>3 DEF HInv, AllSynced
  <2>2. /\ list' = list
        /\ \A r \in Request : OfTab(u, r)' <=> OfTab(u, r)
    BY <1>1 DEF OfTab, tabs
  <2>. QED BY <1>1, <2>1, <2>2, SameSynced
<1>. QED BY <1>2, <1>3 DEF AllSynced

-----------------------------------------------------------------------------
(***************************************************************************)
(* Types, and the invariant of the store.                                  *)
(***************************************************************************)


\* A step of the server frees no request, and changes no requester.
LEMMA ServeAwake ==
    ASSUME TypeOK, NEW r \in Request, Serve(r), NEW q \in Request
    PROVE  /\ req[q].pc # "idle" <=> req'[q].pc # "idle"
           /\ req'[q].user = req[q].user
<1> DEFINE Awake == /\ req[q].pc # "idle" <=> req'[q].pc # "idle"
                    /\ req'[q].user = req[q].user
<1>1. req \in [Request -> ReqState]
  BY DEF TypeOK, ReqState
<1>2. ASSUME NEW pc \in PC, pc # "idle", req[r].pc # "idle",
             Goto(r, pc) \/ AnswerOK(r, pc) \/ AnswerError(r, pc)
      PROVE  Awake
  BY <1>1, <1>2 DEF Goto, AnswerOK, AnswerError, ReqState
<1>3. CASE Create(r)
  BY <1>2, <1>3 DEF Create, InsertFile, InsertOwner, StatementFails, PC
<1>4. CASE Delete(r)
  BY <1>2, <1>4
     DEF Delete, FindLink, DeleteFileRow, PublishFileDeleted, DeleteLink,
         StatementFails, PC
<1>5. CASE Share(r)
  <2>1. CASE FindFile(r) \/ AllNotified(r)
    BY <1>2, <2>1 DEF FindFile, AllNotified, PC
  <2>2. CASE AddLink(r)
    BY <1>1, <1>2, <2>2 DEF AddLink, PC, ReqState
  <2>3. CASE AllLinked(r)
    BY <1>1, <2>3 DEF AllLinked, ReqState
  <2>4. CASE NotifyShared(r)
    BY <1>1, <1>2, <2>4 DEF NotifyShared, PC, ReqState
  <2>. QED BY <1>5, <2>1, <2>2, <2>3, <2>4 DEF Share
<1>6. CASE Remove(r)
  <2>1. CASE RemoveLink(r)
    BY <1>1, <1>2, <2>1 DEF RemoveLink, PC, ReqState
  <2>2. CASE NotifyRevoked(r)
    BY <1>2, <2>2 DEF NotifyRevoked, StatementFails, PC
  <2>. QED BY <1>6, <2>1, <2>2 DEF Remove
<1>7. CASE Get(r)
  BY <1>1, <1>2, <1>7 DEF Get, SelectLinks, SelectFiles, PC, ReqState
<1>. QED BY <1>3, <1>4, <1>5, <1>6, <1>7 DEF Serve


\* The steps of the server, and the reading of a list, leave the tabs alone.
LEMMA ServerTypes ==
    ASSUME HInv, NEW r \in Request, ServerStep(r) \/ ReadLinks(r)
    PROVE  HomeTypeOK' /\ AtHome'
<1>1. /\ HomeTypeOK /\ TypeOK /\ AtHome /\ UNCHANGED tabs
      /\ Lapsed \subseteq User \X File /\ Crossed \subseteq User \X File
  BY DEF HInv, IInv, Lapsed, Crossed, ServerStep, ReadLinks
<1>2. \A q \in Request : /\ req[q].pc # "idle" <=> req'[q].pc # "idle"
                         /\ req'[q].user = req[q].user
  BY <1>1, ServeAwake DEF ServerStep, ReadLinks, Serve, Get
<1>3. AtHome'
  BY <1>1, <1>2 DEF AtHome, tabs
<1>4. unsynced' \subseteq User \X File
  <2>1. CASE ServerStep(r)
    BY <1>1, <2>1 DEF ServerStep, HomeTypeOK
  <2>2. CASE ReadLinks(r)
    <3>1. req[r].user \in User
      BY <2>2 DEF ReadLinks, SelectLinks, HInv, Shapes, Shape
    <3>. QED BY <1>1, <2>2, <3>1 DEF ReadLinks, Muddled, HomeTypeOK
  <2>. QED BY <2>1, <2>2
<1>. QED BY <1>1, <1>2, <1>3, <1>4 DEF HomeTypeOK, tabs

\* The answers.
LEMMA TakeTypes ==
    ASSUME HInv, NEW r \in Request,
           \/ TakeList(r) \/ MissList(r)
           \/ TakeCreated(r) \/ TakeDeleted(r) \/ TakeOther(r)
    PROVE  HomeTypeOK' /\ AtHome'
<1>0. HomeTypeOK /\ AtHome /\ Lapsed \subseteq User \X File
  BY DEF HInv, Lapsed
<1>1. TakeAnswer(r) =>
        /\ req'[r].pc = "idle"
        /\ \A q \in Request \ {r} : req'[q] = req[q]
  BY TakenShapes
<1>2. CASE TakeList(r)
  <2>1. [f \in File |-> IF f \in req[r].found THEN 1 ELSE 0] \in [File -> Nat]
    OBVIOUS
  <2>2. r \notin orphans => req[r].user \in home
    BY <1>0, <1>2 DEF TakeList, AtHome
  <2>3. /\ list' \in [User -> [File -> Nat] \cup {Unloaded}]
        /\ \A u \in User : list'[u] # Unloaded => u \in home
    BY <1>0, <1>2, <2>1, <2>2 DEF TakeList, HomeTypeOK
  <2>4. AtHome' /\ orphans' \subseteq {q \in Request : req'[q].pc # "idle"}
    BY <1>0, <1>1, <1>2 DEF TakeList, AtHome, HomeTypeOK
  <2>. QED BY <1>0, <1>2, <2>3, <2>4 DEF TakeList, HomeTypeOK
<1>3. CASE TakeCreated(r)
  <2>1. /\ list' \in [User -> [File -> Nat] \cup {Unloaded}]
        /\ \A u \in User : list'[u] # Unloaded => u \in home'
    BY <1>0, <1>3 DEF TakeCreated, HomeTypeOK
  <2>2. AtHome'
    BY <1>0, <1>1, <1>3 DEF TakeCreated, AtHome
  <2>3. orphans' \subseteq {q \in Request : req'[q].pc # "idle"}
    <3>1. req[r].user \in User
      BY <1>3 DEF TakeCreated, HInv, Shapes, Shape
    <3>2. \A q \in Request : req[q].user = req[r].user => req[q].pc # "idle"
      BY <3>1, StoreAssumption DEF HInv, Shapes, Shape, Idle
    <3>. QED BY <1>0, <1>1, <1>3, <3>2 DEF TakeCreated, HomeTypeOK
  <2>. QED BY <1>0, <1>3, <2>1, <2>2, <2>3 DEF TakeCreated, HomeTypeOK
<1>4. CASE TakeDeleted(r)
  <2>1. /\ req'[r].pc # "idle" /\ req'[r].user = req[r].user
        /\ \A q \in Request \ {r} : req'[q] = req[q]
    BY <1>4 DEF TakeDeleted, HInv, IInv, TypeOK, Idle
  <2>2. AtHome' /\ orphans' \subseteq {q \in Request : req'[q].pc # "idle"}
    BY <1>0, <1>4, <2>1 DEF TakeDeleted, AtHome, HomeTypeOK, tabs
  <2>. QED BY <1>0, <1>4, <2>2 DEF TakeDeleted, HomeTypeOK, tabs
<1>5. CASE TakeOther(r)
  <2>1. AtHome' /\ orphans' \subseteq {q \in Request : req'[q].pc # "idle"}
    BY <1>0, <1>1, <1>5 DEF TakeOther, AtHome, HomeTypeOK
  <2>. QED BY <1>0, <1>5, <2>1 DEF TakeOther, MayLogOut, HomeTypeOK
<1>6. CASE MissList(r)
  <2>1. r \notin orphans => req[r].user \in home /\ req[r].user \in User
    BY <1>0, <1>6 DEF MissList, AtHome, HomeTypeOK
  <2>2. AtHome' /\ orphans' \subseteq {q \in Request : req'[q].pc # "idle"}
    BY <1>0, <1>1, <1>6 DEF MissList, AtHome, HomeTypeOK
  <2>3. broken' \subseteq home' /\ unsynced' \subseteq User \X File
    BY <1>0, <1>6, <2>1 DEF MissList, HomeTypeOK
  <2>. QED BY <1>0, <1>6, <2>2, <2>3 DEF MissList, MayLogOut, HomeTypeOK
<1>. QED BY <1>2, <1>3, <1>4, <1>5, <1>6

\* The buttons and the notifications.
LEMMA TabTypes ==
    ASSUME HInv, NEW u \in User,
           \/ EditFile(u) \/ Logout(u) \/ LoggedOut(u)
           \/ \E r \in Request : Arrive(u, r) \/ LoggedIn(u, r) \/ Click(u, r)
           \/ \E f \in File, kind \in Kind :
                 HandleFileNotification(u, f, kind)
                 \/ LoseNotification(u, f, kind)
    PROVE  HomeTypeOK' /\ AtHome'
<1>0. HomeTypeOK /\ AtHome /\ Lapsed \subseteq User \X File
  BY DEF HInv, Lapsed
<1>1. CASE EditFile(u)
  <2>1. /\ list' \in [User -> [File -> Nat] \cup {Unloaded}]
        /\ \A v \in User : list'[v] # Unloaded => v \in home'
    BY <1>0, <1>1 DEF EditFile, Leave, HomeTypeOK
  <2>2. AtHome'
    BY <1>0, <1>1 DEF EditFile, Leave, AtHome, storeVars
  <2>3. \A q \in Request : req[q].user = u => req[q].pc # "idle"
    BY StoreAssumption DEF HInv, Shapes, Shape, Idle
  <2>. QED BY <1>0, <1>1, <2>1, <2>2, <2>3
           DEF EditFile, Leave, HomeTypeOK, storeVars
<1>2. ASSUME NEW r \in Request, NEW pc, NEW f, NEW vs, Begin(r, pc, u, f, vs),
             pc # "idle", u \in home', home \subseteq home',
             home' \subseteq User, out' \subseteq home',
             UNCHANGED <<list, broken, orphans, unsynced>>
      PROVE  HomeTypeOK' /\ AtHome'
  <2>1. /\ req'[r].pc = pc /\ req'[r].user = u
        /\ \A q \in Request \ {r} : req'[q] = req[q]
    BY <1>2 DEF Begin, HInv, IInv, TypeOK, Idle
  <2>2. AtHome'
    BY <1>0, <1>2, <2>1 DEF AtHome
  <2>. QED BY <1>0, <1>2, <2>1, <2>2 DEF HomeTypeOK
<1>3. ASSUME NEW r \in Request, Arrive(u, r) PROVE HomeTypeOK' /\ AtHome'
  BY <1>0, <1>2, <1>3 DEF Arrive, GetFiles, HomeTypeOK
<1>8. ASSUME NEW r \in Request, LoggedIn(u, r) PROVE HomeTypeOK' /\ AtHome'
  BY <1>0, <1>2, <1>8 DEF LoggedIn, GetFiles, HomeTypeOK
<1>9. CASE Logout(u) \/ LoggedOut(u)
  <2>1. [f \in File |-> 0] \in [File -> Nat]
    OBVIOUS
  <2>2. /\ list' \in [User -> [File -> Nat] \cup {Unloaded}]
        /\ \A v \in User : list'[v] # Unloaded => v \in home'
    BY <1>0, <1>9, <2>1 DEF Logout, LoggedOut, HomeTypeOK
  <2>3. AtHome'
    BY <1>0, <1>9 DEF Logout, LoggedOut, AtHome, storeVars
  <2>. QED BY <1>0, <1>9, <2>2, <2>3
           DEF Logout, LoggedOut, HomeTypeOK, storeVars
<1>4. ASSUME NEW r \in Request, Click(u, r) PROVE HomeTypeOK' /\ AtHome'
  <2>1. PICK f \in File, vs \in SUBSET User,
             pc \in {"insertFile", "findLink", "findFile", "removeLink"} :
        Begin(r, pc, u, f, vs)
    BY <1>4, ClickBegins
  <2>2. /\ pc # "idle" /\ u \in home' /\ home' = home /\ home' \subseteq User
        /\ out' \subseteq home' /\ UNCHANGED <<list, broken, orphans, unsynced>>
    BY <1>0, <1>4 DEF Click, tabs, HomeTypeOK
  <2>. QED BY <1>2, <2>1, <2>2
<1>5. ASSUME NEW f \in File, NEW kind \in Kind, Deliver(u, f, kind),
             UNCHANGED <<home, out, broken, orphans>>,
             unsynced' \subseteq User \X File,
             list' \in [User -> [File -> Nat] \cup {Unloaded}],
             \A v \in User : list'[v] # Unloaded => list[v] # Unloaded
      PROVE  HomeTypeOK' /\ AtHome'
  <2>1. req' = req
    BY <1>5 DEF Deliver
  <2>. QED BY <1>0, <1>5, <2>1 DEF HomeTypeOK, AtHome
<1>6. ASSUME NEW f \in File, NEW kind \in Kind,
             HandleFileNotification(u, f, kind)
      PROVE  HomeTypeOK' /\ AtHome'
  <2>1. CASE list[u] = Unloaded \/ u \in broken
    BY <1>0, <1>5, <1>6, <2>1 DEF HandleFileNotification, HomeTypeOK
  <2>2. CASE list[u] # Unloaded /\ u \notin broken
    <3> DEFINE n == IF kind = "file_shared" THEN list[u][f] + 1 ELSE 0
    <3>1. list[u] \in [File -> Nat] /\ n \in Nat
      BY <1>0, <2>2 DEF HomeTypeOK
    <3>2. list' = [list EXCEPT ![u][f] = n]
      BY <1>0, <1>6, <2>2 DEF HandleFileNotification, HomeTypeOK
    <3> HIDE DEF n
    <3>3. /\ list' \in [User -> [File -> Nat] \cup {Unloaded}]
          /\ \A v \in User : v # u => list'[v] = list[v]
      BY <1>0, <3>1, <3>2 DEF HomeTypeOK
    <3>. QED BY <1>0, <1>5, <1>6, <2>2, <3>3
             DEF HandleFileNotification, HomeTypeOK
  <2>. QED BY <2>1, <2>2
<1>7. ASSUME NEW f \in File, NEW kind \in Kind, LoseNotification(u, f, kind)
      PROVE  HomeTypeOK' /\ AtHome'
  BY <1>0, <1>5, <1>7 DEF LoseNotification, tabs, HomeTypeOK
<1>. QED BY <1>1, <1>3, <1>4, <1>6, <1>7, <1>8, <1>9

\* The server goes on with the reading of every list.
LEMMA ReadingGoesOn ==
    ASSUME TypeOK, NEW r \in Request, Serve(r), UNCHANGED orphans,
           NEW u \in User, NEW q \in Request, Reading(u, q)
    PROVE  Reading(u, q)'
<1>1. req \in [Request -> ReqState]
  BY DEF TypeOK, ReqState
<1>2. req'[q].user = req[q].user
  BY ServeAwake
<1>3. req[q].pc \in {"selectFiles", "listed"} /\ OfTab(u, q)'
  BY <1>2 DEF Reading, OfTab
<1>4. CASE SelectFiles(r)
  <2>1. \A p \in Request \ {r} : req'[p] = req[p]
    BY <1>1, <1>4 DEF SelectFiles, AnswerError
  <2>2. req'[r].pc = "listed"
    BY <1>1, <1>4 DEF SelectFiles, AnswerError, ReqState
  <2>. QED BY <1>3, <2>1, <2>2 DEF Reading
<1>5. CASE ~SelectFiles(r)
  <2>1. /\ req[r].pc \notin {"selectFiles", "listed"}
        /\ \A p \in Request \ {r} : req'[p] = req[p]
    BY <1>1, <1>5
       DEF Serve, Create, Delete, Share, Remove, Get, InsertFile, InsertOwner,
           FindLink, DeleteFileRow, PublishFileDeleted, DeleteLink, FindFile,
           AddLink, AllLinked, NotifyShared, AllNotified, RemoveLink,
           NotifyRevoked, SelectLinks, StatementFails, Goto, AnswerOK,
           AnswerError
  <2>. QED BY <1>3, <2>1 DEF Reading
<1>. QED BY <1>4, <1>5

\* As long as every list that a page is reading goes on being read.
LEMMA StillRepaired ==
    ASSUME HInv, unsynced \subseteq unsynced', broken' \subseteq broken,
           \A u \in broken', q \in Request : Reading(u, q) => Reading(u, q)'
    PROVE  Repaired'
  BY DEF HInv, Repaired

\* The server.
LEMMA ServerRepairs ==
    ASSUME HInv, NEW r \in Request, ServerStep(r) \/ ReadLinks(r)
    PROVE  Repaired'
<1>0. TypeOK /\ broken \subseteq User /\ UNCHANGED tabs
  BY DEF HInv, IInv, HomeTypeOK, ServerStep, ReadLinks
<1>1. Serve(r) /\ orphans' = orphans /\ broken' = broken
  BY <1>0 DEF ServerStep, ReadLinks, Serve, Get, tabs
<1>2. \A u \in broken, q \in Request : Reading(u, q) => Reading(u, q)'
  BY <1>0, <1>1, ReadingGoesOn
<1>3. CASE ServerStep(r)
  <2>1. unsynced \subseteq unsynced'
    BY <1>3 DEF ServerStep
  <2>. QED BY <1>1, <1>2, <2>1, StillRepaired
<1>4. CASE ReadLinks(r)
  <2>1. ASSUME NEW u \in broken, NEW f \in File, <<u, f>> \notin unsynced'
        PROVE  \E q \in Request : Reading(u, q)'
    <3>1. CASE <<u, f>> \notin unsynced
      BY <1>2, <3>1 DEF HInv, Repaired
    <3>2. CASE <<u, f>> \in unsynced
      <4>1. <<u, f>> \in Resynced(req[r].user, r)
        BY <1>4, <2>1, <3>2 DEF ReadLinks
      <4>2. u = req[r].user /\ OfTab(u, r)
        BY <4>1 DEF Resynced
      <4>3. req'[r].pc \in {"selectFiles", "listed"}
        BY <1>0, <1>4 DEF ReadLinks, SelectLinks, AnswerError, TypeOK
      <4>4. req'[r].user = req[r].user
        BY <1>0, <1>1, ServeAwake
      <4>. QED BY <1>1, <4>2, <4>3, <4>4 DEF Reading, OfTab
    <3>. QED BY <3>1, <3>2
  <2>. QED BY <1>1, <2>1 DEF Repaired
<1>. QED BY <1>3, <1>4

\* The tabs.
LEMMA TabRepairs ==
    ASSUME HInv, [HomeNext]_vars,
           \A r \in Request : ~ServerStep(r) /\ ~ReadLinks(r)
    PROVE  Repaired'
<1>0. TypeOK /\ broken \subseteq User /\ Shapes
  BY DEF HInv, IInv, HomeTypeOK
<1>1. ASSUME NEW r \in Request, TakeAnswer(r),
             unsynced \subseteq unsynced', broken' \subseteq broken,
             orphans' = orphans \ {r},
             req[r].pc # "listed" \/ r \in orphans
                \/ req[r].user \notin broken'
      PROVE  Repaired'
  <2>1. \A q \in Request \ {r} : req'[q] = req[q]
    BY <1>1, TakenShapes
  <2>2. ASSUME NEW u \in broken', NEW q \in Request, Reading(u, q)
        PROVE  Reading(u, q)'
    <3>1. q # r
      BY <1>1, <2>2 DEF Reading, OfTab, TakeAnswer, Answered
    <3>. QED BY <1>1, <2>1, <2>2, <3>1 DEF Reading, OfTab
  <2>. QED BY <1>1, <2>2, StillRepaired
<1>2. ASSUME NEW r \in Request, TakeList(r) \/ TakeOther(r)
      PROVE  Repaired'
  BY <1>1, <1>2 DEF TakeList, TakeOther
<1>3. ASSUME NEW r \in Request, MissList(r) PROVE Repaired'
  <2>1. CASE r \in orphans
    BY <1>1, <1>3, <2>1 DEF MissList
  <2>2. CASE r \notin orphans
    <3>1. /\ broken' = broken \cup {req[r].user}
          /\ unsynced' = unsynced \cup ({req[r].user} \X File)
          /\ TakeAnswer(r) /\ orphans' = orphans \ {r}
      BY <1>3, <2>2 DEF MissList
    <3>2. \A q \in Request \ {r} : req'[q] = req[q]
      BY <3>1, TakenShapes
    <3>3. ASSUME NEW u \in broken', NEW f \in File, <<u, f>> \notin unsynced'
          PROVE  \E q \in Request : Reading(u, q)'
      <4>1. u \in broken /\ u # req[r].user /\ <<u, f>> \notin unsynced
        BY <3>1, <3>3
      <4>2. PICK q \in Request : Reading(u, q)
        BY <4>1 DEF HInv, Repaired
      <4>3. q # r
        BY <4>1, <4>2 DEF Reading, OfTab
      <4>. QED BY <3>1, <3>2, <4>2, <4>3 DEF Reading, OfTab
    <3>. QED BY <3>3 DEF Repaired
  <2>. QED BY <2>1, <2>2
<1>4. ASSUME NEW r \in Request, TakeCreated(r) PROVE Repaired'
  <2>1. /\ \A q \in Request \ {r} : req'[q] = req[q]
        /\ req[r].pc = "created" /\ unsynced \subseteq unsynced'
        /\ broken' = broken \ {req[r].user}
        /\ orphans' = (orphans \cup {q \in Request :
                                       req[q].user = req[r].user}) \ {r}
    BY <1>4, TakenShapes DEF TakeCreated
  <2>2. \A u \in broken', q \in Request : Reading(u, q) => Reading(u, q)'
    BY <2>1 DEF Reading, OfTab
  <2>. QED BY <2>1, <2>2, StillRepaired
<1>5. ASSUME NEW r \in Request, TakeDeleted(r) PROVE Repaired'
  <2>1. /\ \A q \in Request \ {r} : req'[q] = req[q]
        /\ req[r].pc = "deleted" /\ unsynced \subseteq unsynced'
        /\ broken' = broken /\ orphans' = orphans
    BY <1>0, <1>5 DEF TakeDeleted, TypeOK, tabs
  <2>2. \A u \in broken', q \in Request : Reading(u, q) => Reading(u, q)'
    BY <2>1 DEF Reading, OfTab
  <2>. QED BY <2>1, <2>2, StillRepaired
<1>6. ASSUME NEW r \in Request, NEW u, NEW pc, NEW f, NEW vs,
             Begin(r, pc, u, f, vs), UNCHANGED <<broken, orphans, unsynced>>
      PROVE  Repaired'
  <2>1. req[r].pc = "idle" /\ \A q \in Request \ {r} : req'[q] = req[q]
    BY <1>0, <1>6 DEF Begin, TypeOK
  <2>2. \A v \in broken', q \in Request : Reading(v, q) => Reading(v, q)'
    BY <1>6, <2>1 DEF Reading, OfTab
  <2>. QED BY <1>6, <2>2, StillRepaired
<1>7. ASSUME NEW r \in Request, NEW u \in User,
             Arrive(u, r) \/ LoggedIn(u, r) \/ Click(u, r)
      PROVE  Repaired'
  <2>1. CASE Arrive(u, r) \/ LoggedIn(u, r)
    BY <1>6, <2>1 DEF Arrive, LoggedIn, GetFiles
  <2>2. CASE Click(u, r)
    <3>1. UNCHANGED <<broken, orphans, unsynced>>
      BY <2>2 DEF Click, tabs
    <3>. QED BY <1>6, <2>2, <3>1, ClickBegins
  <2>. QED BY <1>7, <2>1, <2>2
<1>8. ASSUME req' = req, unsynced \subseteq unsynced', broken' \subseteq broken,
             \A q \in Request : q \in orphans' \ orphans =>
                req[q].user \notin broken'
      PROVE  Repaired'
  <2>1. \A v \in broken', q \in Request : Reading(v, q) => Reading(v, q)'
    BY <1>8 DEF Reading, OfTab
  <2>. QED BY <1>8, <2>1, StillRepaired
<1>9. ASSUME NEW u \in User, EditFile(u) \/ Logout(u) \/ LoggedOut(u)
      PROVE  Repaired'
  BY <1>8, <1>9 DEF EditFile, Leave, Logout, LoggedOut, storeVars
<1>10. ASSUME NEW u \in User, NEW f \in File, NEW kind \in Kind,
              HandleFileNotification(u, f, kind) \/ LoseNotification(u, f, kind)
       PROVE  Repaired'
  BY <1>8, <1>10 DEF HandleFileNotification, LoseNotification, Deliver, tabs
<1>11. CASE UNCHANGED vars
  BY <1>8, <1>11 DEF vars, storeVars, tabs
<1>. QED BY <1>2, <1>3, <1>4, <1>5, <1>7, <1>9, <1>10, <1>11 DEF HomeNext

\* The steps of the store are its own, but that the answer to a deletion is
\* taken by the request for the list.
LEMMA StoreSteps ==
    ASSUME HInv, [HomeNext]_vars
    PROVE  IInv'
<1>0. IInv
  BY DEF HInv
<1>1. ASSUME NEW r \in Request, TakeDeleted(r) PROVE IInv'
  <2> DEFINE asked == [Idle EXCEPT
                 !.pc = IF req[r].user \in out THEN "listed" ELSE "selectLinks",
                 !.user = req[r].user]
  <2>1. req \in [Request -> ReqState]
    BY <1>0 DEF IInv, TypeOK, ReqState
  <2>2. /\ asked \in ReqState /\ asked.pc \in {"selectLinks", "listed"}
        /\ asked.file = NoFile
    BY <2>1 DEF Idle, ReqState, PC
  <2>3. /\ req' \in [Request -> ReqState] /\ req'[r] = asked
        /\ \A q \in Request \ {r} : req'[q] = req[q]
        /\ UNCHANGED <<files, role, mail, met, issued>>
    <3> HIDE DEF asked
    <3>. QED BY <1>1, <2>1, <2>2 DEF TakeDeleted, asked
  <2> HIDE DEF asked
  <2>4. TypeOK'
    BY <1>0, <2>3 DEF IInv, TypeOK, ReqState
  <2>5. Rows' /\ OneOwner'
    BY <1>0, <2>3 DEF IInv, Rows, OneOwner, Owners, Linked
  <2>6. ASSUME NEW q \in Request, q # r PROVE Sound(q)'
    <3>1. req'[q] = req[q] /\ Sound(q)
      BY <1>0, <2>3, <2>6 DEF IInv
    <3>2. req[q].pc \in Making => req[q].file # NoFile
      BY <1>0, Subject, StoreAssumption
    <3>. QED BY <2>2, <2>3, <3>1, <3>2 DEF Sound, Made, Used, Entitled
  <2>7. Sound(r)'
    BY <2>2, <2>3 DEF Sound, Made, Used, Entitled, Making, Using
  <2>. QED BY <2>4, <2>5, <2>6, <2>7 DEF IInv
<1>2. ASSUME NEW r \in Request, ServerStep(r) \/ ReadLinks(r) PROVE IInv'
  BY <1>0, <1>2, CreateStep, DeleteStep, ShareStep, RemoveStep, GetStep
     DEF ServerStep, ReadLinks, Get
<1>3. ASSUME NEW r \in Request,
             TakeList(r) \/ MissList(r) \/ TakeCreated(r) \/ TakeOther(r)
      PROVE  IInv'
  BY <1>0, <1>3, ClientStep DEF TakeList, MissList, TakeCreated, TakeOther
<1>4. ASSUME NEW u \in User, NEW r \in Request,
             Arrive(u, r) \/ LoggedIn(u, r) \/ Click(u, r)
      PROVE  IInv'
  BY <1>0, <1>4, ClientStep DEF Arrive, LoggedIn, Click
<1>5. ASSUME NEW u \in User, NEW f \in File, NEW kind \in Kind,
             HandleFileNotification(u, f, kind) \/ LoseNotification(u, f, kind)
      PROVE  IInv'
  BY <1>0, <1>5, ClientStep DEF HandleFileNotification, LoseNotification
<1>6. CASE UNCHANGED storeVars
  BY <1>0, <1>6, StepInv
<1>. QED BY <1>1, <1>2, <1>3, <1>4, <1>5, <1>6
         DEF HomeNext, EditFile, Logout, LoggedOut, vars

-----------------------------------------------------------------------------
(***************************************************************************)
(* The theorems.                                                           *)
(***************************************************************************)

\* Before anybody has come home.
LEMMA HomeInitInv == HomeInit => HInv
<1> SUFFICES ASSUME HomeInit PROVE HInv
  OBVIOUS
<1>1. IInv
  BY InitInv DEF HomeInit
<1>2. HomeTypeOK
  BY DEF HomeInit, HomeTypeOK
<1>3. \A r \in Request : req[r] = Idle
  BY DEF HomeInit, Init
<1>4. Idle.pc = "idle" /\ Idle.owed = {} /\ Idle.ok = FALSE
  BY DEF Idle
<1>5. Shapes /\ AtHome
  BY <1>3, <1>4 DEF Shapes, Shape, AtHome, Lists
<1>6. ASSUME NEW u \in User, NEW f \in File PROVE Synced(u, f)
  <2>1. /\ Shared(u, f) = 0 /\ Revoked(u, f) = 0 /\ list[u] = Unloaded
    BY DEF HomeInit, Init, Shared, Revoked, Kind
  <2>2. \A r \in Request : /\ ~Adding(u, f, r) /\ ~Created(u, f, r)
                           /\ ~Removing(u, f, r) /\ ~Reading(u, r)
    BY <1>3, <1>4 DEF Adding, Created, Removing, Reading
  <2>3. ToldOut(u, f) /\ ToldIn(u, f)
    BY <2>1, <2>2 DEF ToldOut, ToldIn
  <2>4. NotYet(u, f) /\ Shown(u, f)
    BY <2>1 DEF NotYet, Shown, Settled
  <2>5. \A r \in Request : HasRead(u, f, r)
    BY <2>2 DEF HasRead
  <2>. QED BY <2>3, <2>4, <2>5 DEF Synced
<1>7. Repaired
  BY DEF HomeInit, Repaired
<1>. QED BY <1>1, <1>2, <1>5, <1>6, <1>7 DEF HInv, AllSynced

\* Every step keeps the invariant.
LEMMA HomeStepInv == HInv /\ [HomeNext]_vars => HInv'
<1> SUFFICES ASSUME HInv, [HomeNext]_vars PROVE HInv'
  OBVIOUS
<1>0. IInv' /\ Repaired'
  BY StoreSteps, ServerRepairs, TabRepairs
<1>1. ASSUME NEW r \in Request, ServerStep(r) PROVE Shapes' /\ AllSynced'
  BY <1>0, <1>1, CreateSynced, DeleteSynced, ShareSynced, RemoveSynced,
     SelectSynced DEF ServerStep
<1>2. CASE UNCHANGED vars
  <2>1. HomeTypeOK' /\ AtHome' /\ Shapes'
    BY <1>2 DEF HInv, HomeTypeOK, AtHome, Shapes, Shape, vars, tabs, storeVars
  <2>2. ASSUME NEW u \in User, NEW f \in File, <<u, f>> \notin unsynced'
        PROVE  Synced(u, f)'
    <3>1. Synced(u, f) /\ \A r \in Request : OfTab(u, r)' <=> OfTab(u, r)
      BY <1>2, <2>2 DEF HInv, AllSynced, OfTab, vars, tabs, storeVars
    <3>. QED BY <1>2, <3>1, SameSynced DEF vars, tabs, storeVars
  <2>. QED BY <1>0, <2>1, <2>2 DEF HInv, AllSynced
<1>3. CASE HomeNext
  <2>1. HomeTypeOK' /\ AtHome'
    BY <1>3, ServerTypes, TakeTypes, TabTypes DEF HomeNext
  <2>2. Shapes' /\ AllSynced'
    BY <1>0, <1>1, <1>3, ReadSynced, TakeListSynced, MissListSynced,
       TakeCreatedSynced, TakeDeletedSynced, TakeOtherSynced, EditSynced,
       LogoutSynced, ArriveSynced, LoggedInSynced, ClickSynced, HandleSynced, LoseSynced DEF HomeNext
  <2>. QED BY <1>0, <2>1, <2>2 DEF HInv
<1>. QED BY <1>2, <1>3

\* The invariant holds in every state.
LEMMA HomeInvariance == HomeSpec => []HInv
  BY HomeInitInv, HomeStepInv, PTL DEF HomeSpec

(* The tabs keep their types: a list is only there on a tab that shows the *)
(* home page, and only requests that are being served have been left by    *)
(* their component.                                                        *)
THEOREM HomeTypeTheorem == HomeSpec => []HomeTypeOK
<1>1. HInv => HomeTypeOK
  BY DEF HInv
<1>. QED BY <1>1, HomeInvariance, PTL

(* The list a page shows is exact when nothing about the file is on its    *)
(* way, for any number of users, files and requests, whatever fails,       *)
(* whatever is lost and whoever logs out, but for what the history says.   *)
THEOREM ListTheorem == HomeSpec => []ListExact
<1>1. HInv => ListExact
  BY DEF HInv, AllSynced, Synced, Shown, Settled, ListExact
<1>. QED BY <1>1, HomeInvariance, PTL

(* Types, rows and owners, with the home pages as the clients: the deletion *)
(* that is followed by a request for the list changes nothing about them.  *)
THEOREM HomeStoreTheorem == HomeSpec => [](TypeOK /\ OneOwner)
<1>1. HInv => TypeOK /\ OneOwner
  BY DEF HInv, IInv
<1>. QED BY <1>1, HomeInvariance, PTL

(* Whatever the home pages send, and however old the list is that a button *)
(* was pressed on, a file is only deleted by its owner.                    *)
THEOREM HomeDeletionTheorem == HomeSpec => OnlyItsOwnerDeletes
<1>1. ASSUME HInv, [HomeNext]_vars, NEW f \in files \ files'
      PROVE  \E r \in Request : /\ req[r].pc = "deleteFile" /\ req[r].file = f
                                /\ role[f][req[r].user] = "Owner"
  <2>1. [Next]_storeVars
    <3>1. ~UNCHANGED files
      OBVIOUS
    <3>2. \A r \in Request : ~TakeDeleted(r)
      BY <3>1 DEF TakeDeleted
    <3>3. \A u \in User : ~EditFile(u) /\ ~Logout(u) /\ ~LoggedOut(u)
      BY <3>1 DEF EditFile, Logout, LoggedOut, storeVars
    <3>4. ASSUME NEW r \in Request, ServerStep(r) \/ ReadLinks(r) PROVE Next
      BY <3>4 DEF ServerStep, ReadLinks, Next, Serve, Get
    <3>5. ASSUME NEW r \in Request,
                 TakeList(r) \/ MissList(r) \/ TakeCreated(r) \/ TakeOther(r)
          PROVE  Next
      BY <3>5 DEF TakeList, MissList, TakeCreated, TakeOther, Next
    <3>6. ASSUME NEW u \in User, NEW r \in Request,
                 Arrive(u, r) \/ LoggedIn(u, r) \/ Click(u, r)
          PROVE  Next
      BY <3>6 DEF Arrive, LoggedIn, Click, Next
    <3>7. ASSUME NEW u \in User, NEW g \in File, NEW kind \in Kind,
                 HandleFileNotification(u, g, kind)
                 \/ LoseNotification(u, g, kind)
          PROVE  Next
      BY <3>7 DEF HandleFileNotification, LoseNotification, Next
    <3>8. ~UNCHANGED vars
      BY <3>1 DEF vars, storeVars
    <3>. QED BY <1>1, <3>2, <3>3, <3>4, <3>5, <3>6, <3>7, <3>8 DEF HomeNext
  <2>. QED BY <1>1, <2>1, DeletedByOwner DEF HInv
<1>2. HInv /\ [HomeNext]_vars =>
         [\A f \in files \ files' : \E r \in Request :
             /\ req[r].pc = "deleteFile" /\ req[r].file = f
             /\ role[f][req[r].user] = "Owner"]_storeVars
  BY <1>1
<1>. QED BY <1>2, HomeInvariance, PTL DEF HomeSpec, OnlyItsOwnerDeletes
=============================================================================
