------------------------------- MODULE Editor -------------------------------
(***************************************************************************)
(* The rich-text editor component: every call it receives goes to both of  *)
(* its structures, the LSEQ atoms that hold the text and the rope tree     *)
(* that finds identifiers by position, which nothing else keeps together.  *)
(* Positions are those a caret can take in the text, after its last        *)
(* character included.                                                     *)
(***************************************************************************)
EXTENDS Lseq, RopeTree

CONSTANT DeletableLeaves   \* bound of the leaves of a tree that is deleted from
\* An insertion makes a tree higher by one at most, so that MaxInsert bounds
\* the height and MaxHeight nothing.
ASSUME EditorAssumption == DeletableLeaves \in Nat /\ MaxHeight >= MaxInsert

VARIABLE root        \* ropeTree.root

editorVars == <<vars, root>>

EditorInit == Init /\ root = EmptyRope

\* alloc's default for a neighbour the tree did not find.
PathOr(id, sentinel) == IF id = NoId THEN sentinel.path ELSE id.path

insertCharAtPosition(position, char) ==
    LET ids == getInsertIds(root, position + 1)
        p == PathOr(ids.p, SENT_START)
        q == PathOr(ids.q, SENT_END)
    IN  /\ inserted < MaxInsert
        /\ inserted' = inserted + 1
        /\ call' = [op |-> "insert", position |-> position, char |-> char]
        /\ \E depth \in Depths(p, q), fromP \in BOOLEAN :
             /\ Allocates(depth, fromP)
             /\ \E path \in NewDigits(p, q, depth, fromP) :
                  /\ addAtom([id |-> NewId(path), value |-> char])
                  /\ root' = insert[root][NewId(path)]

deleteCharAtPosition(position) ==
    LET id == getDeleteIds(root, position + 1)
    IN  /\ LeavesOf[root] <= DeletableLeaves
        /\ call' = [op |-> "delete", position |-> position]
        /\ IF id # NoId THEN delete(id) /\ root' = deleteId[root][id]
           ELSE UNCHANGED <<atoms, root>>
        /\ UNCHANGED <<bpbm, inserted>>

EditorNext ==
    \E position \in 0..Len(atoms) :
        \/ \E char \in Char : insertCharAtPosition(position, char)
        \/ deleteCharAtPosition(position)

EditorSpec == EditorInit /\ [][EditorNext]_editorVars

-----------------------------------------------------------------------------
(* Properties (with TypeOK, AtomsOrdered and RefinesTextBuffer of Lseq).   *)

\* The two structures agree: the tree holds exactly the identifiers of the
\* atoms, in the same order, between the sentinels (the last of which a
\* deletion at the end of the text removes).
TreeHoldsAtoms ==
    LET ids == [i \in DOMAIN atoms |-> atoms[i].id]
    IN  IdsOf[root] \in {<<SENT_START>> \o ids,
                         <<SENT_START>> \o ids \o <<SENT_END>>}

\* The identifiers in the tree keep their order from leaf to leaf, whatever
\* was inserted and deleted.
TreeOrdered ==
    LET ids == IdsOf[root]
    IN  \A i \in 1..(Len(ids) - 1) : Less(ids[i], ids[i + 1])

\* The component edits as Lseq does, which takes the neighbours of a position
\* and the character to delete from the atoms: searching them in the rope tree
\* makes no difference.
EditsAsLseq == Spec

\* As long as the tree is in order, a deletion removes the character at its
\* position and no other.
DeletesWhereAsked ==
    [][\A position \in 0..Len(atoms) :
         TreeOrdered /\ call' = [op |-> "delete", position |-> position]
         => Buffer!DeleteChar(position)]_editorVars
=============================================================================
